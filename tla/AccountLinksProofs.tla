------------------------- MODULE AccountLinksProofs -------------------------
(***************************************************************************)
(* Theorems about AccountLinks for any accounts, transactions, goroutines  *)
(* and bounds.  Nothing is transactional there, so the invariants rest on  *)
(* what an operation still knows of the rows it read some statements ago:  *)
(* ids are never reused and the ends of a link never change (Remembered),  *)
(* and, until torn says otherwise, operations that would undo each other's *)
(* writes do not overlap (Alone).                                          *)
(***************************************************************************)
EXTENDS AccountLinks, FiniteSetTheorems, FunctionTheorems, TLAPS

\* Stages in which the link row read is still used, and those with a pair at hand.
RowStage == {"insertLink", "mark", "update", "others", "unmark", "clearLink",
             "dropLink", "manual", "nextRow", "insertMatch", "attribute"}
PairStage == {"clearMatch", "dropMatch", "manual", "insertMatch", "attribute"}

\* What the locals x of an operation say of rows that may have changed or gone.
RememberedBy(x) ==
  /\ x.l <= lastLink /\ x.m <= lastMatch
  /\ x.pc \in RowStage => x.row \in LinkRow
  /\ x.pc = "insertLink" => x.row.pri # x.row.dep
  /\ x.pc \in PairStage => x.pri \in Txn /\ x.dep \in Txn
  /\ x.l \in DOMAIN link =>
       x.pc \in RowStage /\ x.row.pri = link[x.l].pri /\ x.row.dep = link[x.l].dep
  /\ x.m # 0 => x.pc \in {"clearMatch", "dropMatch"}
  /\ x.m \in DOMAIN match => x.pri = match[x.m].pri
  /\ \A s \in x.links :
       /\ s.id <= lastLink
       /\ s.id \in DOMAIN link =>
            s.row.pri = link[s.id].pri /\ s.row.dep = link[s.id].dep

\* Nobody is linked to itself, and what operations remember is so.
Remembered ==
  /\ \A l \in DOMAIN link : link[l].pri # link[l].dep
  /\ \A o \in Op : RememberedBy(op[o])

BaseInv == TypeOK /\ Remembered

\* The operation o has moved on to the locals x; the others have not.
Moved(o, x) ==
  /\ x \in OpState
  /\ op' \in [Op -> OpState] /\ op'[o] = x
  /\ \A q \in Op \ {o} : op'[q] = op[q]

-----------------------------------------------------------------------------
(* Types and memory                                                        *)

LEMMA IdleType == Idle \in OpState /\ Idle.pc = "idle" /\ Idle.l = 0 /\ Idle.m = 0
                  /\ Idle.links = {} /\ Idle.ask = "unset"
BY DEF Idle, OpState, Pc

LEMMA BaseInit == Init => BaseInv
<1> SUFFICES ASSUME Init PROVE BaseInv
  OBVIOUS
<1> USE AccountLinksAssumption
<1> DEFINE nth == CHOOSE f \in Bijection(1 .. lastLink, Linked) : TRUE
<1>1. lastLink \in Nat /\ lastLink = Cardinality(Linked)
  BY FS_CardinalityType DEF Init
<1>2. nth \in Bijection(1 .. lastLink, Linked)
  <2>1. ExistsBijection(1 .. lastLink, Linked)
    BY <1>1, FS_CardinalityType
  <2> QED
    BY <2>1, Zenon DEF ExistsBijection
<1>3. PICK tol \in Tolerance :
        link = [l \in 1 .. lastLink |-> [pri |-> nth[l][1], dep |-> nth[l][2],
                                         tol |-> tol, enabled |-> TRUE]]
  BY Zenon DEF Init
<1> HIDE DEF nth
<1>4. nth \in [1 .. lastLink -> Linked]
  BY <1>2, Fun_BijectionProperties, ZenonT(40)
<1>5. \A l \in 1 .. lastLink : /\ nth[l][1] \in Acct /\ nth[l][2] \in Acct
                               /\ nth[l][1] # nth[l][2]
  <2>1. \A p \in Linked : p[1] \in Acct /\ p[2] \in Acct /\ p[1] # p[2]
    <3>1. Linked \subseteq Acct \X Acct /\ \A p \in Linked : p[1] # p[2]
      OBVIOUS
    <3> QED
      BY <3>1
  <2>2. \A l \in 1 .. lastLink : nth[l] \in Linked
    BY <1>4, Zenon
  <2> QED
    BY <2>1, <2>2, Zenon
<1>6. /\ DOMAIN link = 1 .. lastLink
      /\ \A l \in DOMAIN link : link[l] \in LinkRow /\ link[l].pri # link[l].dep
  BY <1>3, <1>5 DEF LinkRow
<1>7. /\ match = <<>> /\ DOMAIN match = {} /\ lastMatch = 0 /\ live = Txn /\ events = 0
      /\ torn = {} /\ rejected = {}
      /\ flag \in [Acct -> BOOLEAN] /\ attributed \in [Txn -> User \cup {NoUser}]
      /\ op = [o \in Op |-> Idle]
  BY DEF Init
<1>8. TypeOK
  BY <1>1, <1>6, <1>7, IdleType DEF TypeOK
<1>9. Remembered
  <2>1. RememberedBy(Idle)
    BY <1>1, <1>6, <1>7, IdleType DEF RememberedBy, RowStage, PairStage
  <2> QED
    BY <1>6, <1>7, <2>1 DEF Remembered
<1> QED
  BY <1>8, <1>9 DEF BaseInv

\* Where NextOf leads, and what it keeps.
LEMMA NextOfShape ==
  ASSUME NEW x \in OpState
  PROVE  /\ NextOf(x) \in OpState
         /\ NextOf(x).pc \in {"idle", "nextLink", "nextRow"}
         /\ NextOf(x).links \subseteq x.links
         /\ NextOf(x).pc = "nextRow" =>
              NextOf(x).l = x.l /\ NextOf(x).row = x.row /\ NextOf(x).m = x.m
         /\ NextOf(x).pc # "nextRow" => NextOf(x).l = 0 /\ NextOf(x).m = 0
<1>1. CASE x.rows # {}
  BY <1>1 DEF NextOf, OpState, Pc
<1>2. CASE x.rows = {} /\ x.links # {}
  <2>1. NextOf(x) = [Idle EXCEPT !.pc = "nextLink", !.links = x.links]
    BY <1>2 DEF NextOf
  <2> QED
    BY <2>1, IdleType DEF OpState, Pc
<1>3. CASE x.rows = {} /\ x.links = {}
  BY <1>3, IdleType DEF NextOf
<1> QED
  BY <1>1, <1>2, <1>3

\* What every step does to the links, and to the matches: those that stay keep
\* their ends, new ones have ids never used before.
LinksKept ==
  /\ lastLink' \in Nat /\ lastLink <= lastLink' /\ DOMAIN link' \subseteq 1 .. lastLink'
  /\ \A l \in DOMAIN link' :
       /\ link'[l] \in LinkRow
       /\ \/ /\ l \in DOMAIN link
             /\ link'[l].pri = link[l].pri /\ link'[l].dep = link[l].dep
          \/ l > lastLink /\ link'[l].pri # link'[l].dep
MatchesKept ==
  /\ lastMatch' \in Nat /\ lastMatch <= lastMatch' /\ DOMAIN match' \subseteq 1 .. lastMatch'
  /\ \A m \in DOMAIN match' :
       /\ match'[m] \in MatchRow /\ match'[m].link \in DOMAIN link'
       /\ \/ /\ m \in DOMAIN match
             /\ match'[m].pri = match[m].pri /\ match'[m].dep = match[m].dep
             /\ match'[m].link = match[m].link
          \/ /\ m > lastMatch
             /\ \A k \in DOMAIN match' \ {m} :
                  match'[k].pri # match'[m].pri /\ match'[k].dep # match'[m].dep
RestTyped ==
  /\ flag' \in [Acct -> BOOLEAN]
  /\ attributed' \in [Txn -> User \cup {NoUser}]
  /\ live' \subseteq Txn /\ events' \in Nat
  /\ torn' \subseteq {"attribution", "flag"} /\ rejected' \subseteq Txn \X Txn

\* Rows keep their ends and ids stay used, so what is remembered stays true.
LEMMA MemoryKept ==
  ASSUME BaseInv, LinksKept, MatchesKept, NEW x \in OpState, RememberedBy(x)
  PROVE  RememberedBy(x)'
<1>1. x.l \in Nat /\ x.m \in Nat /\ \A s \in x.links : s.id \in Nat
  BY DEF OpState
<1>2. x.l <= lastLink' /\ x.m <= lastMatch'
  BY <1>1 DEF LinksKept, MatchesKept, BaseInv, TypeOK, RememberedBy
<1>3. x.l \in DOMAIN link' =>
        x.pc \in RowStage /\ x.row.pri = link'[x.l].pri /\ x.row.dep = link'[x.l].dep
  BY <1>1 DEF LinksKept, BaseInv, TypeOK, RememberedBy
<1>4. x.m \in DOMAIN match' => x.pri = match'[x.m].pri
  BY <1>1 DEF MatchesKept, BaseInv, TypeOK, RememberedBy
<1>5. \A s \in x.links :
        /\ s.id <= lastLink'
        /\ s.id \in DOMAIN link' =>
             s.row.pri = link'[s.id].pri /\ s.row.dep = link'[s.id].dep
  BY <1>1 DEF LinksKept, BaseInv, TypeOK, RememberedBy
<1> QED
  BY <1>2, <1>3, <1>4, <1>5 DEF RememberedBy

\* A step after which all this is so and the one operation that moved remembers
\* the truth preserves types and memory.
LEMMA KeptStep ==
  ASSUME BaseInv, LinksKept, MatchesKept, RestTyped,
         NEW o \in Op, NEW x, Moved(o, x), RememberedBy(x)'
  PROVE  BaseInv'
<1>1. TypeOK'
  <2>1. \A m, n \in DOMAIN match' :
          match'[m].pri = match'[n].pri \/ match'[m].dep = match'[n].dep => m = n
    BY DEF BaseInv, TypeOK, MatchesKept
  <2> QED
    BY <2>1 DEF TypeOK, LinksKept, MatchesKept, RestTyped, Moved
<1>2. \A l \in DOMAIN link' : link'[l].pri # link'[l].dep
  BY DEF BaseInv, Remembered, LinksKept
<1>3. ASSUME NEW q \in Op \ {o} PROVE RememberedBy(op[q])'
  <2>1. op'[q] = op[q] /\ RememberedBy(op[q]) /\ op[q] \in OpState
    BY DEF Moved, BaseInv, TypeOK, Remembered
  <2>2. PICK y \in OpState : y = op[q]
    BY <2>1
  <2>3. RememberedBy(y)'
    BY <2>1, <2>2, MemoryKept
  <2> QED
    BY <2>1, <2>2, <2>3
<1>4. RememberedBy(op[o])'
  BY DEF Moved
<1> QED
  BY <1>1, <1>2, <1>3, <1>4 DEF BaseInv, Remembered

LEMMA Unchanged ==
  ASSUME BaseInv
  PROVE  /\ UNCHANGED <<link, lastLink>> => LinksKept
         /\ UNCHANGED <<match, lastMatch>> /\ DOMAIN link \subseteq DOMAIN link' => MatchesKept
BY DEF BaseInv, TypeOK, Remembered, LinksKept, MatchesKept

\* The operation o is at x and says op' = [op EXCEPT ![o] = x].
LEMMA MovedTo ==
  ASSUME BaseInv, NEW o \in Op, NEW x \in OpState, op' = [op EXCEPT ![o] = x]
  PROVE  Moved(o, x)
BY DEF BaseInv, TypeOK, Moved

\* A request reads, remembers what it has read, and writes nothing yet.
LEMMA RequestBase ==
  ASSUME BaseInv, NEW o \in Op, NEW x \in OpState, RememberedBy(x),
         Begin(o, x), events' \in Nat
  PROVE  BaseInv'
<1>1. /\ Moved(o, x)
      /\ UNCHANGED <<link, match, lastLink, lastMatch, flag, attributed, live, rejected>>
      /\ torn' \subseteq {"attribution", "flag"}
  BY MovedTo DEF Begin, Tear, dbVars, BaseInv, TypeOK
<1>2. RememberedBy(x)'
  BY <1>1 DEF RememberedBy
<1>3. RestTyped
  BY <1>1 DEF RestTyped, BaseInv, TypeOK
<1> QED
  BY <1>1, <1>2, <1>3, Unchanged, KeptStep

\* After its last statement the operation forgets, or goes on with the row or
\* link that NextOf finds.
LEMMA RowDoneShape ==
  ASSUME BaseInv, NEW o \in Op, op[o].pc \in RowStage,
         NEW y \in OpState, y.l = op[o].l, y.m = op[o].m, y.row = op[o].row,
         y.links = op[o].links, op[o].m \notin DOMAIN match,
         op' = [op EXCEPT ![o] = NextOf(y)]
  PROVE  \E x : /\ Moved(o, x) /\ RememberedBy(x)
                /\ x.pc \in {"idle", "nextLink", "nextRow"}
<1>1. PICK x \in OpState : x = NextOf(y)
  BY NextOfShape
<1>2. Moved(o, x)
  BY <1>1, MovedTo
<1>3. RememberedBy(op[o])
  BY DEF BaseInv, Remembered
<1>4. 0 \notin DOMAIN link /\ 0 \notin DOMAIN match /\ lastLink \in Nat /\ lastMatch \in Nat
  BY DEF BaseInv, TypeOK
<1>5. RememberedBy(x)
  BY <1>1, <1>3, <1>4, NextOfShape DEF RememberedBy, RowStage, PairStage
<1> QED
  BY <1>1, <1>2, <1>5, NextOfShape

LEMMA UserRequestBase ==
  ASSUME BaseInv, NEW o \in Op, UserRequest(o)
  PROVE  BaseInv'
<1> USE AccountLinksAssumption
<1>1. ASSUME NEW p \in Acct, NEW d \in Acct, NEW tol \in Tolerance,
             CreateAccountLink(o, p, d, tol)
      PROVE  BaseInv'
  <2>1. PICK x : x = [Idle EXCEPT !.pc = "insertLink",
                       !.row = [pri |-> p, dep |-> d, tol |-> tol, enabled |-> TRUE]]
    OBVIOUS
  <2>2. p # d /\ 0 \notin DOMAIN match /\ 0 \notin DOMAIN link /\ lastMatch \in Nat /\ lastLink \in Nat
    BY <1>1 DEF BaseInv, TypeOK, MatchRow, CreateAccountLink
  <2>3. /\ x.row \in LinkRow /\ x.row.pri = p /\ x.row.dep = d
        /\ x.pc = "insertLink" /\ x.l = 0 /\ x.m = 0 /\ x.links = {}
    BY <2>1, <2>2 DEF Idle, LinkRow, Snapshot
  <2>4. x \in OpState
    BY <2>1, <2>2, <2>3, IdleType DEF OpState, Pc, Idle
  <2>5. RememberedBy(x)
    BY <2>2, <2>3 DEF RememberedBy, RowStage, PairStage, Snapshot
  <2> QED
    BY <1>1, <2>1, <2>4, <2>5, RequestBase DEF CreateAccountLink, Request, BaseInv, TypeOK
<1>2. ASSUME NEW l \in DOMAIN link, NEW enabled \in {"on", "off", "unset"},
             NEW tol \in Tolerance, UpdateAccountLink(o, l, enabled, tol)
      PROVE  BaseInv'
  <2>1. PICK x : x = [Idle EXCEPT !.pc = "update", !.l = l, !.ask = enabled,
                        !.row = [link[l] EXCEPT !.tol = tol,
                          !.enabled = IF enabled = "unset" THEN @ ELSE enabled = "on"]]
    OBVIOUS
  <2>2. /\ 0 \notin DOMAIN match /\ 0 \notin DOMAIN link /\ lastMatch \in Nat /\ lastLink \in Nat
        /\ link[l] \in LinkRow /\ l \in Nat /\ l <= lastLink
    BY <1>2 DEF BaseInv, TypeOK, MatchRow, UpdateAccountLink
  <2>3. /\ x.row \in LinkRow /\ x.row.pri = link[l].pri /\ x.row.dep = link[l].dep
        /\ x.pc = "update" /\ x.l = l /\ x.m = 0 /\ x.links = {}
    BY <2>1, <2>2 DEF Idle, LinkRow, Snapshot
  <2>4. x \in OpState
    BY <2>1, <2>2, <2>3, IdleType DEF OpState, Pc, Idle
  <2>5. RememberedBy(x)
    BY <2>2, <2>3 DEF RememberedBy, RowStage, PairStage, Snapshot
  <2> QED
    BY <1>2, <2>1, <2>4, <2>5, RequestBase DEF UpdateAccountLink, Request, BaseInv, TypeOK
<1>3. ASSUME NEW l \in DOMAIN link, DeleteAccountLink(o, l)
      PROVE  BaseInv'
  <2>1. PICK x : x = [Idle EXCEPT !.pc = "clearLink", !.l = l, !.row = link[l]]
    OBVIOUS
  <2>2. /\ 0 \notin DOMAIN match /\ 0 \notin DOMAIN link /\ lastMatch \in Nat /\ lastLink \in Nat
        /\ link[l] \in LinkRow /\ l \in Nat /\ l <= lastLink
    BY <1>3 DEF BaseInv, TypeOK, MatchRow, DeleteAccountLink
  <2>3. /\ x.row = link[l]
        /\ x.pc = "clearLink" /\ x.l = l /\ x.m = 0 /\ x.links = {}
    BY <2>1, <2>2 DEF Idle, LinkRow, Snapshot
  <2>4. x \in OpState
    BY <2>1, <2>2, <2>3, IdleType DEF OpState, Pc, Idle
  <2>5. RememberedBy(x)
    BY <2>2, <2>3 DEF RememberedBy, RowStage, PairStage, Snapshot
  <2> QED
    BY <1>3, <2>1, <2>4, <2>5, RequestBase DEF DeleteAccountLink, Request, BaseInv, TypeOK
<1>4. ASSUME NEW l \in DOMAIN link, RunMatchReconciliation(o, l)
      PROVE  BaseInv'
  <2>1. PICK x : x = [Idle EXCEPT !.pc = "nextLink", !.links = {Snapshot(l)}]
    OBVIOUS
  <2>2. /\ 0 \notin DOMAIN match /\ 0 \notin DOMAIN link /\ lastMatch \in Nat /\ lastLink \in Nat
        /\ link[l] \in LinkRow /\ l \in Nat /\ l <= lastLink
    BY <1>4 DEF BaseInv, TypeOK, MatchRow, RunMatchReconciliation
  <2>3. /\ x.pc = "nextLink" /\ x.l = 0 /\ x.m = 0
        /\ x.links = {Snapshot(l)} /\ Snapshot(l) \in [id : Nat, row : LinkRow]
    BY <2>1, <2>2 DEF Idle, LinkRow, Snapshot
  <2>4. x \in OpState
    BY <2>1, <2>2, <2>3, IdleType DEF OpState, Pc, Idle
  <2>5. RememberedBy(x)
    BY <2>2, <2>3 DEF RememberedBy, RowStage, PairStage, Snapshot
  <2> QED
    BY <1>4, <2>1, <2>4, <2>5, RequestBase DEF RunMatchReconciliation, Request, BaseInv, TypeOK
<1>5. ASSUME NEW l \in DOMAIN link, NEW pair \in ByHand,
             ManualMatch(o, l, pair[1], pair[2])
      PROVE  BaseInv'
  <2>1. PICK x : x = [Idle EXCEPT !.pc = "manual", !.l = l, !.row = link[l],
                        !.pri = pair[1], !.dep = pair[2]]
    OBVIOUS
  <2>2. /\ 0 \notin DOMAIN match /\ 0 \notin DOMAIN link /\ lastMatch \in Nat /\ lastLink \in Nat
        /\ link[l] \in LinkRow /\ l \in Nat /\ l <= lastLink
        /\ pair[1] \in Txn /\ pair[2] \in Txn
    BY <1>5 DEF BaseInv, TypeOK, MatchRow, ManualMatch
  <2>3. /\ x.row = link[l] /\ x.pri = pair[1] /\ x.dep = pair[2]
        /\ x.pc = "manual" /\ x.l = l /\ x.m = 0 /\ x.links = {}
    BY <2>1, <2>2 DEF Idle, LinkRow, Snapshot
  <2>4. x \in OpState
    BY <2>1, <2>2, <2>3, IdleType DEF OpState, Pc, Idle
  <2>5. RememberedBy(x)
    BY <2>2, <2>3 DEF RememberedBy, RowStage, PairStage, Snapshot
  <2> QED
    BY <1>5, <2>1, <2>4, <2>5, RequestBase DEF ManualMatch, Request, BaseInv, TypeOK
<1>6. ASSUME NEW m \in DOMAIN match, RejectMatch(o, m)
      PROVE  BaseInv'
  <2>1. PICK x : x = [Idle EXCEPT !.pc = "clearMatch", !.m = m,
                        !.pri = match[m].pri, !.dep = match[m].dep]
    OBVIOUS
  <2>2. /\ 0 \notin DOMAIN match /\ 0 \notin DOMAIN link /\ lastMatch \in Nat /\ lastLink \in Nat
        /\ match[m].pri \in Txn /\ match[m].dep \in Txn /\ m \in Nat /\ m <= lastMatch
    BY <1>6 DEF BaseInv, TypeOK, MatchRow, RejectMatch
  <2>3. /\ x.pri = match[m].pri /\ x.dep = match[m].dep
        /\ x.pc = "clearMatch" /\ x.l = 0 /\ x.m = m /\ x.links = {}
    BY <2>1, <2>2 DEF Idle, LinkRow, Snapshot
  <2>4. x \in OpState
    BY <2>1, <2>2, <2>3, IdleType DEF OpState, Pc, Idle
  <2>5. RememberedBy(x)
    BY <2>2, <2>3 DEF RememberedBy, RowStage, PairStage, Snapshot
  <2> QED
    BY <1>6, <2>1, <2>4, <2>5, RequestBase DEF RejectMatch, Request, BaseInv, TypeOK
<1> QED
  BY <1>1, <1>2, <1>3, <1>4, <1>5, <1>6 DEF UserRequest

LEMMA PostSyncBase ==
  ASSUME BaseInv, NEW c \in Acct, PostSync(c)
  PROVE  BaseInv'
<1>1. PICK o \in Op : ReconcileForConnection(o, c)
  BY DEF PostSync
<1> DEFINE mine == {k \in DOMAIN link : link[k].enabled
                                        /\ c \in {Conn[link[k].pri], Conn[link[k].dep]}}
<1>2. PICK x : x = [Idle EXCEPT !.pc = "nextLink", !.links = {Snapshot(l) : l \in mine}]
  OBVIOUS
<1>3. /\ 0 \notin DOMAIN match /\ 0 \notin DOMAIN link /\ lastMatch \in Nat /\ lastLink \in Nat
      /\ \A l \in mine : /\ link[l] \in LinkRow /\ l \in Nat /\ l <= lastLink
                         /\ Snapshot(l) \in [id : Nat, row : LinkRow]
  BY DEF BaseInv, TypeOK, Snapshot
<1>4. x.pc = "nextLink" /\ x.l = 0 /\ x.m = 0 /\ x.links = {Snapshot(l) : l \in mine}
  BY <1>2 DEF Idle
<1>5. x \in OpState
  <2>1. {Snapshot(l) : l \in mine} \subseteq [id : Nat, row : LinkRow]
    BY <1>3
  <2> QED
    BY <1>2, <2>1, IdleType DEF OpState, Pc, Idle
<1>6. RememberedBy(x)
  BY <1>3, <1>4 DEF RememberedBy, RowStage, PairStage, Snapshot
<1> QED
  BY <1>1, <1>2, <1>5, <1>6, RequestBase DEF ReconcileForConnection, BaseInv, TypeOK

\* The operation o moves to x, which is true of the rows as they were.
LEMMA StepTo ==
  ASSUME BaseInv, LinksKept, MatchesKept, RestTyped,
         NEW o \in Op, NEW x \in OpState, RememberedBy(x), op' = [op EXCEPT ![o] = x]
  PROVE  BaseInv'
BY MovedTo, MemoryKept, KeptStep

LEMMA IdleRemembers == ASSUME BaseInv PROVE RememberedBy(Idle)
BY IdleType DEF RememberedBy, RowStage, PairStage, BaseInv, TypeOK

LEMMA ReturnBase ==
  ASSUME BaseInv, LinksKept, MatchesKept, RestTyped, NEW o \in Op, Return(o)
  PROVE  BaseInv'
<1>1. PICK x \in OpState : x = Idle
  BY IdleType
<1> QED
  BY <1>1, IdleRemembers, StepTo DEF Return

\* On to the next statement about the same link, or the same pair.
LEMMA GotoBase ==
  ASSUME BaseInv, LinksKept, MatchesKept, RestTyped, NEW o \in Op, NEW p \in Pc, Goto(o, p),
         \/ /\ op[o].pc \in RowStage /\ p \in RowStage \ {"insertLink"}
            /\ p \in PairStage => op[o].pc \in PairStage
         \/ op[o].pc = "clearMatch" /\ p = "dropMatch"
  PROVE  BaseInv'
<1>1. op[o] \in OpState /\ RememberedBy(op[o])
  BY DEF BaseInv, TypeOK, Remembered
<1>2. PICK x : x = [op[o] EXCEPT !.pc = p]
  OBVIOUS
<1>3. /\ x \in OpState /\ x.pc = p /\ x.l = op[o].l /\ x.m = op[o].m /\ x.row = op[o].row
      /\ x.pri = op[o].pri /\ x.dep = op[o].dep /\ x.links = op[o].links
  BY <1>1, <1>2 DEF OpState
<1>4. RememberedBy(x)
  BY <1>1, <1>3 DEF RememberedBy, RowStage, PairStage
<1>5. op' = [op EXCEPT ![o] = x]
  BY <1>2 DEF Goto, BaseInv, TypeOK
<1> QED
  BY <1>3, <1>4, <1>5, StepTo

LEMMA RowDoneBase ==
  ASSUME BaseInv, LinksKept, MatchesKept, RestTyped, NEW o \in Op, op[o].pc \in RowStage,
         RowDone(o) \/ \E d \in Txn : SkipRow(o, d)
  PROVE  BaseInv'
<1>1. op[o] \in OpState /\ op[o].m \notin DOMAIN match
  BY DEF BaseInv, TypeOK, Remembered, RememberedBy, RowStage
<1>2. PICK y : /\ y \in OpState /\ y.l = op[o].l /\ y.m = op[o].m /\ y.row = op[o].row
               /\ y.links = op[o].links
               /\ op' = [op EXCEPT ![o] = NextOf(y)]
  <2>1. CASE RowDone(o)
    <3>1. PICK y : y = [op[o] EXCEPT !.pri = NoTxn, !.dep = NoTxn]
      OBVIOUS
    <3>2. y \in OpState /\ y.l = op[o].l /\ y.m = op[o].m /\ y.row = op[o].row
          /\ y.links = op[o].links
      BY <1>1, <3>1 DEF OpState
    <3> QED
      BY <2>1, <3>1, <3>2 DEF RowDone
  <2>2. ASSUME NEW d \in Txn, SkipRow(o, d)
        PROVE  \E y : /\ y \in OpState /\ y.l = op[o].l /\ y.m = op[o].m
                      /\ y.row = op[o].row /\ y.links = op[o].links
                      /\ op' = [op EXCEPT ![o] = NextOf(y)]
    <3>1. PICK y : y = [op[o] EXCEPT !.rows = op[o].rows \ {d}]
      OBVIOUS
    <3>2. y \in OpState /\ y.l = op[o].l /\ y.m = op[o].m /\ y.row = op[o].row
          /\ y.links = op[o].links
      BY <1>1, <3>1 DEF OpState
    <3>3. op' = [op EXCEPT ![o] = NextOf(y)]
      BY <2>2, <3>1 DEF SkipRow
    <3> QED
      BY <3>2, <3>3
  <2> QED
    BY <2>1, <2>2
<1>3. PICK x : Moved(o, x) /\ RememberedBy(x)
  BY <1>1, <1>2, RowDoneShape
<1>4. x \in OpState
  BY <1>3 DEF Moved
<1> QED
  BY <1>3, <1>4, MemoryKept, KeptStep

LEMMA LinkStepBase ==
  ASSUME BaseInv, NEW o \in Op,
         \/ InsertLink(o) \/ UpdateLinkRow(o) \/ Mark(o) \/ StillLinked(o) \/ Unmark(o)
         \/ ClearAttributionOfLink(o) \/ DropLink(o)
  PROVE  BaseInv'
<1> USE AccountLinksAssumption
<1>0. /\ op[o] \in OpState /\ RememberedBy(op[o])
      /\ op[o].pc \in RowStage => op[o].row \in LinkRow
      /\ op[o].pc = "insertLink" => op[o].row.pri # op[o].row.dep
  BY DEF BaseInv, TypeOK, Remembered, RememberedBy
<1>1. ASSUME InsertLink(o) PROVE BaseInv'
  <2>1. RestTyped
    BY <1>1 DEF InsertLink, RestTyped, BaseInv, TypeOK
  <2>2. CASE Return(o) /\ UNCHANGED <<link, lastLink>>
    <3>1. LinksKept /\ MatchesKept
      BY <1>1, <2>2, Unchanged DEF InsertLink
    <3> QED
      BY <2>1, <2>2, <3>1, ReturnBase
  <2>3. CASE /\ lastLink' = lastLink + 1
             /\ link' = With(link, lastLink + 1, op[o].row)
             /\ op' = [op EXCEPT ![o].l = lastLink + 1, ![o].pc = "mark"]
    <3>1. /\ DOMAIN link' = DOMAIN link \cup {lastLink + 1} /\ lastLink \in Nat
          /\ link'[lastLink + 1] = op[o].row
          /\ \A l \in DOMAIN link : l # lastLink + 1 /\ link'[l] = link[l]
      BY <2>3 DEF With, BaseInv, TypeOK
    <3>2. LinksKept
      BY <1>0, <1>1, <2>3, <3>1 DEF LinksKept, BaseInv, TypeOK, InsertLink, RowStage
    <3>3. MatchesKept
      BY <1>1, <3>1, Unchanged DEF InsertLink
    <3>4. PICK x : x = [op[o] EXCEPT !.l = lastLink + 1, !.pc = "mark"]
      OBVIOUS
    <3>a. lastLink + 1 \in Nat
      BY <3>1
    <3>5. /\ x \in OpState /\ x.pc = "mark" /\ x.l = lastLink + 1 /\ x.m = op[o].m
          /\ x.row = op[o].row /\ x.links = op[o].links
      BY <1>0, <3>a, <3>4 DEF OpState, Pc
    <3>6. op' = [op EXCEPT ![o] = x]
      BY <2>3, <3>4 DEF BaseInv, TypeOK
    <3>7. RememberedBy(x)'
      <4>1. op[o].pc = "insertLink" /\ lastMatch' = lastMatch /\ match' = match
        BY <1>1 DEF InsertLink
      <4>2. \A s \in op[o].links : s.id \in Nat
        BY <1>0 DEF OpState
      <4>3. \A s \in x.links :
              /\ s.id <= lastLink'
              /\ s.id \in DOMAIN link' =>
                   s.row.pri = link'[s.id].pri /\ s.row.dep = link'[s.id].dep
        BY <1>0, <2>3, <3>1, <3>5, <4>2 DEF RememberedBy
      <4>4. op[o].m = 0 /\ op[o].m <= lastMatch /\ op[o].m \notin DOMAIN match
        BY <1>0, <4>1 DEF RememberedBy, BaseInv, TypeOK
      <4>5. x.l <= lastLink' /\ x.m <= lastMatch'
        BY <2>3, <3>1, <3>5, <4>1, <4>4
      <4>6. x.pc \in RowStage /\ x.pc \notin PairStage /\ x.row \in LinkRow
        BY <1>0, <3>5, <4>1 DEF RowStage, PairStage
      <4>7. x.row.pri = link'[x.l].pri /\ x.row.dep = link'[x.l].dep
        BY <3>1, <3>5
      <4> QED
        BY <3>5, <4>1, <4>3, <4>4, <4>5, <4>6, <4>7 DEF RememberedBy
    <3>8. Moved(o, x)
      BY <3>5, <3>6, MovedTo
    <3> QED
      BY <2>1, <3>2, <3>3, <3>7, <3>8, KeptStep
  <2> QED
    BY <1>1, <2>2, <2>3 DEF InsertLink
<1>2. ASSUME UpdateLinkRow(o) PROVE BaseInv'
  <2>1. RestTyped
    BY <1>2 DEF UpdateLinkRow, RestTyped, BaseInv, TypeOK
  <2>2. LinksKept /\ DOMAIN link' = DOMAIN link
    BY <1>0, <1>2 DEF UpdateLinkRow, LinksKept, BaseInv, TypeOK, RememberedBy, RowStage
  <2>3. MatchesKept
    BY <1>2, <2>2, Unchanged DEF UpdateLinkRow
  <2>4. Return(o) \/ Goto(o, "others") \/ Goto(o, "mark")
    BY <1>2 DEF UpdateLinkRow
  <2>5. op[o].pc = "update"
    BY <1>2 DEF UpdateLinkRow
  <2> QED
    BY <2>1, <2>2, <2>3, <2>4, <2>5, ReturnBase, GotoBase DEF Pc, RowStage, PairStage
<1>3. ASSUME Mark(o) \/ Unmark(o) PROVE BaseInv'
  <2>1. RestTyped
    BY <1>3 DEF Mark, Unmark, RestTyped, BaseInv, TypeOK
  <2>2. LinksKept /\ MatchesKept /\ Return(o)
    BY <1>3, Unchanged DEF Mark, Unmark
  <2> QED
    BY <2>1, <2>2, ReturnBase
<1>4. ASSUME StillLinked(o) PROVE BaseInv'
  <2>1. RestTyped
    BY <1>4 DEF StillLinked, RestTyped, BaseInv, TypeOK, dbVars
  <2>2. LinksKept /\ MatchesKept /\ op[o].pc = "others"
    BY <1>4, Unchanged DEF StillLinked, dbVars
  <2>3. Return(o) \/ Goto(o, "unmark")
    BY <1>4 DEF StillLinked
  <2> QED
    BY <2>1, <2>2, <2>3, ReturnBase, GotoBase DEF Pc, RowStage, PairStage
<1>5. ASSUME ClearAttributionOfLink(o) PROVE BaseInv'
  <2>1. RestTyped
    BY <1>5 DEF ClearAttributionOfLink, RestTyped, BaseInv, TypeOK
  <2>2. LinksKept /\ MatchesKept /\ op[o].pc = "clearLink" /\ Goto(o, "dropLink")
    BY <1>5, Unchanged DEF ClearAttributionOfLink
  <2> QED
    BY <2>1, <2>2, GotoBase DEF Pc, RowStage, PairStage
<1>6. ASSUME DropLink(o) PROVE BaseInv'
  <2>1. RestTyped
    BY <1>6 DEF DropLink, RestTyped, BaseInv, TypeOK
  <2>2. /\ DOMAIN link' = DOMAIN link \ {op[o].l}
        /\ \A l \in DOMAIN link' : link'[l] = link[l]
    BY <1>6 DEF DropLink, Without
  <2>3. /\ DOMAIN match' = DOMAIN match \ MatchesOf(op[o].l)
        /\ \A m \in DOMAIN match' : match'[m] = match[m]
    BY <1>6 DEF DropLink, Without
  <2>a. lastLink' = lastLink /\ lastMatch' = lastMatch
    BY <1>6 DEF DropLink
  <2>b. /\ lastLink \in Nat /\ DOMAIN link \subseteq 1 .. lastLink
        /\ \A l \in DOMAIN link : link[l] \in LinkRow
        /\ lastMatch \in Nat /\ DOMAIN match \subseteq 1 .. lastMatch
        /\ \A m \in DOMAIN match : match[m] \in MatchRow /\ match[m].link \in DOMAIN link
    BY DEF BaseInv, TypeOK
  <2>4. LinksKept
    BY <2>2, <2>a, <2>b DEF LinksKept
  <2>5. MatchesKept
    <3>1. \A m \in DOMAIN match' : m \in DOMAIN match /\ match[m].link \in DOMAIN link'
      BY <2>2, <2>3, <2>b DEF MatchesOf
    <3> QED
      BY <2>3, <2>a, <2>b, <3>1 DEF MatchesKept
  <2>6. op[o].pc = "dropLink" /\ Goto(o, "others")
    BY <1>6 DEF DropLink
  <2> QED
    BY <2>1, <2>4, <2>5, <2>6, GotoBase DEF Pc, RowStage, PairStage
<1> QED
  BY <1>1, <1>2, <1>3, <1>4, <1>5, <1>6

\* A new match has an id of its own and two transactions nobody had.
LEMMA CreateKept ==
  ASSUME BaseInv, NEW l, NEW p \in Txn, NEW d \in Txn, NEW sure \in BOOLEAN,
         Insertable(l, p, d), CreateTransactionMatch(l, p, d, sure), UNCHANGED link
  PROVE  MatchesKept
<1> DEFINE new == lastMatch + 1
<1>1. /\ lastMatch' = new /\ lastMatch \in Nat /\ new \in Nat
      /\ DOMAIN match \subseteq 1 .. lastMatch /\ new \notin DOMAIN match
      /\ \A m \in DOMAIN match : match[m] \in MatchRow /\ match[m].link \in DOMAIN link
  BY DEF CreateTransactionMatch, BaseInv, TypeOK
<1>2. /\ DOMAIN match' = DOMAIN match \cup {new}
      /\ match'[new] = [link |-> l, pri |-> p, dep |-> d, sure |-> sure]
      /\ \A m \in DOMAIN match : match'[m] = match[m]
  BY <1>1 DEF CreateTransactionMatch, With
<1>3. /\ l \in DOMAIN link /\ l \in Nat
      /\ \A m \in DOMAIN match : match[m].pri # p /\ match[m].dep # d
  BY DEF Insertable, MatchedAsPri, MatchedAsDep, BaseInv, TypeOK
<1>4. match'[new] \in MatchRow /\ match'[new].link = l
      /\ match'[new].pri = p /\ match'[new].dep = d
  BY <1>2, <1>3 DEF MatchRow
<1> HIDE DEF new
<1>5. lastMatch < new
  BY DEF new, BaseInv, TypeOK
<1>6. DOMAIN match' \subseteq 1 .. lastMatch'
  BY <1>1, <1>2, <1>5
<1>7. \A m \in DOMAIN match :
        /\ match'[m] \in MatchRow /\ match'[m].link \in DOMAIN link'
        /\ match'[m].pri = match[m].pri /\ match'[m].dep = match[m].dep
        /\ match'[m].link = match[m].link
  BY <1>1, <1>2
<1>8. \A k \in DOMAIN match' \ {new} :
        match'[k].pri # match'[new].pri /\ match'[k].dep # match'[new].dep
  BY <1>2, <1>3, <1>4
<1> QED
  BY <1>1, <1>2, <1>3, <1>4, <1>5, <1>6, <1>7, <1>8 DEF MatchesKept

LEMMA MatchStepBase ==
  ASSUME BaseInv, NEW o \in Op,
         \/ ClearAttributionOfMatch(o) \/ DropMatch(o) \/ InsertManualMatch(o)
         \/ InsertMatch(o) \/ Attribute(o)
  PROVE  BaseInv'
<1> USE AccountLinksAssumption
<1>0. /\ op[o] \in OpState
      /\ op[o].pc \in PairStage => op[o].pri \in Txn /\ op[o].dep \in Txn
      /\ op[o].pc \in RowStage => op[o].row \in LinkRow
  BY DEF BaseInv, TypeOK, Remembered, RememberedBy
<1>1. ASSUME ClearAttributionOfMatch(o) PROVE BaseInv'
  <2>1. RestTyped
    BY <1>1 DEF ClearAttributionOfMatch, RestTyped, BaseInv, TypeOK
  <2>2. LinksKept /\ MatchesKept /\ op[o].pc = "clearMatch" /\ Goto(o, "dropMatch")
    BY <1>1, Unchanged DEF ClearAttributionOfMatch
  <2> QED
    BY <2>1, <2>2, GotoBase DEF Pc
<1>2. ASSUME DropMatch(o) PROVE BaseInv'
  <2>1. RestTyped
    BY <1>0, <1>2 DEF DropMatch, RestTyped, BaseInv, TypeOK, PairStage
  <2>2. /\ DOMAIN match' = DOMAIN match \ {op[o].m}
        /\ \A m \in DOMAIN match' : match'[m] = match[m]
        /\ lastMatch' = lastMatch /\ link' = link
    BY <1>2 DEF DropMatch, Without
  <2>3. MatchesKept
    BY <2>2 DEF MatchesKept, BaseInv, TypeOK
  <2>4. LinksKept /\ Return(o)
    BY <1>2, Unchanged DEF DropMatch
  <2> QED
    BY <2>1, <2>3, <2>4, ReturnBase
<1>3. ASSUME InsertManualMatch(o) PROVE BaseInv'
  <2>1. RestTyped
    BY <1>3 DEF InsertManualMatch, RestTyped, BaseInv, TypeOK
  <2>2. LinksKept
    BY <1>3, Unchanged DEF InsertManualMatch
  <2>3. op[o].pc = "manual" /\ op[o].pri \in Txn /\ op[o].dep \in Txn /\ link' = link
    BY <1>0, <1>3 DEF InsertManualMatch, PairStage
  <2>4. CASE Insertable(op[o].l, op[o].pri, op[o].dep)
    <3>1. CreateTransactionMatch(op[o].l, op[o].pri, op[o].dep, TRUE) /\ Goto(o, "attribute")
      BY <1>3, <2>4 DEF InsertManualMatch
    <3>2. MatchesKept
      BY <2>3, <2>4, <3>1, CreateKept
    <3> QED
      BY <2>1, <2>2, <2>3, <3>1, <3>2, GotoBase DEF Pc, RowStage, PairStage
  <2>5. CASE ~Insertable(op[o].l, op[o].pri, op[o].dep)
    <3>1. MatchesKept /\ Return(o)
      BY <1>3, <2>3, <2>5, Unchanged DEF InsertManualMatch
    <3> QED
      BY <2>1, <2>2, <3>1, ReturnBase
  <2> QED
    BY <2>4, <2>5
<1>4. ASSUME InsertMatch(o) PROVE BaseInv'
  <2>1. RestTyped
    BY <1>4 DEF InsertMatch, RestTyped, BaseInv, TypeOK
  <2>2. LinksKept
    BY <1>4, Unchanged DEF InsertMatch
  <2>3. /\ op[o].pc = "insertMatch" /\ op[o].pri \in Txn /\ op[o].dep \in Txn
        /\ link' = link /\ op[o].pc \in RowStage
    BY <1>0, <1>4 DEF InsertMatch, PairStage, RowStage
  <2>4. CASE Insertable(op[o].l, op[o].pri, op[o].dep)
    <3>1. CreateTransactionMatch(op[o].l, op[o].pri, op[o].dep, FALSE) /\ Goto(o, "attribute")
      BY <1>4, <2>4 DEF InsertMatch
    <3>2. MatchesKept
      BY <2>3, <2>4, <3>1, CreateKept
    <3> QED
      BY <2>1, <2>2, <2>3, <3>1, <3>2, GotoBase DEF Pc, RowStage, PairStage
  <2>5. CASE ~Insertable(op[o].l, op[o].pri, op[o].dep)
    <3>1. MatchesKept /\ RowDone(o)
      BY <1>4, <2>3, <2>5, Unchanged DEF InsertMatch
    <3> QED
      BY <2>1, <2>2, <2>3, <3>1, RowDoneBase
  <2> QED
    BY <2>4, <2>5
<1>5. ASSUME Attribute(o) PROVE BaseInv'
  <2>1. op[o].row.dep \in Acct /\ op[o].pc \in RowStage
    BY <1>0, <1>5 DEF Attribute, RowStage, LinkRow
  <2>2. RestTyped
    BY <1>5, <2>1 DEF Attribute, RestTyped, BaseInv, TypeOK
  <2>3. LinksKept /\ MatchesKept /\ RowDone(o)
    BY <1>5, Unchanged DEF Attribute
  <2> QED
    BY <2>1, <2>2, <2>3, RowDoneBase
<1> QED
  BY <1>1, <1>2, <1>3, <1>4, <1>5

LEMMA ReconcileStepBase ==
  ASSUME BaseInv, NEW o \in Op, ReconcileLink(o) \/ NextRow(o)
  PROVE  BaseInv'
<1> USE AccountLinksAssumption
<1>0. op[o] \in OpState /\ RememberedBy(op[o])
  BY DEF BaseInv, TypeOK, Remembered
<1>1. UNCHANGED <<link, match, flag, attributed, live, lastLink, lastMatch, events, torn, rejected>>
  BY DEF ReconcileLink, NextRow, dbVars
<1>2. RestTyped
  BY <1>1 DEF RestTyped, BaseInv, TypeOK
<1>3. LinksKept /\ MatchesKept
  BY <1>1, Unchanged
<1>4. ASSUME ReconcileLink(o) PROVE BaseInv'
  <2>1. PICK s \in op[o].links :
          op' = [op EXCEPT ![o] =
                   NextOf([op[o] EXCEPT !.links = @ \ {s}, !.l = s.id, !.row = s.row,
                             !.rows = IF Owner[s.row.dep] = NoUser THEN {}
                                      ELSE Unmatched(s.row.dep)])]
    BY <1>4 DEF ReconcileLink
  <2>2. PICK y : y = [op[o] EXCEPT !.links = @ \ {s}, !.l = s.id, !.row = s.row,
                        !.rows = IF Owner[s.row.dep] = NoUser THEN {}
                                 ELSE Unmatched(s.row.dep)]
    OBVIOUS
  <2>3. /\ s.id \in Nat /\ s.row \in LinkRow /\ s.id <= lastLink
        /\ s.id \in DOMAIN link =>
             s.row.pri = link[s.id].pri /\ s.row.dep = link[s.id].dep
        /\ op[o].m = 0
    BY <1>0, <1>4 DEF OpState, RememberedBy, ReconcileLink
  <2>4. Unmatched(s.row.dep) \in SUBSET Txn
    BY DEF Unmatched, BaseInv, TypeOK
  <2>5. y \in OpState /\ y.l = s.id /\ y.row = s.row /\ y.m = 0 /\ y.links \subseteq op[o].links
    BY <1>0, <2>2, <2>3, <2>4 DEF OpState
  <2>6. PICK x \in OpState : x = NextOf(y)
    BY <2>5, NextOfShape
  <2>7. 0 \notin DOMAIN link /\ 0 \notin DOMAIN match /\ lastLink \in Nat /\ lastMatch \in Nat
    BY DEF BaseInv, TypeOK
  <2>8. RememberedBy(x)
    BY <1>0, <2>3, <2>5, <2>6, <2>7, NextOfShape DEF RememberedBy, RowStage, PairStage
  <2>9. op' = [op EXCEPT ![o] = x]
    BY <2>1, <2>2, <2>6
  <2> QED
    BY <1>2, <1>3, <2>6, <2>8, <2>9, StepTo
<1>5. ASSUME NextRow(o) PROVE BaseInv'
  <2>1. op[o].pc = "nextRow" /\ op[o].pc \in RowStage
    BY <1>5 DEF NextRow, RowStage
  <2>2. PICK d \in op[o].rows :
          LET best == Best(Candidates(op[o].row, d), d)
          IN  IF best = {} THEN SkipRow(o, d)
              ELSE \E p \in best :
                     op' = [op EXCEPT ![o].rows = @ \ {d}, ![o].dep = d, ![o].pri = p,
                              ![o].pc = "insertMatch"]
    BY <1>5 DEF NextRow
  <2>3. d \in Txn
    BY <1>0 DEF OpState
  <2>4. CASE SkipRow(o, d)
    BY <1>2, <1>3, <2>1, <2>3, <2>4, RowDoneBase
  <2>5. ASSUME NEW p \in Best(Candidates(op[o].row, d), d),
               op' = [op EXCEPT ![o].rows = @ \ {d}, ![o].dep = d, ![o].pri = p,
                        ![o].pc = "insertMatch"]
        PROVE  BaseInv'
    <3>1. p \in Txn
      BY DEF Best, Candidates, BaseInv, TypeOK
    <3>2. PICK x : x = [op[o] EXCEPT !.rows = @ \ {d}, !.dep = d, !.pri = p,
                          !.pc = "insertMatch"]
      OBVIOUS
    <3>3. /\ x \in OpState /\ x.pc = "insertMatch" /\ x.l = op[o].l /\ x.m = op[o].m
          /\ x.row = op[o].row /\ x.links = op[o].links /\ x.pri = p /\ x.dep = d
      BY <1>0, <2>3, <3>1, <3>2 DEF OpState, Pc
    <3>4. op' = [op EXCEPT ![o] = x]
      BY <2>5, <3>2 DEF BaseInv, TypeOK
    <3>5. op[o].m = 0 /\ op[o].m \notin DOMAIN match /\ op[o].row \in LinkRow
      BY <1>0, <2>1 DEF RememberedBy, BaseInv, TypeOK
    <3>6. RememberedBy(x)
      BY <1>0, <2>1, <2>3, <3>1, <3>3, <3>5 DEF RememberedBy, RowStage, PairStage
    <3> QED
      BY <1>2, <1>3, <3>3, <3>4, <3>6, StepTo
  <2> QED
    BY <2>2, <2>4, <2>5
<1> QED
  BY <1>4, <1>5

LEMMA FaultBase ==
  ASSUME BaseInv, NEW o \in Op, Abort(o) \/ CarryOn(o)
  PROVE  BaseInv'
<1>1. /\ UNCHANGED <<link, match, flag, attributed, live, lastLink, lastMatch, rejected>>
      /\ torn' = torn \cup TornAt(op[o].pc) /\ events' = events + 1
  BY DEF Abort, CarryOn, Fault, dbVars
<1>2. RestTyped
  BY <1>1 DEF RestTyped, BaseInv, TypeOK, TornAt
<1>3. LinksKept /\ MatchesKept
  BY <1>1, Unchanged
<1>4. CASE Abort(o)
  BY <1>2, <1>3, <1>4, ReturnBase DEF Abort
<1>5. CASE CarryOn(o)
  <2>1. op[o] \in OpState
    BY DEF BaseInv, TypeOK
  <2>2. \/ op[o].pc \in RowStage /\ (RowDone(o) \/ \E d \in Txn : SkipRow(o, d))
        \/ op[o].pc = "others" /\ Goto(o, "unmark")
    BY <1>5, <2>1 DEF CarryOn, RowStage, OpState
  <2> QED
    BY <1>2, <1>3, <2>2, RowDoneBase, GotoBase DEF Pc, RowStage, PairStage
<1> QED
  BY <1>4, <1>5

\* What happens beside the operations.
LEMMA BesideBase ==
  ASSUME BaseInv,
         \/ \E m \in DOMAIN match : ConfirmMatch(m)
         \/ \E t \in Txn : SoftDelete(t) \/ Restore(t)
         \/ UNCHANGED vars
  PROVE  BaseInv'
<1>1. UNCHANGED <<link, flag, attributed, lastLink, lastMatch, op, torn, rejected>>
  BY DEF ConfirmMatch, SoftDelete, Restore, vars, dbVars
<1>2. events' \in Nat /\ live' \subseteq Txn
  BY DEF ConfirmMatch, SoftDelete, Restore, vars, dbVars, BaseInv, TypeOK
<1>3. /\ DOMAIN match' = DOMAIN match
      /\ \A m \in DOMAIN match :
           /\ match'[m] \in MatchRow /\ match'[m].pri = match[m].pri
           /\ match'[m].dep = match[m].dep /\ match'[m].link = match[m].link
  <2>1. \A m \in DOMAIN match : match[m] \in MatchRow
    BY DEF BaseInv, TypeOK
  <2>2. ASSUME NEW k \in DOMAIN match, match' = [match EXCEPT ![k].sure = TRUE],
               NEW m \in DOMAIN match
        PROVE  /\ match'[m] \in MatchRow /\ match'[m].pri = match[m].pri
               /\ match'[m].dep = match[m].dep /\ match'[m].link = match[m].link
    <3>1. match'[m] = IF m = k THEN [match[m] EXCEPT !.sure = TRUE] ELSE match[m]
      BY <2>2
    <3>2. CASE m = k
      BY <2>1, <3>1, <3>2 DEF MatchRow
    <3> QED
      BY <2>1, <3>1, <3>2
  <2>3. match' = match \/ \E k \in DOMAIN match : match' = [match EXCEPT ![k].sure = TRUE]
    BY DEF ConfirmMatch, SoftDelete, Restore, vars, dbVars
  <2>4. DOMAIN match' = DOMAIN match
    BY <2>3
  <2> QED
    BY <2>1, <2>2, <2>3, <2>4
<1>4. TypeOK'
  BY <1>1, <1>2, <1>3 DEF BaseInv, TypeOK
<1>5. ASSUME NEW o \in Op PROVE RememberedBy(op[o])'
  <2>1. RememberedBy(op[o])
    BY DEF BaseInv, Remembered
  <2> QED
    BY <1>1, <1>3, <2>1 DEF RememberedBy
<1> QED
  BY <1>1, <1>4, <1>5 DEF BaseInv, Remembered

LEMMA BaseStep == BaseInv /\ [Next]_vars => BaseInv'
<1> SUFFICES ASSUME BaseInv, [Next]_vars PROVE BaseInv'
  OBVIOUS
<1> QED
  BY UserRequestBase, LinkStepBase, MatchStepBase, ReconcileStepBase, FaultBase,
     BesideBase, PostSyncBase
  DEF Next, Step

\* Types hold, no id is reused, a match belongs to a link that exists, and no
\* transaction is in two matches on the same side, whatever operations overlap
\* or are cut off: Insertable is one statement, so the race of two
\* reconciliations for one row is settled by the unique constraints.
THEOREM LinksTypeCorrect == Spec => []TypeOK
<1>1. BaseInv => TypeOK
  BY DEF BaseInv
<1> QED
  BY <1>1, BaseInit, BaseStep, PTL DEF Spec

-----------------------------------------------------------------------------
(* Who overlaps whom                                                       *)

\* Until torn says so, an operation that clears attributions is alone with them,
\* and one that decides about links and flags is alone with those.
Alone ==
  /\ "attribution" \notin torn =>
       \A o \in Op : \A q \in Op \ {o} :
         op[o].pc \in Clearing => op[q].pc \notin Clearing \cup Setting
  /\ "flag" \notin torn =>
       \A o \in Op : \A q \in Op \ {o} : op[o].pc \in Flagging => op[q].pc \notin Flagging

LEMMA NextRowPc ==
  ASSUME BaseInv, NEW o \in Op, RowDone(o) \/ \E d \in Txn : SkipRow(o, d)
  PROVE  /\ \A q \in Op \ {o} : op'[q] = op[q]
         /\ op'[o].pc \in {"idle", "nextLink", "nextRow"}
<1>1. op[o] \in OpState /\ op \in [Op -> OpState]
  BY DEF BaseInv, TypeOK
<1>2. CASE RowDone(o)
  <2>1. PICK y : y = [op[o] EXCEPT !.pri = NoTxn, !.dep = NoTxn]
    OBVIOUS
  <2>2. y \in OpState
    BY <1>1, <2>1 DEF OpState
  <2>3. op' = [op EXCEPT ![o] = NextOf(y)]
    BY <1>2, <2>1 DEF RowDone
  <2> QED
    BY <1>1, <2>2, <2>3, NextOfShape
<1>3. ASSUME NEW d \in Txn, SkipRow(o, d)
      PROVE  /\ \A q \in Op \ {o} : op'[q] = op[q]
             /\ op'[o].pc \in {"idle", "nextLink", "nextRow"}
  <2>1. PICK y : y = [op[o] EXCEPT !.rows = @ \ {d}]
    OBVIOUS
  <2>2. y \in OpState
    BY <1>1, <2>1 DEF OpState
  <2>3. op' = [op EXCEPT ![o] = NextOf(y)]
    BY <1>3, <2>1 DEF SkipRow
  <2> QED
    BY <1>1, <2>2, <2>3, NextOfShape
<1> QED
  BY <1>2, <1>3

LEMMA ReconcilePc ==
  ASSUME BaseInv, NEW o \in Op, ReconcileLink(o) \/ NextRow(o)
  PROVE  /\ \A q \in Op \ {o} : op'[q] = op[q]
         /\ op[o].pc \in {"nextLink", "nextRow"}
         /\ op'[o].pc \in {"idle", "nextLink", "nextRow", "insertMatch"}
<1>1. op[o] \in OpState /\ op \in [Op -> OpState]
  BY DEF BaseInv, TypeOK
<1>2. CASE ReconcileLink(o)
  <2>1. PICK s \in op[o].links :
          op' = [op EXCEPT ![o] =
                   NextOf([op[o] EXCEPT !.links = @ \ {s}, !.l = s.id, !.row = s.row,
                             !.rows = IF Owner[s.row.dep] = NoUser THEN {}
                                      ELSE Unmatched(s.row.dep)])]
    BY <1>2 DEF ReconcileLink
  <2>2. PICK y : y = [op[o] EXCEPT !.links = @ \ {s}, !.l = s.id, !.row = s.row,
                        !.rows = IF Owner[s.row.dep] = NoUser THEN {}
                                 ELSE Unmatched(s.row.dep)]
    OBVIOUS
  <2>3. Unmatched(s.row.dep) \in SUBSET Txn
    BY DEF Unmatched, BaseInv, TypeOK
  <2>4. y \in OpState
    BY <1>1, <2>2, <2>3 DEF OpState
  <2>5. op' = [op EXCEPT ![o] = NextOf(y)]
    BY <2>1, <2>2
  <2> QED
    BY <1>1, <1>2, <2>4, <2>5, NextOfShape DEF ReconcileLink
<1>3. CASE NextRow(o)
  <2>1. PICK d \in op[o].rows :
          LET best == Best(Candidates(op[o].row, d), d)
          IN  IF best = {} THEN SkipRow(o, d)
              ELSE \E p \in best :
                     op' = [op EXCEPT ![o].rows = @ \ {d}, ![o].dep = d, ![o].pri = p,
                              ![o].pc = "insertMatch"]
    BY <1>3 DEF NextRow
  <2>2. d \in Txn
    BY <1>1 DEF OpState
  <2>3. CASE SkipRow(o, d)
    BY <1>3, <2>2, <2>3, NextRowPc DEF NextRow
  <2>4. ASSUME NEW p, op' = [op EXCEPT ![o].rows = @ \ {d}, ![o].dep = d, ![o].pri = p,
                               ![o].pc = "insertMatch"]
        PROVE  (\A q \in Op \ {o} : op'[q] = op[q]) /\ op'[o].pc = "insertMatch"
    BY <1>1, <2>4 DEF OpState
  <2> QED
    BY <1>3, <2>1, <2>3, <2>4 DEF NextRow
<1> QED
  BY <1>2, <1>3

\* An operation that goes on, or fails, enters no kind of stage it was not in.
LEMMA OwnMove ==
  ASSUME BaseInv, NEW o \in Op, Step(o) \/ Abort(o) \/ CarryOn(o)
  PROVE  /\ \A q \in Op \ {o} : op'[q] = op[q]
         /\ op'[o].pc \in Clearing => op[o].pc \in Clearing
         /\ op'[o].pc \in Setting => op[o].pc \in Setting
         /\ op'[o].pc \in Flagging => op[o].pc \in Flagging
         /\ torn \subseteq torn'
<1>1. op[o] \in OpState /\ op \in [Op -> OpState]
  BY DEF BaseInv, TypeOK
<1>2. torn \subseteq torn'
  BY DEF Step, Abort, CarryOn, Fault, InsertLink, UpdateLinkRow, Mark, StillLinked, Unmark,
         ClearAttributionOfLink, DropLink, ClearAttributionOfMatch, DropMatch,
         InsertManualMatch, ReconcileLink, NextRow, InsertMatch, Attribute
<1>3. ASSUME Return(o)
      PROVE  (\A q \in Op \ {o} : op'[q] = op[q]) /\ op'[o].pc = "idle"
  BY <1>1, <1>3, IdleType DEF Return
<1>4. ASSUME NEW p, Goto(o, p)
      PROVE  (\A q \in Op \ {o} : op'[q] = op[q]) /\ op'[o].pc = p
  BY <1>1, <1>4 DEF Goto, OpState
<1>5. CASE \/ Mark(o) \/ StillLinked(o) \/ Unmark(o) \/ UpdateLinkRow(o)
           \/ ClearAttributionOfLink(o) \/ DropLink(o)
           \/ ClearAttributionOfMatch(o) \/ DropMatch(o) \/ InsertManualMatch(o)
  <2>1. \/ Return(o)
        \/ op[o].pc = "others" /\ Goto(o, "unmark")
        \/ op[o].pc = "update" /\ (Goto(o, "others") \/ Goto(o, "mark"))
        \/ op[o].pc = "clearLink" /\ Goto(o, "dropLink")
        \/ op[o].pc = "dropLink" /\ Goto(o, "others")
        \/ op[o].pc = "clearMatch" /\ Goto(o, "dropMatch")
        \/ op[o].pc = "manual" /\ Goto(o, "attribute")
    BY <1>5 DEF Mark, StillLinked, Unmark, UpdateLinkRow, ClearAttributionOfLink, DropLink,
                ClearAttributionOfMatch, DropMatch, InsertManualMatch
  <2> QED
    BY <1>2, <1>3, <1>4, <2>1 DEF Clearing, Setting, Flagging
<1>6. CASE InsertLink(o)
  <2>1. \/ Return(o)
        \/ op' = [op EXCEPT ![o].l = lastLink + 1, ![o].pc = "mark"] /\ op[o].pc = "insertLink"
    BY <1>6 DEF InsertLink
  <2>2. ASSUME op' = [op EXCEPT ![o].l = lastLink + 1, ![o].pc = "mark"]
        PROVE  (\A q \in Op \ {o} : op'[q] = op[q]) /\ op'[o].pc = "mark"
    BY <1>1, <2>2 DEF OpState
  <2> QED
    BY <1>2, <1>3, <2>1, <2>2 DEF Clearing, Setting, Flagging
<1>7. CASE ReconcileLink(o) \/ NextRow(o)
  BY <1>2, <1>7, ReconcilePc DEF Clearing, Setting, Flagging
<1>8. CASE InsertMatch(o) \/ Attribute(o)
  <2>1. /\ op[o].pc \in {"insertMatch", "attribute"}
        /\ RowDone(o) \/ Goto(o, "attribute")
    BY <1>8 DEF InsertMatch, Attribute
  <2> QED
    BY <1>2, <1>4, <2>1, NextRowPc DEF Clearing, Setting, Flagging
<1>9. CASE Abort(o)
  BY <1>2, <1>3, <1>9 DEF Abort, Clearing, Setting, Flagging
<1>10. CASE CarryOn(o)
  <2>1. \/ /\ op[o].pc \in {"attribute", "insertMatch", "nextRow"}
           /\ RowDone(o) \/ \E d \in Txn : SkipRow(o, d)
        \/ op[o].pc = "others" /\ Goto(o, "unmark")
    BY <1>1, <1>10 DEF CarryOn, OpState
  <2> QED
    BY <1>2, <1>4, <2>1, NextRowPc DEF Clearing, Setting, Flagging
<1> QED
  BY <1>5, <1>6, <1>7, <1>8, <1>9, <1>10 DEF Step

\* The operations a request or a hook may begin.
LEMMA BeginCases ==
  ASSUME NEW o \in Op, UserRequest(o) \/ \E c \in Acct : ReconcileForConnection(o, c)
  PROVE  \E x : Begin(o, x)
BY DEF UserRequest, CreateAccountLink, UpdateAccountLink, DeleteAccountLink, ManualMatch,
       RunMatchReconciliation, RejectMatch, ReconcileForConnection, Request

LEMMA AloneStep == BaseInv /\ Alone /\ [Next]_vars => Alone'
<1> SUFFICES ASSUME BaseInv, Alone, [Next]_vars PROVE Alone'
  OBVIOUS
<1>0. op \in [Op -> OpState]
  BY DEF BaseInv, TypeOK
<1>1. ASSUME NEW o \in Op, NEW x, Begin(o, x) PROVE Alone'
  <2>1. op'[o] = x /\ (\A q \in Op \ {o} : op'[q] = op[q]) /\ torn \subseteq torn'
    BY <1>0, <1>1 DEF Begin, Tear
  <2>2. /\ x.pc \in Clearing /\ Overlap(o, Clearing \cup Setting) => "attribution" \in torn'
        /\ x.pc \in Setting /\ Overlap(o, Clearing) => "attribution" \in torn'
        /\ x.pc \in Flagging /\ Overlap(o, Flagging) => "flag" \in torn'
    BY <1>1 DEF Begin, Tear
  <2> QED
    BY <2>1, <2>2 DEF Alone, Overlap, Clearing, Setting
<1>2. ASSUME NEW o \in Op, Step(o) \/ Abort(o) \/ CarryOn(o) PROVE Alone'
  BY <1>2, OwnMove DEF Alone
<1>3. CASE \/ \E m \in DOMAIN match : ConfirmMatch(m)
           \/ \E t \in Txn : SoftDelete(t) \/ Restore(t)
           \/ UNCHANGED vars
  BY <1>3 DEF ConfirmMatch, SoftDelete, Restore, vars, Alone
<1> QED
  BY <1>1, <1>2, <1>3, BeginCases DEF Next, PostSync

-----------------------------------------------------------------------------
(* Attribution                                                             *)

HalfDone == {"attribute", "dropMatch", "dropLink"}

\* What is known between the two statements of an operation with locals x.
Half(x) ==
  /\ x.pc = "attribute" =>
       \E m \in DOMAIN match : match[m].pri = x.pri /\ match[m].link = x.l
  /\ x.pc \in {"clearMatch", "dropMatch"} => x.m \in DOMAIN match
  /\ x.pc = "dropMatch" => attributed[x.pri] = NoUser
  /\ x.pc = "dropLink" => \A m \in MatchesOf(x.l) : attributed[match[m].pri] = NoUser

AttrInv ==
  /\ AttributionInv
  /\ "attribution" \notin torn => \A o \in Op : Half(op[o])

\* A step that leaves matches and attributions alone, by operations that are not
\* between two of their writes.
LEMMA CalmStep ==
  ASSUME BaseInv, AttrInv, "attribution" \notin torn,
         attributed' = attributed, DOMAIN match' = DOMAIN match,
         \A m \in DOMAIN match :
           /\ match'[m].pri = match[m].pri /\ match'[m].link = match[m].link
           /\ link'[match[m].link].dep = link[match[m].link].dep,
         \A q \in Op : \/ op'[q] = op[q]
                       \/ /\ {op[q].pc, op'[q].pc} \cap HalfDone = {}
                          /\ op'[q].pc = "clearMatch" => op'[q].m \in DOMAIN match
  PROVE  AttrInv'
<1>1. \A m \in DOMAIN match : Beneficiary(m)' = Beneficiary(m)
  BY DEF Beneficiary
<1>2. AttributionInv'
  <2>1. ASSUME NEW t \in Txn, attributed'[t] # NoUser
        PROVE  \E m \in DOMAIN match' : match'[m].pri = t /\ attributed'[t] = Beneficiary(m)'
    BY <1>1, <2>1 DEF AttrInv, AttributionInv
  <2>2. ASSUME NEW m \in DOMAIN match'
        PROVE  \/ attributed'[match'[m].pri] = Beneficiary(m)'
               \/ \E o \in Op : \/ op'[o].pc = "attribute" /\ op'[o].pri = match'[m].pri
                                \/ op'[o].pc = "dropMatch" /\ op'[o].m = m
                                \/ op'[o].pc = "dropLink" /\ op'[o].l = match'[m].link
    <3>1. CASE attributed[match[m].pri] = Beneficiary(m)
      BY <1>1, <3>1
    <3>2. ASSUME NEW o \in Op,
                 \/ op[o].pc = "attribute" /\ op[o].pri = match[m].pri
                 \/ op[o].pc = "dropMatch" /\ op[o].m = m
                 \/ op[o].pc = "dropLink" /\ op[o].l = match[m].link
          PROVE  op'[o] = op[o]
      BY <3>2 DEF HalfDone
    <3> QED
      BY <3>1, <3>2 DEF AttrInv, AttributionInv
  <2> QED
    BY <2>1, <2>2 DEF AttributionInv
<1>3. ASSUME NEW q \in Op PROVE Half(op[q])'
  <2>1. CASE op'[q] = op[q]
    BY <2>1 DEF Half, AttrInv, MatchesOf
  <2>2. CASE /\ {op[q].pc, op'[q].pc} \cap HalfDone = {}
             /\ op'[q].pc = "clearMatch" => op'[q].m \in DOMAIN match
    BY <2>2 DEF Half, HalfDone
  <2> QED
    BY <2>1, <2>2
<1> QED
  BY <1>2, <1>3 DEF AttrInv

LEMMA BeginAttr ==
  ASSUME BaseInv, AttrInv, "attribution" \notin torn, NEW o \in Op,
         UserRequest(o) \/ \E c \in Acct : ReconcileForConnection(o, c)
  PROVE  AttrInv'
<1>0. op \in [Op -> OpState]
  BY DEF BaseInv, TypeOK
<1>1. /\ op'[o].pc \notin HalfDone
      /\ op'[o].pc = "clearMatch" => op'[o].m \in DOMAIN match
  <2>1. ASSUME NEW c \in Acct, ReconcileForConnection(o, c)
        PROVE  op'[o].pc = "nextLink"
    BY <1>0, <2>1 DEF ReconcileForConnection, Begin, Idle
  <2>2. ASSUME NEW p \in Acct, NEW d \in Acct, NEW tol \in Tolerance,
               CreateAccountLink(o, p, d, tol)
        PROVE  op'[o].pc = "insertLink"
    BY <1>0, <2>2 DEF CreateAccountLink, Request, Begin, Idle
  <2>3. ASSUME NEW l \in DOMAIN link, NEW enabled, NEW tol,
               UpdateAccountLink(o, l, enabled, tol)
        PROVE  op'[o].pc = "update"
    BY <1>0, <2>3 DEF UpdateAccountLink, Request, Begin, Idle
  <2>4. ASSUME NEW l \in DOMAIN link, DeleteAccountLink(o, l)
        PROVE  op'[o].pc = "clearLink"
    BY <1>0, <2>4 DEF DeleteAccountLink, Request, Begin, Idle
  <2>5. ASSUME NEW l \in DOMAIN link, RunMatchReconciliation(o, l)
        PROVE  op'[o].pc = "nextLink"
    BY <1>0, <2>5 DEF RunMatchReconciliation, Request, Begin, Idle
  <2>6. ASSUME NEW l \in DOMAIN link, NEW pair \in ByHand,
               ManualMatch(o, l, pair[1], pair[2])
        PROVE  op'[o].pc = "manual"
    BY <1>0, <2>6 DEF ManualMatch, Request, Begin, Idle
  <2>7. ASSUME NEW m \in DOMAIN match, RejectMatch(o, m)
        PROVE  op'[o].pc = "clearMatch" /\ op'[o].m \in DOMAIN match
    BY <1>0, <2>7 DEF RejectMatch, Request, Begin, Idle
  <2> QED
    BY <2>1, <2>2, <2>3, <2>4, <2>5, <2>6, <2>7 DEF UserRequest, HalfDone
<1>2. PICK x : Begin(o, x)
  BY BeginCases
<1>3. /\ op[o].pc = "idle" /\ \A q \in Op \ {o} : op'[q] = op[q]
      /\ UNCHANGED <<link, match, attributed>>
  BY <1>0, <1>2 DEF Begin, dbVars
<1>4. \A q \in Op : \/ op'[q] = op[q]
                    \/ /\ {op[q].pc, op'[q].pc} \cap HalfDone = {}
                       /\ op'[q].pc = "clearMatch" => op'[q].m \in DOMAIN match
  BY <1>1, <1>3 DEF HalfDone
<1> QED
  BY <1>3, <1>4, CalmStep

\* Steps about links and flags, and reconciliation up to its INSERT.
LEMMA CalmAttr ==
  ASSUME BaseInv, AttrInv, "attribution" \notin torn', NEW o \in Op,
         \/ InsertLink(o) \/ UpdateLinkRow(o) \/ Mark(o) \/ StillLinked(o) \/ Unmark(o)
         \/ ReconcileLink(o) \/ NextRow(o) \/ Abort(o) \/ CarryOn(o)
         \/ InsertManualMatch(o) /\ ~Insertable(op[o].l, op[o].pri, op[o].dep)
         \/ InsertMatch(o) /\ ~Insertable(op[o].l, op[o].pri, op[o].dep)
  PROVE  AttrInv'
<1>0. /\ op[o] \in OpState /\ op \in [Op -> OpState] /\ "attribution" \notin torn
      /\ RememberedBy(op[o])
      /\ \A q \in Op \ {o} : op'[q] = op[q]
  BY OwnMove DEF BaseInv, TypeOK, Step, Remembered
<1>1. attributed' = attributed /\ match' = match
  BY DEF InsertLink, UpdateLinkRow, Mark, StillLinked, Unmark, ReconcileLink, NextRow,
         Abort, CarryOn, Fault, InsertManualMatch, InsertMatch, dbVars
<1>2. \A l \in DOMAIN link : link'[l].dep = link[l].dep
  <2>1. CASE InsertLink(o)
    BY <2>1 DEF InsertLink, With, BaseInv, TypeOK
  <2>2. CASE UpdateLinkRow(o)
    BY <1>0, <2>2 DEF UpdateLinkRow, RememberedBy, BaseInv, TypeOK
  <2>3. CASE link' = link
    BY <2>3
  <2> QED
    BY <2>1, <2>2, <2>3
    DEF Mark, StillLinked, Unmark, ReconcileLink, NextRow, Abort, CarryOn, Fault,
        InsertManualMatch, InsertMatch, dbVars
<1>3. op[o].pc \notin HalfDone
  <2>1. ASSUME Fault(o) PROVE op[o].pc \notin HalfDone
    BY <2>1 DEF Fault, TornAt, HalfDone
  <2> QED
    BY <2>1 DEF InsertLink, UpdateLinkRow, Mark, StillLinked, Unmark, ReconcileLink, NextRow,
         Abort, CarryOn, InsertManualMatch, InsertMatch, HalfDone
<1>4. op'[o].pc \notin HalfDone \cup {"clearMatch"}
  <2>1. ASSUME Return(o) PROVE op'[o].pc = "idle"
    BY <1>0, <2>1, IdleType DEF Return
  <2>2. ASSUME NEW p, Goto(o, p) PROVE op'[o].pc = p
    BY <1>0, <2>2 DEF Goto, OpState
  <2>3. ASSUME op' = [op EXCEPT ![o].l = lastLink + 1, ![o].pc = "mark"] PROVE op'[o].pc = "mark"
    BY <1>0, <2>3 DEF OpState
  <2>4. ASSUME CarryOn(o)
        PROVE  RowDone(o) \/ (\E d \in Txn : SkipRow(o, d)) \/ Goto(o, "unmark")
    BY <1>0, <2>4 DEF CarryOn, OpState
  <2>5. CASE ReconcileLink(o) \/ NextRow(o)
    BY <2>5, ReconcilePc DEF HalfDone
  <2>6. CASE ~(ReconcileLink(o) \/ NextRow(o))
    <3>1. \/ Return(o) \/ (\E p \in {"mark", "others", "unmark"} : Goto(o, p))
          \/ op' = [op EXCEPT ![o].l = lastLink + 1, ![o].pc = "mark"]
          \/ RowDone(o) \/ \E d \in Txn : SkipRow(o, d)
      BY <2>4, <2>6 DEF InsertLink, UpdateLinkRow, Mark, StillLinked, Unmark, Abort,
                        InsertManualMatch, InsertMatch
    <3> QED
      BY <2>1, <2>2, <2>3, <3>1, NextRowPc DEF HalfDone
  <2> QED
    BY <2>5, <2>6
<1>5. \A m \in DOMAIN match : match[m].link \in DOMAIN link
  BY DEF BaseInv, TypeOK
<1> QED
  BY <1>0, <1>1, <1>2, <1>3, <1>4, <1>5, CalmStep

\* What a match the operation is about and the matches beside it have to do with
\* each other: the primary row of a match is in no other.
LEMMA OnePri ==
  ASSUME BaseInv, NEW m \in DOMAIN match, NEW n \in DOMAIN match, match[m].pri = match[n].pri
  PROVE  m = n
BY DEF BaseInv, TypeOK

LEMMA ClearLinkAttr ==
  ASSUME BaseInv, Alone, AttrInv, "attribution" \notin torn, NEW o \in Op,
         ClearAttributionOfLink(o)
  PROVE  AttrInv'
<1>0. /\ op \in [Op -> OpState] /\ op[o] \in OpState
      /\ \A m \in DOMAIN match : match[m].pri \in Txn
      /\ attributed \in [Txn -> User \cup {NoUser}]
  BY DEF BaseInv, TypeOK, MatchRow
<1>1. /\ UNCHANGED <<link, match, torn>> /\ op[o].pc = "clearLink"
      /\ op' = [op EXCEPT ![o].pc = "dropLink"]
      /\ attributed' = [t \in Txn |->
           IF \E m \in MatchesOf(op[o].l) : match[m].pri = t THEN NoUser ELSE attributed[t]]
  BY DEF ClearAttributionOfLink, Goto
<1>2. /\ op'[o].pc = "dropLink" /\ op'[o].l = op[o].l
      /\ \A q \in Op \ {o} : op'[q] = op[q] /\ op[q].pc \notin Clearing \cup Setting
  BY <1>0, <1>1 DEF Alone, Clearing, OpState
<1>3. \A m \in DOMAIN match : Beneficiary(m)' = Beneficiary(m)
  BY <1>1 DEF Beneficiary
<1>4. \A m \in MatchesOf(op[o].l) : attributed'[match[m].pri] = NoUser
  BY <1>0, <1>1 DEF MatchesOf
<1>5. \A m \in DOMAIN match \ MatchesOf(op[o].l) : attributed'[match[m].pri] = attributed[match[m].pri]
  BY <1>0, <1>1, OnePri DEF MatchesOf
<1>6. ASSUME NEW t \in Txn, attributed'[t] # NoUser
      PROVE  \E m \in DOMAIN match' : match'[m].pri = t /\ attributed'[t] = Beneficiary(m)'
  BY <1>1, <1>3, <1>6 DEF AttrInv, AttributionInv
<1>7. ASSUME NEW m \in DOMAIN match'
      PROVE  \/ attributed'[match'[m].pri] = Beneficiary(m)'
             \/ \E q \in Op : op'[q].pc = "dropLink" /\ op'[q].l = match'[m].link
  <2>1. CASE m \in MatchesOf(op[o].l)
    BY <1>1, <1>2, <2>1 DEF MatchesOf
  <2>2. CASE m \notin MatchesOf(op[o].l)
    <3>1. attributed[match[m].pri] = Beneficiary(m)
      BY <1>1, <1>2 DEF AttrInv, AttributionInv, Clearing, Setting
    <3> QED
      BY <1>1, <1>3, <1>5, <2>2, <3>1
  <2> QED
    BY <2>1, <2>2
<1>8. ASSUME NEW q \in Op PROVE Half(op[q])'
  BY <1>1, <1>2, <1>4 DEF Half, Clearing, Setting, MatchesOf
<1>9. AttributionInv'
  BY <1>1, <1>6, <1>7 DEF AttributionInv
<1> QED
  BY <1>8, <1>9 DEF AttrInv

LEMMA ClearMatchAttr ==
  ASSUME BaseInv, Alone, AttrInv, "attribution" \notin torn, NEW o \in Op,
         ClearAttributionOfMatch(o)
  PROVE  AttrInv'
<1>0. /\ op \in [Op -> OpState] /\ op[o] \in OpState /\ RememberedBy(op[o]) /\ Half(op[o])
      /\ \A m \in DOMAIN match : match[m].pri \in Txn
      /\ attributed \in [Txn -> User \cup {NoUser}]
  BY DEF BaseInv, TypeOK, MatchRow, Remembered, AttrInv
<1>1. /\ UNCHANGED <<link, match, torn>> /\ op[o].pc = "clearMatch"
      /\ op' = [op EXCEPT ![o].pc = "dropMatch"]
      /\ attributed' = [attributed EXCEPT ![op[o].pri] = NoUser]
  BY DEF ClearAttributionOfMatch, Goto
<1>2. /\ op'[o].pc = "dropMatch" /\ op'[o].m = op[o].m /\ op'[o].pri = op[o].pri
      /\ \A q \in Op \ {o} : op'[q] = op[q] /\ op[q].pc \notin Clearing \cup Setting
  BY <1>0, <1>1 DEF Alone, Clearing, OpState
<1>3. \A m \in DOMAIN match : Beneficiary(m)' = Beneficiary(m)
  BY <1>1 DEF Beneficiary
<1>4. op[o].m \in DOMAIN match /\ match[op[o].m].pri = op[o].pri /\ op[o].pri \in Txn
  BY <1>0, <1>1 DEF Half, RememberedBy
<1>5. attributed'[op[o].pri] = NoUser
      /\ \A m \in DOMAIN match \ {op[o].m} : attributed'[match[m].pri] = attributed[match[m].pri]
  BY <1>0, <1>1, <1>4, OnePri
<1>6. ASSUME NEW t \in Txn, attributed'[t] # NoUser
      PROVE  \E m \in DOMAIN match' : match'[m].pri = t /\ attributed'[t] = Beneficiary(m)'
  <2>1. attributed'[t] = attributed[t]
    BY <1>0, <1>1, <1>5, <1>6
  <2> QED
    BY <1>1, <1>3, <1>6, <2>1 DEF AttrInv, AttributionInv
<1>7. ASSUME NEW m \in DOMAIN match'
      PROVE  \/ attributed'[match'[m].pri] = Beneficiary(m)'
             \/ \E q \in Op : op'[q].pc = "dropMatch" /\ op'[q].m = m
  <2>1. CASE m = op[o].m
    BY <1>2, <2>1
  <2>2. CASE m # op[o].m
    <3>1. attributed[match[m].pri] = Beneficiary(m)
      BY <1>1, <1>2 DEF AttrInv, AttributionInv, Clearing, Setting
    <3> QED
      BY <1>1, <1>3, <1>5, <2>2, <3>1
  <2> QED
    BY <2>1, <2>2
<1>8. ASSUME NEW q \in Op PROVE Half(op[q])'
  BY <1>1, <1>2, <1>4, <1>5 DEF Half, Clearing, Setting
<1>9. AttributionInv'
  BY <1>1, <1>6, <1>7 DEF AttributionInv
<1> QED
  BY <1>8, <1>9 DEF AttrInv

\* DropMatch and DropLink delete matches whose transactions nobody owns any more.
LEMMA DropAttr ==
  ASSUME BaseInv, Alone, AttrInv, "attribution" \notin torn, NEW o \in Op,
         DropMatch(o) \/ DropLink(o)
  PROVE  AttrInv'
<1>0. /\ op \in [Op -> OpState] /\ op[o] \in OpState /\ RememberedBy(op[o]) /\ Half(op[o])
      /\ \A m \in DOMAIN match : match[m].link \in DOMAIN link
      /\ 0 \notin DOMAIN match
  BY DEF BaseInv, TypeOK, MatchRow, Remembered, AttrInv
<1> DEFINE gone == IF op[o].pc = "dropMatch" THEN {op[o].m} ELSE MatchesOf(op[o].l)
           dead == IF op[o].pc = "dropMatch" THEN {} ELSE {op[o].l}
<1>1. /\ UNCHANGED <<attributed, torn>> /\ op[o].pc \in {"dropMatch", "dropLink"}
      /\ match' = Without(match, gone)
      /\ \A l \in DOMAIN link \ dead : link'[l] = link[l]
      /\ Return(o) \/ Goto(o, "others")
  <2>1. CASE DropMatch(o)
    BY <2>1 DEF DropMatch
  <2>2. CASE DropLink(o)
    BY <2>2 DEF DropLink, Without
  <2> QED
    BY <2>1, <2>2
<1>2. op'[o].pc \in {"idle", "others"}
  BY <1>0, <1>1, IdleType DEF Return, Goto, OpState
<1>3. \A q \in Op \ {o} : op'[q] = op[q] /\ op[q].pc \notin Clearing \cup Setting
  BY <1>0, <1>1 DEF Alone, Clearing, Return, Goto
<1>4. \A m \in gone \cap DOMAIN match : attributed[match[m].pri] = NoUser
  BY <1>0, <1>1 DEF Half, RememberedBy, MatchesOf
<1>5. /\ DOMAIN match' = DOMAIN match \ gone
      /\ \A m \in DOMAIN match' : /\ match'[m] = match[m]
                                  /\ match[m].link \notin dead
  <2>1. \A m \in DOMAIN match \ gone : match[m].link \notin dead
    BY <1>0, <1>1 DEF MatchesOf
  <2> HIDE DEF gone, dead
  <2> QED
    BY <1>1, <2>1 DEF Without
<1>6. \A m \in DOMAIN match' : Beneficiary(m)' = Beneficiary(m)
  <2> HIDE DEF gone, dead
  <2> QED
    BY <1>0, <1>1, <1>5 DEF Beneficiary
<1> HIDE DEF gone, dead
<1>7. ASSUME NEW t \in Txn, attributed'[t] # NoUser
      PROVE  \E m \in DOMAIN match' : match'[m].pri = t /\ attributed'[t] = Beneficiary(m)'
  <2>1. PICK m \in DOMAIN match : match[m].pri = t /\ attributed[t] = Beneficiary(m)
    BY <1>1, <1>7 DEF AttrInv, AttributionInv
  <2>2. m \in DOMAIN match'
    BY <1>1, <1>4, <1>5, <1>7, <2>1
  <2> QED
    BY <1>1, <1>5, <1>6, <2>1, <2>2
<1>8. ASSUME NEW m \in DOMAIN match' PROVE attributed'[match'[m].pri] = Beneficiary(m)'
  <2>1. m \in DOMAIN match /\ m \notin gone
    BY <1>5
  <2>2. ~\E q \in Op : \/ op[q].pc = "attribute" /\ op[q].pri = match[m].pri
                       \/ op[q].pc = "dropMatch" /\ op[q].m = m
                       \/ op[q].pc = "dropLink" /\ op[q].l = match[m].link
    BY <1>1, <1>3, <2>1 DEF gone, Clearing, Setting, MatchesOf
  <2> QED
    BY <1>1, <1>5, <1>6, <2>1, <2>2 DEF AttrInv, AttributionInv
<1>9. ASSUME NEW q \in Op PROVE Half(op[q])'
  BY <1>2, <1>3 DEF Half, Clearing, Setting
<1>10. AttributionInv'
  BY <1>7, <1>8 DEF AttributionInv
<1> QED
  BY <1>9, <1>10 DEF AttrInv

LEMMA InsertAttr ==
  ASSUME BaseInv, Alone, AttrInv, "attribution" \notin torn, NEW o \in Op,
         InsertManualMatch(o) \/ InsertMatch(o),
         Insertable(op[o].l, op[o].pri, op[o].dep)
  PROVE  AttrInv'
<1> DEFINE new == lastMatch + 1
<1>0. /\ op \in [Op -> OpState] /\ op[o] \in OpState
      /\ lastMatch \in Nat /\ DOMAIN match \subseteq 1 .. lastMatch
  BY DEF BaseInv, TypeOK
<1>1. /\ UNCHANGED <<link, attributed, torn>> /\ op[o].pc \in {"manual", "insertMatch"}
      /\ op' = [op EXCEPT ![o].pc = "attribute"]
      /\ \E sure \in BOOLEAN : CreateTransactionMatch(op[o].l, op[o].pri, op[o].dep, sure)
  BY DEF InsertManualMatch, InsertMatch, Goto
<1>2. /\ op'[o].pc = "attribute" /\ op'[o].l = op[o].l /\ op'[o].pri = op[o].pri
      /\ \A q \in Op \ {o} : op'[q] = op[q] /\ op[q].pc \notin Clearing
  BY <1>0, <1>1 DEF Alone, Clearing, Setting, OpState
<1>3. /\ DOMAIN match' = DOMAIN match \cup {new} /\ new \notin DOMAIN match
      /\ match'[new].pri = op[o].pri /\ match'[new].link = op[o].l
      /\ \A m \in DOMAIN match : match'[m] = match[m]
  <2>1. new \notin DOMAIN match
    BY <1>0
  <2> HIDE DEF new
  <2> QED
    BY <1>1, <2>1 DEF CreateTransactionMatch, With, new
<1> HIDE DEF new
<1>4. \A m \in DOMAIN match : match[m].pri # op[o].pri
  BY DEF Insertable, MatchedAsPri
<1>5. \A m \in DOMAIN match : Beneficiary(m)' = Beneficiary(m)
  BY <1>1, <1>3 DEF Beneficiary
<1>6. ASSUME NEW t \in Txn, attributed'[t] # NoUser
      PROVE  \E m \in DOMAIN match' : match'[m].pri = t /\ attributed'[t] = Beneficiary(m)'
  <2>1. PICK m \in DOMAIN match : match[m].pri = t /\ attributed[t] = Beneficiary(m)
    BY <1>1, <1>6 DEF AttrInv, AttributionInv
  <2> QED
    BY <1>1, <1>3, <1>5, <2>1
<1>7. ASSUME NEW m \in DOMAIN match'
      PROVE  \/ attributed'[match'[m].pri] = Beneficiary(m)'
             \/ \E q \in Op : op'[q].pc = "attribute" /\ op'[q].pri = match'[m].pri
  <2>1. CASE m = new
    BY <1>2, <1>3, <2>1
  <2>2. CASE m \in DOMAIN match
    <3>1. CASE attributed[match[m].pri] = Beneficiary(m)
      BY <1>1, <1>3, <1>5, <2>2, <3>1
    <3>2. ASSUME NEW q \in Op, op[q].pc = "attribute" /\ op[q].pri = match[m].pri
          PROVE  op'[q].pc = "attribute" /\ op'[q].pri = match'[m].pri
      BY <1>1, <1>2, <1>3, <2>2, <3>2
    <3>3. ~\E q \in Op : \/ op[q].pc = "dropMatch" /\ op[q].m = m
                         \/ op[q].pc = "dropLink" /\ op[q].l = match[m].link
      BY <1>1, <1>2 DEF Clearing
    <3> QED
      BY <1>1, <2>2, <3>1, <3>2, <3>3 DEF AttrInv, AttributionInv
  <2> QED
    BY <1>3, <2>1, <2>2
<1>8. ASSUME NEW q \in Op PROVE Half(op[q])'
  <2>1. Half(op[q])
    BY DEF AttrInv
  <2>2. CASE q = o
    BY <1>2, <1>3, <2>2 DEF Half
  <2>3. CASE q # o
    BY <1>1, <1>2, <1>3, <2>1, <2>3 DEF Half, Clearing
  <2> QED
    BY <2>2, <2>3
<1>9. AttributionInv'
  BY <1>6, <1>7 DEF AttributionInv
<1> QED
  BY <1>8, <1>9 DEF AttrInv

LEMMA AttributeAttr ==
  ASSUME BaseInv, Alone, AttrInv, "attribution" \notin torn, NEW o \in Op, Attribute(o)
  PROVE  AttrInv'
<1>0. /\ op[o] \in OpState /\ RememberedBy(op[o]) /\ Half(op[o])
      /\ \A m \in DOMAIN match : match[m].link \in DOMAIN link /\ match[m].pri \in Txn
      /\ attributed \in [Txn -> User \cup {NoUser}]
  BY DEF BaseInv, TypeOK, MatchRow, Remembered, AttrInv
<1>1. /\ UNCHANGED <<link, match, torn>> /\ op[o].pc = "attribute" /\ RowDone(o)
      /\ attributed' = IF Owner[op[o].row.dep] = NoUser THEN attributed
                       ELSE [attributed EXCEPT ![op[o].pri] = Owner[op[o].row.dep]]
  BY DEF Attribute
<1>2. /\ op'[o].pc \in {"idle", "nextLink", "nextRow"}
      /\ \A q \in Op \ {o} : op'[q] = op[q] /\ op[q].pc \notin Clearing
  BY <1>1, NextRowPc DEF Alone, Clearing, Setting
<1>3. PICK n \in DOMAIN match : match[n].pri = op[o].pri /\ match[n].link = op[o].l
  BY <1>0, <1>1 DEF Half
<1>4. Beneficiary(n) = Owner[op[o].row.dep]
  BY <1>0, <1>3 DEF Beneficiary, RememberedBy
<1>5. \A m \in DOMAIN match : Beneficiary(m)' = Beneficiary(m)
  BY <1>1 DEF Beneficiary
<1>6. attributed'[match[n].pri] = Beneficiary(n)
  <2>1. CASE Owner[op[o].row.dep] # NoUser
    BY <1>0, <1>1, <1>3, <1>4, <2>1
  <2>2. CASE Owner[op[o].row.dep] = NoUser
    <3>1. ASSUME attributed[match[n].pri] # NoUser PROVE FALSE
      <4>1. PICK m \in DOMAIN match :
              match[m].pri = match[n].pri /\ attributed[match[n].pri] = Beneficiary(m)
        BY <1>0, <1>1, <3>1 DEF AttrInv, AttributionInv
      <4>2. m = n
        BY <4>1, OnePri
      <4> QED
        BY <1>4, <2>2, <3>1, <4>1, <4>2
    <3> QED
      BY <1>1, <1>4, <2>2, <3>1
  <2> QED
    BY <2>1, <2>2
<1>7. \A t \in Txn : t # match[n].pri => attributed'[t] = attributed[t]
  BY <1>0, <1>1, <1>3
<1>8. ASSUME NEW t \in Txn, attributed'[t] # NoUser
      PROVE  \E m \in DOMAIN match' : match'[m].pri = t /\ attributed'[t] = Beneficiary(m)'
  <2>1. CASE t = match[n].pri
    BY <1>1, <1>5, <1>6, <2>1
  <2>2. CASE t # match[n].pri
    <3>1. PICK m \in DOMAIN match : match[m].pri = t /\ attributed[t] = Beneficiary(m)
      BY <1>1, <1>7, <1>8, <2>2 DEF AttrInv, AttributionInv
    <3> QED
      BY <1>1, <1>5, <1>7, <2>2, <3>1
  <2> QED
    BY <2>1, <2>2
<1>9. ASSUME NEW m \in DOMAIN match'
      PROVE  \/ attributed'[match'[m].pri] = Beneficiary(m)'
             \/ \E q \in Op : op'[q].pc = "attribute" /\ op'[q].pri = match'[m].pri
  <2>1. CASE m = n
    BY <1>1, <1>5, <1>6, <2>1
  <2>2. CASE m # n
    <3>1. match[m].pri # match[n].pri
      BY <1>1, <2>2, OnePri
    <3>2. CASE attributed[match[m].pri] = Beneficiary(m)
      BY <1>0, <1>1, <1>5, <1>7, <3>1, <3>2
    <3>3. ASSUME NEW q \in Op, op[q].pc = "attribute" /\ op[q].pri = match[m].pri
          PROVE  op'[q].pc = "attribute" /\ op'[q].pri = match'[m].pri
      BY <1>1, <1>2, <1>3, <3>1, <3>3
    <3>4. ~\E q \in Op : \/ op[q].pc = "dropMatch" /\ op[q].m = m
                         \/ op[q].pc = "dropLink" /\ op[q].l = match[m].link
      BY <1>1, <1>2 DEF Clearing
    <3> QED
      BY <1>1, <3>2, <3>3, <3>4 DEF AttrInv, AttributionInv
  <2> QED
    BY <2>1, <2>2
<1>10. ASSUME NEW q \in Op PROVE Half(op[q])'
  <2>1. Half(op[q])
    BY DEF AttrInv
  <2> QED
    BY <1>1, <1>2, <2>1 DEF Half, Clearing
<1>11. AttributionInv'
  BY <1>8, <1>9 DEF AttributionInv
<1> QED
  BY <1>10, <1>11 DEF AttrInv

LEMMA BesideAttr ==
  ASSUME BaseInv, AttrInv, "attribution" \notin torn,
         \/ \E m \in DOMAIN match : ConfirmMatch(m)
         \/ \E t \in Txn : SoftDelete(t) \/ Restore(t)
         \/ UNCHANGED vars
  PROVE  AttrInv'
<1>1. UNCHANGED <<link, attributed, op>>
  BY DEF ConfirmMatch, SoftDelete, Restore, vars, dbVars
<1>2. /\ DOMAIN match' = DOMAIN match
      /\ \A m \in DOMAIN match : match'[m].pri = match[m].pri /\ match'[m].link = match[m].link
  <2>1. \A m \in DOMAIN match : match[m] \in MatchRow
    BY DEF BaseInv, TypeOK
  <2>2. ASSUME NEW k \in DOMAIN match, match' = [match EXCEPT ![k].sure = TRUE],
               NEW m \in DOMAIN match
        PROVE  match'[m].pri = match[m].pri /\ match'[m].link = match[m].link
    <3>1. match'[m] = IF m = k THEN [match[m] EXCEPT !.sure = TRUE] ELSE match[m]
      BY <2>2
    <3> QED
      BY <2>1, <3>1 DEF MatchRow
  <2>3. match' = match \/ \E k \in DOMAIN match : match' = [match EXCEPT ![k].sure = TRUE]
    BY DEF ConfirmMatch, SoftDelete, Restore, vars, dbVars
  <2>4. DOMAIN match' = DOMAIN match
    BY <2>3
  <2> QED
    BY <2>2, <2>3, <2>4
<1>3. \A q \in Op : op'[q] = op[q]
  BY <1>1
<1> QED
  BY <1>1, <1>2, <1>3, CalmStep

LEMMA AttrStep == BaseInv /\ Alone /\ AttrInv /\ [Next]_vars => AttrInv'
<1> SUFFICES ASSUME BaseInv, Alone, AttrInv, [Next]_vars PROVE AttrInv'
  OBVIOUS
<1>1. CASE "attribution" \in torn'
  BY <1>1 DEF AttrInv, AttributionInv
<1>2. CASE "attribution" \notin torn'
  <2>1. torn \subseteq torn'
    <3>1. ASSUME NEW o \in Op, UserRequest(o) \/ \E c \in Acct : ReconcileForConnection(o, c)
          PROVE  torn \subseteq torn'
      BY <3>1, BeginCases DEF Begin, Tear
    <3>2. ASSUME NEW o \in Op, Step(o) \/ Abort(o) \/ CarryOn(o)
          PROVE  torn \subseteq torn'
      BY <3>2, OwnMove
    <3> QED
      BY <3>1, <3>2 DEF Next, PostSync, ConfirmMatch, SoftDelete, Restore, vars
  <2>2. "attribution" \notin torn
    BY <1>2, <2>1
  <2>3. ASSUME NEW o \in Op, UserRequest(o) \/ \E c \in Acct : ReconcileForConnection(o, c)
        PROVE  AttrInv'
    BY <2>2, <2>3, BeginAttr
  <2>4. ASSUME NEW o \in Op, Step(o) \/ Abort(o) \/ CarryOn(o) PROVE AttrInv'
    <3>1. CASE \/ InsertLink(o) \/ UpdateLinkRow(o) \/ Mark(o) \/ StillLinked(o) \/ Unmark(o)
               \/ ReconcileLink(o) \/ NextRow(o) \/ Abort(o) \/ CarryOn(o)
      BY <1>2, <3>1, CalmAttr
    <3>2. CASE InsertManualMatch(o) \/ InsertMatch(o)
      <4>1. CASE Insertable(op[o].l, op[o].pri, op[o].dep)
        BY <2>2, <3>2, <4>1, InsertAttr
      <4>2. CASE ~Insertable(op[o].l, op[o].pri, op[o].dep)
        BY <1>2, <3>2, <4>2, CalmAttr
      <4> QED
        BY <4>1, <4>2
    <3>3. CASE \/ ClearAttributionOfLink(o) \/ DropLink(o) \/ ClearAttributionOfMatch(o)
               \/ DropMatch(o) \/ Attribute(o)
      BY <2>2, <3>3, ClearLinkAttr, ClearMatchAttr, DropAttr, AttributeAttr
    <3> QED
      BY <2>4, <3>1, <3>2, <3>3 DEF Step
  <2> QED
    BY <2>2, <2>3, <2>4, BesideAttr DEF Next, PostSync
<1> QED
  BY <1>1, <1>2

LEMMA AloneInit == Init => Alone /\ AttrInv
<1> SUFFICES ASSUME Init PROVE Alone /\ AttrInv
  OBVIOUS
<1>1. \A o \in Op : op[o].pc = "idle"
  BY IdleType DEF Init
<1>2. DOMAIN match = {} /\ attributed = [t \in Txn |-> NoUser]
  BY DEF Init
<1> QED
  BY <1>1, <1>2 DEF Alone, AttrInv, AttributionInv, Half, Clearing, Flagging

\* Whatever operations overlap, as long as no rejection or deletion met another
\* writer of attributions and none was cut off: money is attributed to somebody
\* exactly for the matches that exist, but for operations between two writes.
THEOREM AttributionFollowsMatches == Spec => []AttributionInv
<1>1. AttrInv => AttributionInv
  BY DEF AttrInv
<1> QED
  BY <1>1, BaseInit, BaseStep, AloneInit, AloneStep, AttrStep, PTL DEF Spec

-----------------------------------------------------------------------------
(* Links and flags                                                         *)

\* What an operation with locals x, alone with links and flags, knows of them.
Deciding(x) ==
  /\ x.pc = "insertLink" =>
       \A l \in DOMAIN link : ~(link[l].pri = x.row.dep /\ link[l].dep = x.row.pri)
  /\ x.pc = "update" =>
       /\ x.ask = "off" => ~x.row.enabled
       /\ x.ask = "unset" /\ x.l \in DOMAIN link => x.row.enabled = link[x.l].enabled
  /\ x.pc = "others" /\ x.l \in DOMAIN link => ~link[x.l].enabled
  /\ x.pc = "unmark" =>
       \A l \in DOMAIN link : link[l].dep = x.row.dep => ~link[l].enabled

FlagInv ==
  /\ DependentMarked /\ NoMutualLinks
  /\ "flag" \notin torn => \A o \in Op : Deciding(op[o])

\* A step that leaves links and flags alone, by operations that were not about
\* to mark and that know what they decide on.
LEMMA CalmFlag ==
  ASSUME FlagInv, "flag" \notin torn, UNCHANGED <<link, flag>>,
         \A q \in Op : op'[q] = op[q] \/ (op[q].pc # "mark" /\ Deciding(op'[q]))
  PROVE  FlagInv'
<1>1. \A q \in Op : op'[q] = op[q] => (Deciding(op[q])' <=> Deciding(op[q]))
  BY DEF Deciding
<1>2. \A q \in Op : Deciding(op'[q]) => Deciding(op[q])'
  BY DEF Deciding
<1> QED
  BY <1>1, <1>2 DEF FlagInv, DependentMarked, NoMutualLinks

LEMMA BeginFlag ==
  ASSUME BaseInv, FlagInv, "flag" \notin torn, NEW o \in Op,
         UserRequest(o) \/ \E c \in Acct : ReconcileForConnection(o, c)
  PROVE  FlagInv'
<1>0. op \in [Op -> OpState]
  BY DEF BaseInv, TypeOK
<1>1. Deciding(op'[o])
  <2>1. ASSUME NEW c \in Acct, ReconcileForConnection(o, c)
        PROVE  op'[o].pc = "nextLink"
    BY <1>0, <2>1 DEF ReconcileForConnection, Begin, Idle
  <2>2. ASSUME NEW p \in Acct, NEW d \in Acct, NEW tol \in Tolerance,
               CreateAccountLink(o, p, d, tol)
        PROVE  /\ op'[o].pc = "insertLink"
               /\ \A l \in DOMAIN link :
                    ~(link[l].pri = op'[o].row.dep /\ link[l].dep = op'[o].row.pri)
    <3>1. op'[o].pc = "insertLink" /\ op'[o].row.pri = p /\ op'[o].row.dep = d
      BY <1>0, <2>2 DEF CreateAccountLink, Request, Begin, Idle
    <3> QED
      BY <2>2, <3>1 DEF CreateAccountLink
  <2>3. ASSUME NEW l \in DOMAIN link, NEW enabled, NEW tol,
               UpdateAccountLink(o, l, enabled, tol)
        PROVE  /\ op'[o].pc = "update" /\ op'[o].l = l /\ op'[o].ask = enabled
               /\ op'[o].row.enabled = IF enabled = "unset" THEN link[l].enabled
                                       ELSE enabled = "on"
    <3>1. link[l] \in LinkRow
      BY DEF BaseInv, TypeOK
    <3>2. PICK r : r = [link[l] EXCEPT !.tol = tol,
                          !.enabled = IF enabled = "unset" THEN @ ELSE enabled = "on"]
      OBVIOUS
    <3>3. r.enabled = IF enabled = "unset" THEN link[l].enabled ELSE enabled = "on"
      BY <3>1, <3>2 DEF LinkRow
    <3>4. op'[o] = [Idle EXCEPT !.pc = "update", !.l = l, !.ask = enabled, !.row = r]
      BY <1>0, <2>3, <3>2 DEF UpdateAccountLink, Request, Begin
    <3>5. op'[o].pc = "update" /\ op'[o].l = l /\ op'[o].ask = enabled /\ op'[o].row = r
      BY <3>4 DEF Idle
    <3> QED
      BY <3>3, <3>5
  <2>4. ASSUME NEW l \in DOMAIN link, DeleteAccountLink(o, l)
        PROVE  op'[o].pc = "clearLink"
    BY <1>0, <2>4 DEF DeleteAccountLink, Request, Begin, Idle
  <2>5. ASSUME NEW l \in DOMAIN link, RunMatchReconciliation(o, l)
        PROVE  op'[o].pc = "nextLink"
    BY <1>0, <2>5 DEF RunMatchReconciliation, Request, Begin, Idle
  <2>6. ASSUME NEW l \in DOMAIN link, NEW pair \in ByHand,
               ManualMatch(o, l, pair[1], pair[2])
        PROVE  op'[o].pc = "manual"
    BY <1>0, <2>6 DEF ManualMatch, Request, Begin, Idle
  <2>7. ASSUME NEW m \in DOMAIN match, RejectMatch(o, m)
        PROVE  op'[o].pc = "clearMatch"
    BY <1>0, <2>7 DEF RejectMatch, Request, Begin, Idle
  <2> QED
    BY <2>1, <2>2, <2>3, <2>4, <2>5, <2>6, <2>7 DEF UserRequest, Deciding
<1>2. PICK x : Begin(o, x)
  BY BeginCases
<1>3. /\ op[o].pc = "idle" /\ \A q \in Op \ {o} : op'[q] = op[q]
      /\ UNCHANGED <<link, flag>>
  BY <1>0, <1>2 DEF Begin, dbVars
<1> QED
  BY <1>1, <1>3, CalmFlag

\* The steps of a goroutine that neither mark nor change a link.
LEMMA OtherFlag ==
  ASSUME BaseInv, FlagInv, "flag" \notin torn', NEW o \in Op,
         \/ StillLinked(o) \/ ClearAttributionOfLink(o) \/ ClearAttributionOfMatch(o)
         \/ DropMatch(o) \/ InsertManualMatch(o) \/ ReconcileLink(o) \/ NextRow(o)
         \/ InsertMatch(o) \/ Attribute(o) \/ Abort(o) \/ CarryOn(o)
  PROVE  FlagInv'
<1>0. /\ op[o] \in OpState /\ op \in [Op -> OpState] /\ "flag" \notin torn
      /\ \A q \in Op \ {o} : op'[q] = op[q]
      /\ Deciding(op[o])
  BY OwnMove DEF BaseInv, TypeOK, Step, FlagInv
<1>1. UNCHANGED <<link, flag>>
  BY DEF StillLinked, ClearAttributionOfLink, ClearAttributionOfMatch, DropMatch,
         InsertManualMatch, ReconcileLink, NextRow, InsertMatch, Attribute, Abort, CarryOn,
         Fault, dbVars
<1>2. op[o].pc # "mark"
  <2>1. ASSUME Fault(o) PROVE op[o].pc # "mark"
    BY <2>1 DEF Fault, TornAt
  <2> QED
    BY <2>1 DEF StillLinked, ClearAttributionOfLink, ClearAttributionOfMatch, DropMatch,
         InsertManualMatch, ReconcileLink, NextRow, InsertMatch, Attribute, Abort, CarryOn
<1>3. Deciding(op'[o])
  <2>1. ASSUME Return(o) PROVE op'[o].pc = "idle"
    BY <1>0, <2>1, IdleType DEF Return
  <2>2. ASSUME NEW p, Goto(o, p) PROVE op'[o].pc = p
    BY <1>0, <2>2 DEF Goto, OpState
  <2>3. CASE StillLinked(o)
    <3>1. PICK own \in SUBSET {op[o].l} :
            IF EnabledLinksOf(op[o].row.dep) \ own # {} THEN Return(o) ELSE Goto(o, "unmark")
      BY <2>3 DEF StillLinked
    <3>2. CASE Return(o)
      BY <2>1, <3>2 DEF Deciding
    <3>3. CASE Goto(o, "unmark") /\ EnabledLinksOf(op[o].row.dep) \subseteq {op[o].l}
      <4>1. op'[o].pc = "unmark" /\ op'[o].row = op[o].row
        BY <1>0, <3>3 DEF Goto, OpState
      <4>2. op[o].l \in DOMAIN link => ~link[op[o].l].enabled
        BY <1>0, <2>3 DEF Deciding, StillLinked
      <4>3. \A l \in DOMAIN link : link[l].dep = op[o].row.dep => ~link[l].enabled
        BY <3>3, <4>2 DEF EnabledLinksOf
      <4> QED
        BY <4>1, <4>3 DEF Deciding
    <3> QED
      BY <3>1, <3>2, <3>3
  <2>4. CASE ReconcileLink(o) \/ NextRow(o)
    BY <2>4, ReconcilePc DEF Deciding
  <2>5. CASE Abort(o)
    BY <2>1, <2>5 DEF Abort, Deciding
  <2>6. CASE CarryOn(o)
    <3>1. op[o].pc # "others"
      BY <2>6 DEF CarryOn, Fault, TornAt
    <3>2. RowDone(o) \/ \E d \in Txn : SkipRow(o, d)
      BY <1>0, <2>6, <3>1 DEF CarryOn, OpState
    <3> QED
      BY <3>2, NextRowPc DEF Deciding
  <2>7. CASE \/ ClearAttributionOfLink(o) \/ ClearAttributionOfMatch(o) \/ DropMatch(o)
             \/ InsertManualMatch(o) \/ InsertMatch(o) \/ Attribute(o)
    <3>1. \/ Return(o) \/ (\E p \in {"dropLink", "dropMatch", "attribute"} : Goto(o, p))
          \/ RowDone(o)
      BY <2>7 DEF ClearAttributionOfLink, ClearAttributionOfMatch, DropMatch,
                  InsertManualMatch, InsertMatch, Attribute
    <3> QED
      BY <2>1, <2>2, <3>1, NextRowPc DEF Deciding
  <2> QED
    BY <2>3, <2>4, <2>5, <2>6, <2>7
<1> QED
  BY <1>0, <1>1, <1>2, <1>3, CalmFlag

\* The steps that mark or change a link are taken by the one operation that is
\* about links: the others know nothing that the step could make stale.
LEMMA LoudFlag ==
  ASSUME FlagInv, "flag" \notin torn, NEW o \in Op,
         \A q \in Op \ {o} : op'[q] = op[q] /\ op[q].pc \notin Flagging,
         Deciding(op[o])',
         \A l \in DOMAIN link' :
           link'[l].enabled =>
             flag'[link'[l].dep] \/ (op'[o].pc = "mark" /\ op'[o].row.dep = link'[l].dep),
         NoMutualLinks'
  PROVE  FlagInv'
<1>1. ASSUME NEW q \in Op PROVE Deciding(op[q])'
  <2>1. CASE q = o
    BY <2>1
  <2>2. CASE q # o
    BY <2>2 DEF Deciding, Flagging
  <2> QED
    BY <2>1, <2>2
<1>2. DependentMarked'
  BY DEF DependentMarked
<1> QED
  BY <1>1, <1>2 DEF FlagInv

LEMMA LinkFlag ==
  ASSUME BaseInv, Alone, FlagInv, "flag" \notin torn, NEW o \in Op,
         InsertLink(o) \/ UpdateLinkRow(o) \/ Mark(o) \/ Unmark(o) \/ DropLink(o)
  PROVE  FlagInv'
<1>0. /\ op[o] \in OpState /\ op \in [Op -> OpState] /\ RememberedBy(op[o])
      /\ Deciding(op[o]) /\ op[o].pc \in Flagging
      /\ flag \in [Acct -> BOOLEAN]
      /\ lastLink \in Nat /\ DOMAIN link \subseteq 1 .. lastLink
      /\ \A l \in DOMAIN link : link[l] \in LinkRow
  BY DEF BaseInv, TypeOK, Remembered, FlagInv, InsertLink, UpdateLinkRow, Mark, Unmark,
         DropLink, Flagging
<1>1. \A q \in Op \ {o} : op'[q] = op[q] /\ op[q].pc \notin Flagging
  BY <1>0, OwnMove DEF Alone, Step
<1>2. \A l \in DOMAIN link :
        link[l].enabled =>
          flag[link[l].dep] \/ (op[o].pc = "mark" /\ op[o].row.dep = link[l].dep)
  BY <1>1 DEF FlagInv, DependentMarked, Flagging
<1>3. \A k, l \in DOMAIN link : ~(link[k].pri = link[l].dep /\ link[k].dep = link[l].pri)
  BY DEF FlagInv, NoMutualLinks
<1>4. ASSUME Return(o) PROVE op'[o].pc = "idle"
  BY <1>0, <1>4, IdleType DEF Return
<1>5. ASSUME NEW p, Goto(o, p)
      PROVE  op'[o].pc = p /\ op'[o].l = op[o].l /\ op'[o].row = op[o].row
  BY <1>0, <1>5 DEF Goto, OpState
<1>6. CASE InsertLink(o)
  <2>1. flag' = flag /\ op[o].pc = "insertLink"
    BY <1>6 DEF InsertLink
  <2>2. CASE Return(o) /\ link' = link
    <3>1. Deciding(op[o])'
      BY <1>4, <2>2 DEF Deciding
    <3>2. NoMutualLinks'
      BY <1>3, <2>2 DEF NoMutualLinks
    <3> QED
      BY <1>1, <1>2, <2>1, <2>2, <3>1, <3>2, LoudFlag
  <2>3. CASE /\ link' = With(link, lastLink + 1, op[o].row)
             /\ op' = [op EXCEPT ![o].l = lastLink + 1, ![o].pc = "mark"]
    <3>1. op'[o].pc = "mark" /\ op'[o].row = op[o].row
      BY <1>0, <2>3 DEF OpState
    <3> DEFINE new == lastLink + 1
    <3>2. /\ DOMAIN link' = DOMAIN link \cup {new} /\ link'[new] = op[o].row
          /\ \A l \in DOMAIN link : link'[l] = link[l]
      BY <1>0, <2>3 DEF With
    <3> HIDE DEF new
    <3>3. Deciding(op[o])'
      BY <3>1 DEF Deciding
    <3>4. op[o].row.pri # op[o].row.dep
      BY <1>0, <2>1 DEF RememberedBy
    <3>5. \A l \in DOMAIN link :
            ~(link[l].pri = op[o].row.dep /\ link[l].dep = op[o].row.pri)
      BY <1>0, <2>1 DEF Deciding
    <3>6. NoMutualLinks'
      BY <1>3, <3>2, <3>4, <3>5 DEF NoMutualLinks
    <3>7. \A l \in DOMAIN link' :
            link'[l].enabled =>
              flag'[link'[l].dep] \/ (op'[o].pc = "mark" /\ op'[o].row.dep = link'[l].dep)
      BY <1>2, <2>1, <3>1, <3>2
    <3> QED
      BY <1>1, <3>3, <3>6, <3>7, LoudFlag
  <2> QED
    BY <1>6, <2>2, <2>3 DEF InsertLink
<1>7. CASE UpdateLinkRow(o)
  <2>1. flag' = flag /\ op[o].pc = "update"
    BY <1>7 DEF UpdateLinkRow
  <2>2. CASE op[o].l \notin DOMAIN link
    <3>1. link' = link /\ Return(o)
      BY <1>7, <2>2 DEF UpdateLinkRow
    <3>2. Deciding(op[o])'
      BY <1>4, <3>1 DEF Deciding
    <3>3. NoMutualLinks'
      BY <1>3, <3>1 DEF NoMutualLinks
    <3> QED
      BY <1>1, <1>2, <2>1, <3>1, <3>2, <3>3, LoudFlag
  <2>3. CASE op[o].l \in DOMAIN link
    <3> DEFINE mine == op[o].l
    <3>1. /\ link' = [link EXCEPT ![mine] = op[o].row]
          /\ \/ op[o].ask = "off" /\ Goto(o, "others")
             \/ op[o].ask = "on" /\ Goto(o, "mark")
             \/ op[o].ask = "unset" /\ Return(o)
      BY <1>0, <1>7, <2>3 DEF UpdateLinkRow, OpState
    <3>2. /\ DOMAIN link' = DOMAIN link /\ link'[mine] = op[o].row
          /\ \A l \in DOMAIN link \ {mine} : link'[l] = link[l]
      BY <2>3, <3>1
    <3>3. op[o].row.pri = link[mine].pri /\ op[o].row.dep = link[mine].dep
      BY <1>0, <2>3 DEF RememberedBy
    <3>4. /\ op[o].ask = "off" => ~op[o].row.enabled
          /\ op[o].ask = "unset" => op[o].row.enabled = link[mine].enabled
      BY <1>0, <2>1, <2>3 DEF Deciding
    <3>5. mine \in DOMAIN link
      BY <2>3
    <3> HIDE DEF mine
    <3>6. NoMutualLinks'
      <4>1. \A l \in DOMAIN link' : link'[l].pri = link[l].pri /\ link'[l].dep = link[l].dep
        BY <3>2, <3>3
      <4> QED
        BY <1>3, <3>2, <4>1 DEF NoMutualLinks
    <3>7. Deciding(op[o])'
      BY <1>4, <1>5, <3>1, <3>2, <3>4 DEF Deciding, mine
    <3>8. \A l \in DOMAIN link' :
            link'[l].enabled =>
              flag'[link'[l].dep] \/ (op'[o].pc = "mark" /\ op'[o].row.dep = link'[l].dep)
      BY <1>2, <1>5, <2>1, <3>1, <3>2, <3>3, <3>4, <3>5
    <3> QED
      BY <1>1, <3>6, <3>7, <3>8, LoudFlag
  <2> QED
    BY <2>2, <2>3
<1>8. CASE Mark(o) \/ Unmark(o)
  <2>1. link' = link /\ Return(o)
    BY <1>8 DEF Mark, Unmark
  <2>2. Deciding(op[o])'
    BY <1>4, <2>1 DEF Deciding
  <2>3. NoMutualLinks'
    BY <1>3, <2>1 DEF NoMutualLinks
  <2>4. \A l \in DOMAIN link : link[l].dep \in Acct
    BY <1>0 DEF LinkRow
  <2>5. CASE Mark(o)
    <3>1. flag' = [flag EXCEPT ![op[o].row.dep] = TRUE]
      BY <2>5 DEF Mark
    <3>2. \A l \in DOMAIN link' : link'[l].enabled => flag'[link'[l].dep]
      BY <1>0, <1>2, <2>1, <2>4, <3>1
    <3> QED
      BY <1>1, <2>2, <2>3, <3>2, LoudFlag
  <2>6. CASE Unmark(o)
    <3>1. flag' = [flag EXCEPT ![op[o].row.dep] = FALSE] /\ op[o].pc = "unmark"
      BY <2>6 DEF Unmark
    <3>2. \A l \in DOMAIN link : link[l].dep = op[o].row.dep => ~link[l].enabled
      BY <1>0, <3>1 DEF Deciding
    <3>3. \A l \in DOMAIN link' : link'[l].enabled => flag'[link'[l].dep]
      BY <1>0, <1>2, <2>1, <2>4, <3>1, <3>2
    <3> QED
      BY <1>1, <2>2, <2>3, <3>3, LoudFlag
  <2> QED
    BY <1>8, <2>5, <2>6
<1>9. CASE DropLink(o)
  <2>1. flag' = flag /\ op[o].pc = "dropLink" /\ Goto(o, "others")
    BY <1>9 DEF DropLink
  <2>2. /\ DOMAIN link' = DOMAIN link \ {op[o].l}
        /\ \A l \in DOMAIN link' : link'[l] = link[l]
    BY <1>9 DEF DropLink, Without
  <2>3. Deciding(op[o])'
    BY <1>5, <2>1, <2>2 DEF Deciding
  <2>4. NoMutualLinks'
    BY <1>3, <2>2 DEF NoMutualLinks
  <2>5. \A l \in DOMAIN link' : link'[l].enabled => flag'[link'[l].dep]
    BY <1>2, <2>1, <2>2
  <2> QED
    BY <1>1, <2>3, <2>4, <2>5, LoudFlag
<1> QED
  BY <1>6, <1>7, <1>8, <1>9

LEMMA FlagStep == BaseInv /\ Alone /\ FlagInv /\ [Next]_vars => FlagInv'
<1> SUFFICES ASSUME BaseInv, Alone, FlagInv, [Next]_vars PROVE FlagInv'
  OBVIOUS
<1>1. CASE "flag" \in torn'
  BY <1>1 DEF FlagInv, DependentMarked, NoMutualLinks
<1>2. CASE "flag" \notin torn'
  <2>1. ASSUME NEW o \in Op, UserRequest(o) \/ \E c \in Acct : ReconcileForConnection(o, c)
        PROVE  FlagInv'
    BY <1>2, <2>1, BeginCases, BeginFlag DEF Begin, Tear
  <2>2. ASSUME NEW o \in Op, Step(o) \/ Abort(o) \/ CarryOn(o) PROVE FlagInv'
    <3>1. "flag" \notin torn
      BY <1>2, <2>2, OwnMove
    <3>2. CASE InsertLink(o) \/ UpdateLinkRow(o) \/ Mark(o) \/ Unmark(o) \/ DropLink(o)
      BY <3>1, <3>2, LinkFlag
    <3>3. CASE ~(InsertLink(o) \/ UpdateLinkRow(o) \/ Mark(o) \/ Unmark(o) \/ DropLink(o))
      BY <1>2, <2>2, <3>3, OtherFlag DEF Step
    <3> QED
      BY <3>2, <3>3
  <2>3. CASE \/ \E m \in DOMAIN match : ConfirmMatch(m)
             \/ \E t \in Txn : SoftDelete(t) \/ Restore(t)
             \/ UNCHANGED vars
    <3>1. UNCHANGED <<link, flag, op, torn>>
      BY <2>3 DEF ConfirmMatch, SoftDelete, Restore, vars, dbVars
    <3> QED
      BY <1>2, <3>1, CalmFlag
  <2> QED
    BY <2>1, <2>2, <2>3 DEF Next, PostSync
<1> QED
  BY <1>1, <1>2

LEMMA FlagInit == Init => FlagInv
<1> SUFFICES ASSUME Init PROVE FlagInv
  OBVIOUS
<1> USE AccountLinksAssumption
<1> DEFINE nth == CHOOSE f \in Bijection(1 .. lastLink, Linked) : TRUE
<1>1. \A o \in Op : op[o].pc = "idle"
  BY IdleType DEF Init
<1>2. lastLink = Cardinality(Linked) /\ flag = [a \in Acct |-> \E p \in Linked : p[2] = a]
  BY DEF Init
<1>3. nth \in Bijection(1 .. lastLink, Linked)
  <2>1. ExistsBijection(1 .. lastLink, Linked)
    BY <1>2, FS_CardinalityType
  <2> QED
    BY <2>1, Zenon DEF ExistsBijection
<1>4. PICK tol \in Tolerance :
        link = [l \in 1 .. lastLink |-> [pri |-> nth[l][1], dep |-> nth[l][2],
                                         tol |-> tol, enabled |-> TRUE]]
  BY Zenon DEF Init
<1> HIDE DEF nth
<1>5. nth \in [1 .. lastLink -> Linked]
  BY <1>3, Fun_BijectionProperties, ZenonT(40)
<1>6. \A l \in DOMAIN link : nth[l] \in Linked /\ link[l].pri = nth[l][1] /\ link[l].dep = nth[l][2]
  BY <1>4, <1>5
<1>7. DependentMarked
  BY <1>2, <1>6 DEF DependentMarked
<1>8. NoMutualLinks
  <2>1. ASSUME NEW p \in Linked, NEW q \in Linked, p[1] = q[2], p[2] = q[1] PROVE FALSE
    <3>1. p \in Acct \X Acct
      OBVIOUS
    <3>2. q = <<q[1], q[2]>>
      BY <3>1
    <3> QED
      BY <2>1, <3>2
  <2> QED
    BY <1>6, <2>1 DEF NoMutualLinks
<1> QED
  BY <1>1, <1>7, <1>8 DEF FlagInv, Deciding

\* As long as the operations that change links do not overlap and are not cut
\* off, the dependent of an enabled link is out of the totals.
THEOREM DependentsAreMarked == Spec => []DependentMarked
<1>1. FlagInv => DependentMarked
  BY DEF FlagInv
<1> QED
  BY <1>1, BaseInit, BaseStep, AloneInit, AloneStep, FlagInit, FlagStep, PTL DEF Spec

\* ... and no two accounts are each other's dependent, although the check and
\* the INSERT of a creation are two statements.
THEOREM LinksAreOneWay == Spec => []NoMutualLinks
<1>1. FlagInv => NoMutualLinks
  BY DEF FlagInv
<1> QED
  BY <1>1, BaseInit, BaseStep, AloneInit, AloneStep, FlagInit, FlagStep, PTL DEF Spec
=============================================================================

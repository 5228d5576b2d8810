----------------------------- MODULE RuleApplyProofs -----------------------------
(***************************************************************************)
(* The invariants of RuleApply, for every rule table, every table of rows,   *)
(* every page size and every number of edits: types, the net intent of a     *)
(* sync, the agreement of the lanes, the truth of the annotations, and the   *)
(* accounting of hits and of a retroactive pass.                             *)
(***************************************************************************)
EXTENDS RuleFoldProofs, FiniteSetTheorems, SequenceTheorems

USE DEF tableVars

-----------------------------------------------------------------------------
(* Types                                                                   *)

Note == [ever : SUBSET Tag, on : SUBSET Tag, cat : Category \cup {None}, gone : BOOLEAN,
         silent : BOOLEAN]
Nets(R) == {net \in Net : net.hit \subseteq R}
SyncStates(R) ==
  [pc : {"idle", "loaded", "resolved", "committed", "done"}, rules : Seq(Rule),
   list : SUBSET R, cats : SUBSET Category, t : Nat, isNew : BOOLEAN, base : Row, net : Nets(R)]
RetroStates(R, B) ==
  [pc : {"idle", "scan", "batch", "finish", "done", "failed"}, mode : {"all", "one"},
   rules : Seq(Rule), list : SUBSET R, net : Nets(R), at : Nat, next : {"scan", "finish"},
   batch : [B -> Nets(R)], owed : SUBSET Txn, visited : SUBSET Txn,
   page : [R -> Nat], hits : [R -> Nat]]

TableTyped == /\ rules \in Seq(Rule) /\ enabled \subseteq Rules /\ cats \subseteq Category
              /\ orphans \in BOOLEAN /\ matched \subseteq Txn /\ edits \in 0 .. MaxEdits
RowsTyped == row \in [Txn -> Row] /\ note \in [Txn -> Note]
CountsTyped == hits \in [Rules -> Nat] /\ landed \in [Rules -> Nat]
SyncTyped == /\ sync \in SyncStates(Rules)
             /\ sync.pc = "loaded" => Len(sync.rules) = Len(rules)
RetroTyped == /\ DOMAIN retro.batch \subseteq Txn
              /\ retro \in RetroStates(Rules, DOMAIN retro.batch)
Typed == TableTyped /\ RowsTyped /\ CountsTyped /\ SyncTyped /\ RetroTyped

\* What the intent of a flush is, from the resolve to the commit; meanwhile the
\* lock on the row keeps its category.
SyncInv ==
  /\ sync.net.add \cap sync.net.rem = {} /\ \A k \in sync.net.del : sync.net.set[k] = None
  /\ sync.pc = "resolved" =>
       /\ sync.t \in Txn /\ sync.base.state = "live"
       /\ sync.base.category = row[sync.t].category
       /\ sync.net = ResolveWithContext(sync.rules, sync.list, Context(sync.base), sync.isNew)

\* A row of a batch was live when it was read; and the last category announced is
\* the row's, whatever its state, as long as the category exists and no bulk
\* recategorization set another.
Kept(n, r) == r.state = "live" \/ n.gone
Told(n, r, C) == /\ n.on \subseteq r.tags /\ r.tags \subseteq n.ever
                 /\ ~ n.gone /\ ~ n.silent /\ n.cat \in C => r.category = n.cat
HistoryInv ==
  /\ \A t \in DOMAIN retro.batch : Kept(note[t], row[t])
  /\ \A t \in Txn : Told(note[t], row[t], cats)

\* Matches that have not been counted yet are on rows whose transaction committed,
\* save those of the batch under way.
Pending(i) == IF sync.pc = "committed" /\ i \in sync.net.hit THEN 1 ELSE 0
InBatch(i) == IF retro.pc = "batch" THEN retro.page[i] ELSE 0
HitsOf(i) == /\ InBatch(i) <= retro.hits[i]
             /\ hits[i] + Pending(i) + retro.hits[i] <= landed[i] + InBatch(i)
HitsInv == \A i \in Rules : HitsOf(i)

\* The rows owed a visit are listed, and those not visited lie behind the cursor.
Behind == {t \in Txn : t > retro.at}
OwedInv ==
  /\ retro.owed \subseteq Listed
  /\ retro.pc = "idle" => retro.at = 0
  /\ retro.pc = "scan" \/ (retro.pc = "batch" /\ retro.next = "scan") =>
       retro.owed \subseteq retro.visited \cup Behind
  /\ retro.pc = "finish" \/ (retro.pc = "batch" /\ retro.next = "finish") =>
       retro.owed \subseteq retro.visited

-----------------------------------------------------------------------------
(* Operators                                                               *)

LEMMA PageFinite ==
  ASSUME NEW S, S \subseteq Txn
  PROVE  IsFiniteSet(S) /\ S \subseteq Nat /\ Cardinality(S) \in Nat
<1>1. IsFiniteSet(S)
  BY RuleAssumption, FS_Subset
<1>. QED BY <1>1, RuleAssumption, FS_CardinalityType

\* A finite set of transactions has a last one.
LEMMA LastOfPage ==
  ASSUME NEW page, page \subseteq Txn, page # {}
  PROVE  LastOf(page) \in page /\ \A u \in page : u <= LastOf(page)
<1>. DEFINE above(t) == {u \in page : u > t}
            S == {Cardinality(above(t)) : t \in page}
<1>0. page \subseteq Nat
  BY RuleAssumption
<1>1. \A t \in page : Cardinality(above(t)) \in Nat /\ IsFiniteSet(above(t))
  <2>. TAKE t \in page
  <2>1. above(t) \subseteq Txn
    OBVIOUS
  <2>. QED BY <2>1, PageFinite
<1>2. \E n \in S : \A o \in S : n <= o
  <2>1. S \subseteq Nat /\ S # {}
    BY <1>1
  <2>. HIDE DEF S
  <2>. QED BY <2>1, LeastNatural
<1>3. PICK t \in page : \A u \in page : Cardinality(above(t)) <= Cardinality(above(u))
  BY <1>2
<1>4. ASSUME NEW u \in page, u > t PROVE FALSE
  <2>0. u \in Nat /\ t \in Nat
    BY <1>0
  <2>1. above(u) \subseteq above(t) /\ u \in above(t) \ above(u)
    <3>1. ASSUME NEW v \in page, v > u PROVE v > t
      <4>1. v \in Nat
        BY <1>0
      <4>. QED BY <1>4, <2>0, <3>1, <4>1
    <3>2. u \in above(t) /\ u \notin above(u)
      BY <1>4, <2>0
    <3>. QED BY <3>1, <3>2
  <2>2. Cardinality(above(u)) < Cardinality(above(t))
    <3>. HIDE DEF above
    <3>1. Cardinality(above(u)) <= Cardinality(above(t))
          /\ (Cardinality(above(u)) = Cardinality(above(t)) => above(u) = above(t))
      BY <1>1, <2>1, FS_Subset
    <3>. QED BY <1>1, <2>1, <3>1
  <2>. HIDE DEF above
  <2>. QED BY <1>1, <1>3, <2>2
<1>5. \A u \in page : u <= t
  BY <1>0, <1>4
<1>. QED BY <1>5 DEF LastOf

\* A page is the first part of what is behind the cursor, and a short one is all
\* of it.
Rest == {t \in Listed : t > retro.at}
LEMMA PageIsFirst ==
  ASSUME retro.at \in Nat
  PROVE  /\ NextPage \subseteq Rest /\ Rest \subseteq Txn
         /\ \A t \in Rest \ NextPage : \A u \in NextPage : t > u
         /\ Cardinality(NextPage) < PageSize => NextPage = Rest
<1>. DEFINE under(t) == {u \in Rest : u < t}
<1>1. NextPage = {t \in Rest : Cardinality(under(t)) < PageSize} /\ Rest \subseteq Txn
  BY DEF NextPage, Rest, Listed
<1>0. Rest \subseteq Nat
  BY <1>1, RuleAssumption
<1>2. \A t \in Rest : IsFiniteSet(under(t)) /\ Cardinality(under(t)) \in Nat
  <2>. TAKE t \in Rest
  <2>1. under(t) \subseteq Txn
    BY <1>1
  <2>. QED BY <1>1, <2>1, PageFinite
<1>3. PageSize \in Nat
  BY RuleAssumption
<1>4. ASSUME NEW t \in Rest \ NextPage, NEW u \in NextPage PROVE t > u
  <2>1. u \in Rest /\ Cardinality(under(u)) < PageSize /\ ~ (Cardinality(under(t)) < PageSize)
    BY <1>1
  <2>2. CASE t <= u
    <3>1. under(t) \subseteq under(u)
      <4>1. ASSUME NEW v \in Rest, v < t PROVE v < u
        <5>1. v \in Nat /\ t \in Nat /\ u \in Nat
          BY <1>0, <2>1
        <5>. QED BY <2>2, <4>1, <5>1
      <4>. QED BY <4>1
    <3>. HIDE DEF under
    <3>2. Cardinality(under(t)) <= Cardinality(under(u))
      BY <1>2, <2>1, <3>1, FS_Subset
    <3>. QED BY <1>2, <1>3, <2>1, <3>2
  <2>. QED BY <1>0, <2>1, <2>2
<1>5. ASSUME Cardinality(NextPage) < PageSize, NEW t \in Rest \ NextPage PROVE FALSE
  <2>1. Rest \ NextPage \subseteq Nat
    BY <1>0
  <2>2. PICK m \in Rest \ NextPage : \A u \in Rest \ NextPage : m <= u
    BY <2>1, LeastNatural
  <2>3. under(m) \subseteq NextPage
    <3>. SUFFICES ASSUME NEW u \in Rest, u < m, u \notin NextPage PROVE FALSE
      OBVIOUS
    <3>. QED BY <1>0, <2>2
  <2>4. IsFiniteSet(NextPage) /\ Cardinality(NextPage) \in Nat
    BY <1>1, PageFinite
  <2>5. ~ (Cardinality(under(m)) < PageSize)
    BY <1>1
  <2>. HIDE DEF under
  <2>6. Cardinality(under(m)) <= Cardinality(NextPage)
    BY <2>3, <2>4, FS_Subset
  <2>. QED BY <1>2, <1>3, <1>5, <2>4, <2>5, <2>6
<1>. QED BY <1>1, <1>4, <1>5

LEMMA MaterializeType ==
  ASSUME NEW r \in Row, NEW net \in Net, NEW c \in Category \cup {None}
  PROVE  LET m == Materialize(r, net, c)
         IN  /\ m \in Row /\ m.state = r.state /\ m.tags = (r.tags \cup net.add) \ net.rem
             /\ m.category = IF r.state = "deleted" \/ c = None THEN r.category ELSE c
<1>. DEFINE set == [k \in Key |-> IF net.set[k] # None THEN net.set[k]
                                  ELSE IF k \in net.del THEN None ELSE r.meta[k]]
<1>1. /\ r.state \in {"none", "live", "deleted"} /\ r.tags \subseteq Tag /\ net.add \subseteq Tag
      /\ r.meta \in Meta /\ net.set \in Meta /\ net.flag \in {"flag", "unflag", None}
      /\ r.flag \in BOOLEAN /\ r.category \in Category \cup {None}
      /\ r.series \in Series \cup {None} /\ net.series \in Series \cup {None}
  BY DEF Row, Net, Meta
<1>2. set \in Meta
  BY <1>1 DEF Meta
<1>3. set \in [Key -> Value \cup {None}]
  BY <1>2 DEF Meta
<1>. HIDE DEF set
<1>4. CASE r.state = "deleted"
  BY <1>1, <1>4 DEF Materialize, Row
<1>5. CASE r.state # "deleted"
  <2>. DEFINE tags == (r.tags \cup net.add) \ net.rem
              cat == IF c = None THEN r.category ELSE c
              series == IF r.series = None THEN net.series ELSE r.series
              flag == IF net.flag = None THEN r.flag ELSE net.flag = "flag"
              m == Materialize(r, net, c)
  <2>1. m = [r EXCEPT !.tags = tags, !.category = cat, !.meta = set, !.series = series,
                      !.flag = flag]
    BY <1>5 DEF Materialize, set
  <2>2. /\ flag \in BOOLEAN /\ series \in Series \cup {None} /\ cat \in Category \cup {None}
        /\ tags \in SUBSET Tag
    BY <1>1
  <2>. HIDE DEF tags, cat, series, flag, m
  <2>3. m \in Row /\ m.state = r.state /\ m.tags = tags /\ m.category = cat
    BY <1>3, <2>1, <2>2 DEF Row
  <2>. QED BY <1>5, <2>3 DEF tags, cat, m
<1>. QED BY <1>4, <1>5

\* What the announcements of a write say.
LEMMA SyncNoteIs ==
  ASSUME NEW n \in Note, NEW r \in Row, NEW net \in Net, NEW c \in Category \cup {None}
  PROVE  LET q == SyncNote(n, r, net, c)
         IN  /\ q \in Note /\ q.gone = n.gone /\ q.cat = IF c = None THEN n.cat ELSE c
             /\ q.silent = (n.silent /\ c = None) /\ q.ever = n.ever \cup net.add
             /\ q.on = (n.on \cup (net.add \ n.ever)) \ (net.rem \cap r.tags)
BY DEF SyncNote, Note, Row, Net

LEMMA RetroNoteIs ==
  ASSUME NEW n \in Note, NEW r \in Row, NEW net \in Net
  PROVE  LET q == RetroNote(n, r, net)
         IN  /\ q \in Note /\ q.gone = n.gone
             /\ q.cat = IF net.cat = None THEN n.cat ELSE net.cat
             /\ q.silent = (n.silent /\ net.cat = None)
             /\ q.ever = n.ever \cup (net.add \ r.tags)
             /\ q.on = (n.on \cup (net.add \ r.tags)) \ (net.rem \cap (r.tags \cup net.add))
BY DEF RetroNote, Note, Row, Net

LEMMA CountIs ==
  ASSUME NEW f \in [Rules -> Nat], NEW S
  PROVE  /\ Count(f, S) \in [Rules -> Nat]
         /\ \A i \in Rules : Count(f, S)[i] = f[i] + (IF i \in S THEN 1 ELSE 0)
BY DEF Count

LEMMA PlusIs ==
  ASSUME NEW f \in [Rules -> Nat], NEW g \in [Rules -> Nat]
  PROVE  /\ Plus(f, g) \in [Rules -> Nat]
         /\ \A i \in Rules : Plus(f, g)[i] = f[i] + g[i]
BY DEF Plus

LEMMA MatchesType ==
  ASSUME NEW net, NEW page, page \subseteq Txn
  PROVE  Matches(net, page) \in [Rules -> Nat]
<1>1. ASSUME NEW i \in Rules PROVE Cardinality({t \in page : i \in net[t].hit}) \in Nat
  <2>1. {t \in page : i \in net[t].hit} \subseteq Txn
    OBVIOUS
  <2>. QED BY <2>1, PageFinite
<1>. QED BY <1>1 DEF Matches

LEMMA NoIntentType == NoIntent \in Nets(Rules) /\ NoIntent.hit = {} /\ NoIntent \in Net
<1>1. NoIntent \in Net
  BY AbsentType, StartType
<1>. QED BY <1>1 DEF NoIntent, Nets

LEMMA RestingTypes ==
  /\ NoSync \in SyncStates(Rules)
  /\ NoRetro \in RetroStates(Rules, {}) /\ DOMAIN NoRetro.batch = {}
<1>1. NoBatch \in [{} -> Nets(Rules)] /\ DOMAIN NoBatch = {}
  BY DEF NoBatch
<1>2. NoSync \in SyncStates(Rules)
  BY NoIntentType, AbsentType DEF NoSync, SyncStates
<1>3. [i \in Rules |-> 0] \in [Rules -> Nat]
  OBVIOUS
<1>4. NoRetro \in RetroStates(Rules, {}) /\ NoRetro.batch = NoBatch
  BY <1>1, <1>3, NoIntentType DEF NoRetro, RetroStates
<1>. QED BY <1>1, <1>2, <1>4

LEMMA IntentType ==
  ASSUME Typed, NEW t \in Txn
  PROVE  Intent(t) \in Nets(Rules)
<1>1. /\ row[t] \in Row /\ retro.net \in Nets(Rules) /\ retro.list \subseteq Rules
      /\ retro.rules \in Seq(Rule)
  BY DEF Typed, RowsTyped, RetroTyped, RetroStates
<1>2. BulkIntent(retro.rules, retro.list, RetroContext(row[t]), cats) \in Nets(Rules)
  <2>. DEFINE net == BulkIntent(retro.rules, retro.list, RetroContext(row[t]), cats)
  <2>1. net \in Net /\ net.hit \subseteq retro.list
    BY <1>1, ContextType, RetroIntentType
  <2>. HIDE DEF net
  <2>2. net \in Nets(Rules)
    BY <1>1, <2>1 DEF Nets
  <2>. QED BY <2>2 DEF net
<1>. QED BY <1>1, <1>2, NoIntentType DEF Intent

-----------------------------------------------------------------------------
(* Types are kept                                                          *)

\* A merge of categories points actions elsewhere; rules keep their number and
\* their types.
LEMMA MergeKeepsRules ==
  ASSUME rules \in Seq(Rule), NEW c \in Category, NEW d \in Category, MergeCategories(c, d)
  PROVE  rules' \in Seq(Rule) /\ Len(rules') = Len(rules)
<1>. DEFINE do(i) == [n \in DOMAIN rules[i].do |-> Repoint(rules[i].do[n], c, d)]
<1>1. ASSUME NEW i \in Rules PROVE [rules[i] EXCEPT !.do = do(i)] \in Rule
  <2>1. rules[i] \in Rule /\ rules[i].do \in Seq(Action)
    <3>1. rules[i] \in Rule
      BY DEF Rules
    <3>. QED BY <3>1 DEF Rule
  <2>2. ASSUME NEW a \in Action PROVE Repoint(a, c, d) \in Action
    <3>1. CASE a.type = "set_category" /\ a.arg = c
      BY <3>1 DEF Repoint, Action
    <3>2. CASE ~ (a.type = "set_category" /\ a.arg = c)
      BY <3>2 DEF Repoint
    <3>. QED BY <3>1, <3>2
  <2>3. do(i) \in Seq(Action)
    <3>1. DOMAIN rules[i].do = 1 .. Len(rules[i].do) /\ Len(rules[i].do) \in Nat
          /\ \A n \in DOMAIN rules[i].do : rules[i].do[n] \in Action
      BY <2>1
    <3>2. do(i) \in [1 .. Len(rules[i].do) -> Action]
      BY <2>2, <3>1
    <3>. HIDE DEF do
    <3>. QED BY <3>1, <3>2, SeqDef
  <2>. HIDE DEF do
  <2>. QED BY <2>1, <2>3 DEF Rule
<1>2. rules' = [i \in Rules |-> [rules[i] EXCEPT !.do = do(i)]]
  BY DEF MergeCategories
<1>. HIDE DEF do
<1>3. Len(rules) \in Nat
  OBVIOUS
<1>4. rules' \in [Rules -> Rule]
  BY <1>1, <1>2
<1>. QED BY <1>3, <1>4, SeqDef DEF Rules

\* Every other step leaves the rules alone.
LEMMA RulesStay ==
  ASSUME TableTyped, [Next]_vars
  PROVE  rules' \in Seq(Rule) /\ Rules' = Rules /\ Len(rules') = Len(rules)
<1>. DEFINE Same == rules' \in Seq(Rule) /\ Len(rules') = Len(rules)
<1>0. rules \in Seq(Rule)
  BY DEF TableTyped
<1>1. ASSUME NEW c \in Category, NEW d \in Category, MergeCategories(c, d) PROVE Same
  BY <1>0, <1>1, MergeKeepsRules
<1>2. ASSUME rules' = rules PROVE Same
  BY <1>0, <1>2
<1>. HIDE DEF Same
<1>3. ASSUME Edits PROVE Same
  BY <1>1, <1>2, <1>3
     DEF Edits, Edit, EditRow, SetTransactionCategory, AddTransactionTag,
         RemoveTransactionTag, SetTransactionMetadata, SetTransactionFlag,
         DeleteTransaction, RestoreTransaction, ToggleMatch, BulkRecategorize,
         DeleteCategory, ReassignOrphans, DeleteTag, ToggleRule
<1>4. Same
  BY <1>2, <1>3
     DEF Next, vars, SyncLoad, SyncResolve, SyncCommit, SyncAbort, FlushHitCounts, Begin,
         ApplyAllStart, ApplyRuleStart, ReadPage, CommitBatch, ApplyFails, ApplyFinish
<1>. QED BY <1>4 DEF Same, Rules

LEMMA InitTyped == Init => Typed
<1>. SUFFICES ASSUME Init PROVE Typed
  OBVIOUS
<1>1. row \in [Txn -> Row] /\ rules \in Seq(Rule) /\ 0 \in 0 .. MaxEdits
  BY RuleAssumption DEF Init
<1>2. \A t \in Txn : row[t].tags \subseteq Tag /\ row[t].category \in Category \cup {None}
  BY <1>1 DEF Row
<1>3. RowsTyped
  BY <1>1, <1>2 DEF Init, RowsTyped, Note
<1>4. TableTyped /\ CountsTyped
  BY <1>1 DEF Init, TableTyped, CountsTyped
<1>5. SyncTyped /\ RetroTyped
  BY RestingTypes DEF Init, SyncTyped, RetroTyped, NoSync
<1>. QED BY <1>3, <1>4, <1>5 DEF Typed

LEMMA SyncKeepsTypes ==
  ASSUME Typed, [Next]_vars,
         SyncLoad \/ (\E t \in Txn : SyncResolve(t)) \/ SyncAbort \/ FlushHitCounts
  PROVE  Typed'
<1>. USE DEF Typed
<1>0. rules' \in Seq(Rule) /\ Rules' = Rules /\ Len(rules') = Len(rules)
  BY RulesStay
<1>. USE <1>0
<1>1. CASE SyncLoad
  <2>1. SyncTyped'
    BY <1>1 DEF SyncLoad, SyncTyped, SyncStates, TableTyped
  <2>2. TableTyped' /\ RowsTyped' /\ CountsTyped' /\ RetroTyped'
    BY <1>1 DEF SyncLoad, TableTyped, rowVars, RowsTyped, CountsTyped, RetroTyped
  <2>. QED BY <2>1, <2>2
<1>2. ASSUME NEW t \in Txn, SyncResolve(t) PROVE Typed'
  <2>. DEFINE base == [row[t] EXCEPT !.state = "live"]
              isNew == row[t].state = "none"
              net == ResolveWithContext(sync.rules, sync.list, Context(base), isNew)
  <2>1. base \in Row /\ base.state # "deleted" /\ isNew \in BOOLEAN /\ t \in Nat
    BY RuleAssumption DEF RowsTyped, Row
  <2>2. sync' = [sync EXCEPT !.pc = "resolved", !.t = t, !.base = base, !.isNew = isNew,
                             !.net = net]
    BY <1>2 DEF SyncResolve
  <2>3. net \in Nets(Rules)
    <3>. HIDE DEF base, isNew
    <3>1. /\ sync.rules \in Seq(Rule) /\ Len(sync.rules) = Len(rules)
          /\ net \in Net /\ net.hit \subseteq 1 .. Len(sync.rules)
      BY <1>2, <2>1, SyncIntent DEF SyncResolve, SyncTyped, SyncStates
    <3>. HIDE DEF net
    <3>. QED BY <3>1 DEF Nets, Rules
  <2>. HIDE DEF base, isNew, net
  <2>4. SyncTyped'
    BY <2>1, <2>2, <2>3 DEF SyncTyped, SyncStates
  <2>5. TableTyped' /\ RowsTyped' /\ CountsTyped' /\ RetroTyped'
    BY <1>2 DEF SyncResolve, TableTyped, rowVars, RowsTyped, CountsTyped, RetroTyped
  <2>. QED BY <2>4, <2>5
<1>3. CASE SyncAbort
  <2>1. SyncTyped'
    BY <1>3, RestingTypes DEF SyncAbort, SyncTyped, SyncStates
  <2>2. TableTyped' /\ RowsTyped' /\ CountsTyped' /\ RetroTyped'
    BY <1>3 DEF SyncAbort, TableTyped, rowVars, RowsTyped, CountsTyped, RetroTyped
  <2>. QED BY <2>1, <2>2
<1>4. CASE FlushHitCounts
  <2>1. SyncTyped'
    BY <1>4, RestingTypes DEF FlushHitCounts, SyncTyped, SyncStates
  <2>2. TableTyped' /\ RowsTyped' /\ RetroTyped' /\ landed' = landed
    BY <1>4 DEF FlushHitCounts, TableTyped, rowVars, RowsTyped, RetroTyped
  <2>3. CountsTyped'
    BY <1>4, <2>2, CountIs, SMTT(20) DEF FlushHitCounts, CountsTyped
  <2>. QED BY <2>1, <2>2, <2>3
<1>. QED BY <1>1, <1>2, <1>3, <1>4

LEMMA SyncCommitKeepsTypes ==
  ASSUME Typed, [Next]_vars, SyncInv, SyncCommit
  PROVE  Typed'
<1>. USE DEF Typed
<1>0. rules' \in Seq(Rule) /\ Rules' = Rules /\ Len(rules') = Len(rules)
  BY RulesStay
<1>. USE <1>0
<1>. DEFINE t == sync.t
            now == [sync.base EXCEPT !.tags = row[t].tags]
            m == Materialize(now, sync.net, SyncCategory)
            n == SyncNote(note[t], now, sync.net, SyncCategory)
<1>1. /\ t \in Txn /\ SyncCategory \in Category \cup {None} /\ sync.net \in Net
      /\ sync.net.hit \subseteq Rules /\ sync.base \in Row /\ row[t] \in Row /\ note[t] \in Note
  BY DEF SyncCommit, SyncInv, TableTyped, SyncTyped, SyncStates, Nets, RowsTyped
<1>2. now \in Row
  BY <1>1 DEF Row
<1>3. /\ row' = [row EXCEPT ![t] = m] /\ note' = [note EXCEPT ![t] = n]
      /\ landed' = Count(landed, sync.net.hit)
      /\ sync' = [NoSync EXCEPT !.pc = "committed", !.net.hit = sync.net.hit]
  BY DEF SyncCommit
<1>. HIDE DEF t, now
<1>4. m \in Row /\ n \in Note
  BY <1>1, <1>2, MaterializeType, SyncNoteIs
<1>. HIDE DEF m, n
<1>5. RowsTyped'
  BY <1>1, <1>3, <1>4 DEF RowsTyped
<1>6. SyncTyped'
  <2>1. [NoIntent EXCEPT !.hit = sync.net.hit] \in Nets(Rules)
    BY <1>1, NoIntentType DEF Nets, Net
  <2>2. sync' = [NoSync EXCEPT !.pc = "committed", !.net = [NoIntent EXCEPT !.hit = sync.net.hit]]
    BY <1>3 DEF NoSync
  <2>. QED BY <2>1, <2>2, RestingTypes DEF SyncTyped, SyncStates
<1>7. CountsTyped'
  <2>1. hits' = hits /\ landed' = Count(landed, sync.net.hit)
    BY <1>3 DEF SyncCommit
  <2>2. hits \in [Rules -> Nat] /\ landed \in [Rules -> Nat]
    BY DEF CountsTyped
  <2>3. Count(landed, sync.net.hit) \in [Rules -> Nat]
    BY <2>2, CountIs
  <2>. QED BY <2>1, <2>2, <2>3 DEF CountsTyped
<1>8. TableTyped' /\ RetroTyped'
  BY DEF SyncCommit, TableTyped, RetroTyped
<1>. QED BY <1>5, <1>6, <1>7, <1>8

LEMMA ApplyStartKeepsTypes ==
  ASSUME Typed, [Next]_vars, ApplyAllStart \/ (\E i \in Rules : ApplyRuleStart(i))
  PROVE  Typed'
<1>. USE DEF Typed
<1>0. rules' \in Seq(Rule) /\ Rules' = Rules /\ Len(rules') = Len(rules)
  BY RulesStay
<1>. USE <1>0
<1>1. ASSUME NEW mode \in {"all", "one"}, NEW list \in SUBSET Rules, NEW net \in Nets(Rules),
             Begin(mode, list, net)
      PROVE  Typed'
  <2>1. Listed \subseteq Txn
    BY DEF Listed
  <2>2. RetroTyped'
    BY <1>1, <2>1 DEF Begin, RetroTyped, RetroStates
  <2>3. TableTyped' /\ RowsTyped' /\ CountsTyped' /\ SyncTyped'
    BY <1>1 DEF Begin, TableTyped, rowVars, RowsTyped, CountsTyped, SyncTyped
  <2>. QED BY <2>2, <2>3
<1>2. CASE ApplyAllStart
  <2>1. enabled \in SUBSET Rules
    BY DEF TableTyped
  <2>. QED BY <1>1, <1>2, <2>1, NoIntentType DEF ApplyAllStart
<1>3. ASSUME NEW i \in Rules, ApplyRuleStart(i) PROVE Typed'
  <2>. DEFINE net == SingleIntent(rules, i, cats)
  <2>1. i \in 1 .. Len(rules) /\ rules \in Seq(Rule)
    BY DEF Rules, TableTyped
  <2>2. net \in Net /\ net.hit = {i}
    BY <2>1, SingleIntentType
  <2>3. Begin("one", {i}, net)
    BY <1>3 DEF ApplyRuleStart
  <2>. HIDE DEF net
  <2>4. net \in Nets(Rules)
    BY <2>2 DEF Nets
  <2>. QED BY <1>1, <2>3, <2>4
<1>. QED BY <1>2, <1>3

\* What a page of intents is: the writes of a batch, the matches, the cursor.
LEMMA ReadPageIs ==
  ASSUME Typed, ReadPage
  PROVE  LET page == NextPage
         IN  \E batch \in SUBSET page : \E m \in [Rules -> Nat] :
             \E nets \in [batch -> Nets(Rules)] :
               LET next == IF Cardinality(page) < PageSize THEN "finish" ELSE "scan"
               IN  /\ retro' = [retro EXCEPT
                        !.at = IF page = {} THEN retro.at ELSE LastOf(page),
                        !.pc = IF batch = {} THEN next ELSE "batch", !.next = next,
                        !.batch = nets, !.visited = retro.visited \cup page,
                        !.page = m, !.hits = Plus(retro.hits, m)]
                   /\ landed' = IF batch = {} THEN Plus(landed, m) ELSE landed
<1>. DEFINE page == NextPage
            net == [t \in page |-> Intent(t)]
            batch == {t \in page : Writes(net[t])}
            m == Matches(net, page)
            nets == [t \in batch |-> net[t]]
            next == IF Cardinality(page) < PageSize THEN "finish" ELSE "scan"
<1>1. page \subseteq Txn
  BY DEF NextPage, Listed
<1>2. batch \in SUBSET page
  OBVIOUS
<1>3. m \in [Rules -> Nat]
  BY <1>1, MatchesType
<1>4. nets \in [batch -> Nets(Rules)]
  BY <1>1, IntentType
<1>5. /\ retro' = [retro EXCEPT
           !.at = IF page = {} THEN retro.at ELSE LastOf(page),
           !.pc = IF batch = {} THEN next ELSE "batch", !.next = next,
           !.batch = nets, !.visited = retro.visited \cup page,
           !.page = m, !.hits = Plus(retro.hits, m)]
      /\ landed' = IF batch = {} THEN Plus(landed, m) ELSE landed
  BY DEF ReadPage
<1>. HIDE DEF batch, nets, m, net
<1>. QED BY <1>2, <1>3, <1>4, <1>5

LEMMA ReadPageKeepsTypes ==
  ASSUME Typed, [Next]_vars, ReadPage
  PROVE  Typed'
<1>. USE DEF Typed
<1>0. rules' \in Seq(Rule) /\ Rules' = Rules /\ Len(rules') = Len(rules)
  BY RulesStay
<1>. USE <1>0
<1>. DEFINE page == NextPage
            next == IF Cardinality(page) < PageSize THEN "finish" ELSE "scan"
            at == IF page = {} THEN retro.at ELSE LastOf(page)
<1>1. PICK batch \in SUBSET page, m \in [Rules -> Nat] :
        \E nets \in [batch -> Nets(Rules)] :
          /\ retro' = [retro EXCEPT
               !.at = at, !.pc = IF batch = {} THEN next ELSE "batch", !.next = next,
               !.batch = nets, !.visited = retro.visited \cup page,
               !.page = m, !.hits = Plus(retro.hits, m)]
          /\ landed' = IF batch = {} THEN Plus(landed, m) ELSE landed
  BY ReadPageIs
<1>2. PICK nets \in [batch -> Nets(Rules)] :
          /\ retro' = [retro EXCEPT
               !.at = at, !.pc = IF batch = {} THEN next ELSE "batch", !.next = next,
               !.batch = nets, !.visited = retro.visited \cup page,
               !.page = m, !.hits = Plus(retro.hits, m)]
          /\ landed' = IF batch = {} THEN Plus(landed, m) ELSE landed
  BY <1>1
<1>3. page \subseteq Txn
  BY DEF NextPage, Listed
<1>4. at \in Nat
  <2>1. CASE page = {}
    BY <2>1 DEF RetroTyped, RetroStates
  <2>2. CASE page # {}
    BY <1>3, <2>2, LastOfPage, RuleAssumption
  <2>. QED BY <2>1, <2>2
<1>5. Plus(retro.hits, m) \in [Rules -> Nat] /\ Plus(landed, m) \in [Rules -> Nat]
  <2>1. retro.hits \in [Rules -> Nat] /\ landed \in [Rules -> Nat]
    BY DEF RetroTyped, RetroStates, CountsTyped
  <2>. QED BY <2>1, PlusIs
<1>6. next \in {"scan", "finish"}
  OBVIOUS
<1>. HIDE DEF at, next, page
<1>7. RetroTyped'
  <2>1. DOMAIN nets = batch
    OBVIOUS
  <2>. QED BY <1>2, <1>3, <1>4, <1>5, <1>6, <2>1 DEF RetroTyped, RetroStates
<1>8. CountsTyped'
  BY <1>2, <1>5 DEF CountsTyped, ReadPage
<1>9. TableTyped' /\ RowsTyped' /\ SyncTyped'
  BY DEF ReadPage, TableTyped, rowVars, RowsTyped, SyncTyped
<1>. QED BY <1>7, <1>8, <1>9

\* What the commit of a batch does to each row and its announcements.
LEMMA CommitBatchIs ==
  ASSUME Typed, CommitBatch, NEW t \in Txn
  PROVE  /\ t \notin DOMAIN retro.batch => row'[t] = row[t] /\ note'[t] = note[t]
         /\ t \in DOMAIN retro.batch =>
              /\ row'[t] = Materialize(row[t], retro.batch[t], retro.batch[t].cat)
              /\ note'[t] = RetroNote(note[t], row[t], retro.batch[t])
              /\ retro.batch[t] \in Net /\ retro.batch[t].cat \in Category \cup {None}
              /\ ~ Locked(t)
BY DEF CommitBatch, Typed, RetroTyped, RetroStates, Nets, Net

LEMMA CommitBatchKeepsTypes ==
  ASSUME Typed, [Next]_vars, CommitBatch
  PROVE  Typed'
<1>. USE DEF Typed
<1>0. rules' \in Seq(Rule) /\ Rules' = Rules /\ Len(rules') = Len(rules)
  BY RulesStay
<1>. USE <1>0
<1>1. ASSUME NEW t \in Txn PROVE row'[t] \in Row /\ note'[t] \in Note
  <2>1. row[t] \in Row /\ note[t] \in Note
    BY DEF RowsTyped
  <2>2. CASE t \in DOMAIN retro.batch
    BY <2>1, <2>2, CommitBatchIs, MaterializeType, RetroNoteIs
  <2>. QED BY <2>1, <2>2, CommitBatchIs
<1>2. row' = [t \in Txn |-> row'[t]] /\ note' = [t \in Txn |-> note'[t]]
  BY DEF CommitBatch
<1>3. RowsTyped'
  BY <1>1, <1>2 DEF RowsTyped
<1>4. CountsTyped'
  BY PlusIs DEF CommitBatch, CountsTyped, RetroTyped, RetroStates
<1>5. RetroTyped'
  BY RestingTypes DEF CommitBatch, RetroTyped, RetroStates, NoBatch
<1>6. TableTyped' /\ SyncTyped'
  BY DEF CommitBatch, TableTyped, SyncTyped
<1>. QED BY <1>3, <1>4, <1>5, <1>6

LEMMA ApplyEndKeepsTypes ==
  ASSUME Typed, [Next]_vars, ApplyFails \/ ApplyFinish
  PROVE  Typed'
<1>. USE DEF Typed
<1>0. rules' \in Seq(Rule) /\ Rules' = Rules /\ Len(rules') = Len(rules)
  BY RulesStay
<1>. USE <1>0
<1>1. RetroTyped'
  BY RestingTypes DEF ApplyFails, ApplyFinish, RetroTyped, RetroStates
<1>2. TableTyped' /\ RowsTyped' /\ SyncTyped' /\ landed' = landed
  BY DEF ApplyFails, ApplyFinish, TableTyped, rowVars, RowsTyped, SyncTyped
<1>3. hits' \in [Rules -> Nat]
  <2>1. CASE ApplyFails
    BY <2>1 DEF ApplyFails, CountsTyped
  <2>2. CASE ApplyFinish
    <3>1. PICK S \in SUBSET Rules :
            hits' = [i \in Rules |-> hits[i] + (IF i \in S THEN retro.hits[i] ELSE 0)]
      BY <2>2 DEF ApplyFinish
    <3>2. \A i \in Rules : hits[i] \in Nat /\ retro.hits[i] \in Nat
      BY DEF CountsTyped, RetroTyped, RetroStates
    <3>3. \A i \in Rules : hits[i] + (IF i \in S THEN retro.hits[i] ELSE 0) \in Nat
      BY <3>2
    <3>. QED BY <3>1, <3>3
  <2>. QED BY <2>1, <2>2
<1>. QED BY <1>1, <1>2, <1>3 DEF CountsTyped

\* What an edit of a row does to the rows and their announcements.
LEMMA EditRowIs ==
  ASSUME Typed, NEW u \in Txn, NEW r, NEW n, EditRow(u, r, n), NEW t \in Txn
  PROVE  /\ row'[t] = IF t = u THEN r ELSE row[t]
         /\ note'[t] = IF t = u THEN n ELSE note[t]
BY DEF EditRow, Typed, RowsTyped

\* No edit takes a row out of its type, the category from a locked row, or a live
\* row away without deleting it.
Spared(t) ==
  /\ row'[t] \in Row /\ note'[t] \in Note
  /\ Locked(t) => row'[t].category = row[t].category
  /\ row[t].state = "live" /\ ~ DeleteTransaction(t) => row'[t].state = "live"

LEMMA EditRowSpares ==
  ASSUME Typed, NEW u \in Txn, NEW r \in Row, NEW n \in Note, EditRow(u, r, n),
         r.state = row[u].state \/ r.state = "live",
         r.category = row[u].category \/ ~ Locked(u), NEW t \in Txn
  PROVE  Spared(t)
BY EditRowIs DEF Spared, Typed, RowsTyped

LEMMA EditsSpare ==
  ASSUME Typed, Edits, NEW t \in Txn
  PROVE  Spared(t)
<1>1. ASSUME NEW u \in Txn PROVE row[u] \in Row /\ note[u] \in Note
  BY DEF Typed, RowsTyped
<1>2. ASSUME NEW u \in Txn, NEW c \in Category, SetTransactionCategory(u, c) PROVE Spared(t)
  <2>. DEFINE r == [row[u] EXCEPT !.category = c]
              n == [note[u] EXCEPT !.cat = c, !.silent = FALSE]
  <2>1. r \in Row /\ n \in Note /\ r.state = row[u].state
    BY <1>1 DEF Row, Note
  <2>2. EditRow(u, r, n) /\ ~ Locked(u)
    BY <1>2 DEF SetTransactionCategory
  <2>. HIDE DEF r, n
  <2>. QED BY <2>1, <2>2, EditRowSpares
<1>3. ASSUME NEW u \in Txn, NEW x \in Tag, AddTransactionTag(u, x) PROVE Spared(t)
  <2>. DEFINE r == [row[u] EXCEPT !.tags = @ \cup {x}]
              n == [note[u] EXCEPT !.ever = @ \cup {x}, !.on = @ \cup {x}]
  <2>1. r \in Row /\ n \in Note /\ r.state = row[u].state /\ r.category = row[u].category
    BY <1>1 DEF Row, Note
  <2>2. EditRow(u, r, n)
    BY <1>3 DEF AddTransactionTag
  <2>. HIDE DEF r, n
  <2>. QED BY <2>1, <2>2, EditRowSpares
<1>4. ASSUME NEW u \in Txn, NEW x \in Tag, RemoveTransactionTag(u, x) PROVE Spared(t)
  <2>. DEFINE r == [row[u] EXCEPT !.tags = @ \ {x}]
              n == [note[u] EXCEPT !.on = @ \ {x}]
  <2>1. r \in Row /\ n \in Note /\ r.state = row[u].state /\ r.category = row[u].category
    BY <1>1 DEF Row, Note
  <2>2. EditRow(u, r, n)
    BY <1>4 DEF RemoveTransactionTag
  <2>. HIDE DEF r, n
  <2>. QED BY <2>1, <2>2, EditRowSpares
<1>5. ASSUME NEW u \in Txn, NEW k \in Key, NEW v \in Value \cup {None},
             SetTransactionMetadata(u, k, v)
      PROVE  Spared(t)
  <2>. DEFINE r == [row[u] EXCEPT !.meta[k] = v]
  <2>1. r \in Row /\ r.state = row[u].state /\ r.category = row[u].category
    BY <1>1 DEF Row
  <2>2. EditRow(u, r, note[u])
    BY <1>5 DEF SetTransactionMetadata
  <2>. HIDE DEF r
  <2>. QED BY <1>1, <2>1, <2>2, EditRowSpares
<1>6. ASSUME NEW u \in Txn, NEW f \in BOOLEAN, SetTransactionFlag(u, f) PROVE Spared(t)
  <2>. DEFINE r == [row[u] EXCEPT !.flag = f]
  <2>1. r \in Row /\ r.state = row[u].state /\ r.category = row[u].category
    BY <1>1 DEF Row
  <2>2. EditRow(u, r, note[u])
    BY <1>6 DEF SetTransactionFlag
  <2>. HIDE DEF r
  <2>. QED BY <1>1, <2>1, <2>2, EditRowSpares
<1>7. ASSUME NEW u \in Txn, RestoreTransaction(u) PROVE Spared(t)
  <2>. DEFINE r == [row[u] EXCEPT !.state = "live"]
  <2>1. r \in Row /\ r.state = "live" /\ r.category = row[u].category
    BY <1>1 DEF Row
  <2>2. EditRow(u, r, note[u])
    BY <1>7 DEF RestoreTransaction
  <2>. HIDE DEF r
  <2>. QED BY <1>1, <2>1, <2>2, EditRowSpares
<1>8. ASSUME NEW u \in Txn, DeleteTransaction(u) PROVE Spared(t)
  <2>1. /\ row'[t] = IF t = u THEN [row[t] EXCEPT !.state = "deleted"] ELSE row[t]
        /\ note'[t] = IF t = u THEN [note[t] EXCEPT !.gone = TRUE] ELSE note[t]
    BY <1>8 DEF DeleteTransaction, Typed, RowsTyped
  <2>2. /\ [row[t] EXCEPT !.state = "deleted"] \in Row
        /\ [row[t] EXCEPT !.state = "deleted"].category = row[t].category
        /\ [note[t] EXCEPT !.gone = TRUE] \in Note
    BY <1>1 DEF Row, Note
  <2>. QED BY <1>1, <1>8, <2>1, <2>2 DEF Spared
<1>9. ASSUME NEW r \in Row, NEW d \in Category \cup {None}
      PROVE  LET q == [r EXCEPT !.category = d]
             IN q \in Row /\ q.state = r.state /\ q.category = d
  BY DEF Row
<1>10. ASSUME NEW S \in SUBSET Txn, NEW c \in Category, BulkRecategorize(S, c)
       PROVE  Spared(t)
  <2>1. /\ row'[t] = IF t \in S THEN [row[t] EXCEPT !.category = c] ELSE row[t]
        /\ note'[t] = IF t \in S THEN [note[t] EXCEPT !.silent = TRUE] ELSE note[t]
        /\ t \in S => ~ Locked(t)
    BY <1>10 DEF BulkRecategorize
  <2>2. [note[t] EXCEPT !.silent = TRUE] \in Note
    BY <1>1 DEF Note
  <2>. QED BY <1>1, <1>9, <2>1, <2>2 DEF Spared
<1>11. ASSUME NEW c \in Category, DeleteCategory(c) PROVE Spared(t)
  <2>1. /\ row'[t] = Cleared(row[t], c) /\ note' = note
        /\ row[t].category = c => ~ Locked(t)
    BY <1>11 DEF DeleteCategory
  <2>. QED BY <1>1, <1>9, <2>1 DEF Spared, Cleared
<1>12. CASE ReassignOrphans
  <2>1. CASE row' = row
    BY <1>1, <1>12, <2>1 DEF ReassignOrphans, Spared
  <2>2. CASE row' # row
    <3>1. /\ row'[t] = IF t \in Orphans THEN [row[t] EXCEPT !.category = Uncategorized]
                       ELSE row[t]
          /\ note' = note /\ (t \in Orphans => ~ Locked(t)) /\ Uncategorized \in Category
      BY <1>12, <2>2, RuleAssumption DEF ReassignOrphans
    <3>. QED BY <1>1, <1>9, <3>1 DEF Spared
  <2>. QED BY <2>1, <2>2
<1>13. ASSUME NEW c \in Category, NEW d \in Category, MergeCategories(c, d) PROVE Spared(t)
  <2>1. /\ row'[t] = IF row[t].category = c /\ row[t].state = "live"
                     THEN [row[t] EXCEPT !.category = d] ELSE Cleared(row[t], c)
        /\ note' = note
        /\ row[t].category = c => ~ Locked(t)
    BY <1>13 DEF MergeCategories
  <2>2. CASE row[t].category = c /\ row[t].state = "live"
    BY <1>1, <1>9, <2>1, <2>2 DEF Spared
  <2>3. CASE ~ (row[t].category = c /\ row[t].state = "live")
    BY <1>1, <1>9, <2>1, <2>3 DEF Spared, Cleared
  <2>. QED BY <2>2, <2>3
<1>14. ASSUME NEW x \in Tag, DeleteTag(x) PROVE Spared(t)
  <2>1. /\ row'[t] = [row[t] EXCEPT !.tags = row[t].tags \ {x}]
        /\ note'[t] = [note[t] EXCEPT !.ever = note[t].ever \ {x}, !.on = note[t].on \ {x}]
    BY <1>14 DEF DeleteTag
  <2>2. row'[t] \in Row /\ row'[t].state = row[t].state /\ row'[t].category = row[t].category
    BY <1>1, <2>1 DEF Row
  <2>3. note'[t] \in Note
    BY <1>1, <2>1, ZenonT(40) DEF Note
  <2>. QED BY <2>2, <2>3 DEF Spared
<1>15. CASE (\E u \in Txn : ToggleMatch(u)) \/ (\E i \in Rules : ToggleRule(i))
  BY <1>1, <1>15 DEF ToggleMatch, ToggleRule, rowVars, Spared
<1>. QED BY <1>2, <1>3, <1>4, <1>5, <1>6, <1>7, <1>8, <1>10, <1>11, <1>12, <1>13, <1>14, <1>15
         DEF Edits

\* Edits write rows of their own and leave the flush, the counts and, save for what
\* it owes, the retroactive apply alone.
Drops(t) == DeleteTransaction(t) \/ ToggleMatch(t)
LEMMA EditsLeave ==
  ASSUME Edits
  PROVE  /\ hits' = hits /\ landed' = landed /\ sync' = sync
         /\ \/ retro' = retro
            \/ \E t \in Txn : Drops(t) /\ retro' = [retro EXCEPT !.owed = retro.owed \ {t}]
BY DEF Edits, Edit, EditRow, SetTransactionCategory, AddTransactionTag,
       RemoveTransactionTag, SetTransactionMetadata, SetTransactionFlag,
       DeleteTransaction, RestoreTransaction, ToggleMatch, BulkRecategorize,
       DeleteCategory, ReassignOrphans, MergeCategories, DeleteTag, ToggleRule, Drops

LEMMA EditsMapRows ==
  ASSUME Typed, Edits
  PROVE  row' = [t \in Txn |-> row'[t]] /\ note' = [t \in Txn |-> note'[t]]
<1>1. row = [t \in Txn |-> row[t]] /\ note = [t \in Txn |-> note[t]]
  BY DEF Typed, RowsTyped
<1>2. ASSUME NEW u \in Txn, NEW r, NEW n, EditRow(u, r, n)
      PROVE  row' = [t \in Txn |-> row'[t]] /\ note' = [t \in Txn |-> note'[t]]
  BY <1>2 DEF EditRow, Typed, RowsTyped
<1>3. ASSUME NEW u \in Txn, DeleteTransaction(u)
      PROVE  row' = [t \in Txn |-> row'[t]] /\ note' = [t \in Txn |-> note'[t]]
  BY <1>3 DEF DeleteTransaction, Typed, RowsTyped
<1>4. CASE \/ \E S \in SUBSET Txn, c \in Category : BulkRecategorize(S, c)
           \/ \E c \in Category : DeleteCategory(c)
           \/ \E c \in Category, d \in Category : MergeCategories(c, d)
           \/ \E x \in Tag : DeleteTag(x)
  BY <1>1, <1>4 DEF BulkRecategorize, DeleteCategory, MergeCategories, DeleteTag
<1>5. CASE ReassignOrphans
  BY <1>1, <1>5 DEF ReassignOrphans
<1>6. CASE (\E u \in Txn : ToggleMatch(u)) \/ (\E i \in Rules : ToggleRule(i))
  BY <1>1, <1>6 DEF ToggleMatch, ToggleRule, rowVars
<1>. QED BY <1>2, <1>3, <1>4, <1>5, <1>6
         DEF Edits, SetTransactionCategory, AddTransactionTag, RemoveTransactionTag,
             SetTransactionMetadata, SetTransactionFlag, RestoreTransaction

LEMMA EditsKeepTables ==
  ASSUME Typed, Edits
  PROVE  /\ enabled' \subseteq Rules /\ cats' \subseteq Category /\ orphans' \in BOOLEAN
         /\ matched' \subseteq Txn /\ edits' \in 0 .. MaxEdits
<1>1. edits \in 0 .. MaxEdits /\ MaxEdits \in Nat
  BY RuleAssumption DEF Typed, TableTyped
<1>2. edits' = edits \/ (edits < MaxEdits /\ edits' = edits + 1)
  BY DEF Edits, Edit, EditRow, SetTransactionCategory, AddTransactionTag,
         RemoveTransactionTag, SetTransactionMetadata, SetTransactionFlag,
         DeleteTransaction, RestoreTransaction, ToggleMatch, BulkRecategorize,
         DeleteCategory, ReassignOrphans, MergeCategories, DeleteTag, ToggleRule
<1>3. edits' \in 0 .. MaxEdits
  BY <1>1, <1>2
<1>4. /\ enabled' \subseteq Rules /\ cats' \subseteq Category /\ orphans' \in BOOLEAN
      /\ matched' \subseteq Txn
  BY DEF Edits, EditRow, SetTransactionCategory, AddTransactionTag,
         RemoveTransactionTag, SetTransactionMetadata, SetTransactionFlag,
         DeleteTransaction, RestoreTransaction, ToggleMatch, BulkRecategorize,
         DeleteCategory, ReassignOrphans, MergeCategories, DeleteTag, ToggleRule,
         Typed, TableTyped
<1>. QED BY <1>3, <1>4

LEMMA EditsKeepTypes ==
  ASSUME Typed, [Next]_vars, Edits
  PROVE  Typed'
<1>1. rules' \in Seq(Rule) /\ Rules' = Rules /\ Len(rules') = Len(rules)
  BY RulesStay DEF Typed
<1>2. RowsTyped'
  <2>1. \A t \in Txn : row'[t] \in Row /\ note'[t] \in Note
    BY EditsSpare DEF Spared
  <2>. QED BY <2>1, EditsMapRows DEF RowsTyped
<1>3. TableTyped'
  BY <1>1, EditsKeepTables DEF TableTyped
<1>4. CountsTyped' /\ SyncTyped'
  BY <1>1, EditsLeave DEF Typed, CountsTyped, SyncTyped
<1>5. RetroTyped'
  BY <1>1, EditsLeave DEF Typed, RetroTyped, RetroStates
<1>. QED BY <1>2, <1>3, <1>4, <1>5 DEF Typed

LEMMA NextTyped == Typed /\ SyncInv /\ [Next]_vars => Typed'
<1>. SUFFICES ASSUME Typed, SyncInv, [Next]_vars PROVE Typed'
  OBVIOUS
<1>1. CASE UNCHANGED vars
  BY <1>1 DEF vars, rowVars, Typed, TableTyped, RowsTyped, CountsTyped, SyncTyped,
             RetroTyped, Rules
<1>. QED BY <1>1, SyncKeepsTypes, SyncCommitKeepsTypes, ApplyStartKeepsTypes,
            ReadPageKeepsTypes, CommitBatchKeepsTypes, ApplyEndKeepsTypes, EditsKeepTypes
         DEF Next

-----------------------------------------------------------------------------
(* The intent of a flush                                                   *)

LEMMA InitSync == Init => SyncInv
BY DEF Init, SyncInv, NoSync, NoIntent

\* Nothing is both written and removed.
Apart(net) == net.add \cap net.rem = {} /\ \A k \in net.del : net.set[k] = None
LEMMA SyncIntentParts ==
  ASSUME NEW p \in Seq(Rule), NEW list, NEW base \in Row, base.state # "deleted", NEW isNew,
         NEW net, net = ResolveWithContext(p, list, Context(base), isNew)
  PROVE  Apart(net)
BY SyncIntent, SMTT(20) DEF Apart

\* The lock on the row keeps the category the flush found.
LEMMA LockKeepsCategory ==
  ASSUME Typed, Next, NEW t \in Txn, Locked(t), sync' = sync
  PROVE  row'[t].category = row[t].category
<1>1. CASE row' = row
  BY <1>1
<1>2. CASE CommitBatch
  BY <1>2, CommitBatchIs
<1>3. CASE Edits
  BY <1>3, EditsSpare DEF Spared
<1>4. CASE SyncCommit
  <2>1. sync'.pc # sync.pc
    BY <1>4 DEF SyncCommit, NoSync
  <2>. QED BY <2>1
<1>. QED BY <1>1, <1>2, <1>3, <1>4
         DEF Next, SyncLoad, SyncResolve, SyncAbort, FlushHitCounts, Begin, ApplyAllStart,
             ApplyRuleStart, ReadPage, ApplyFails, ApplyFinish, rowVars

\* The actions of the flush are the only ones that change what it holds.
LEMMA OnlyFlushWritesSync ==
  ASSUME Next
  PROVE  \/ SyncLoad \/ (\E t \in Txn : SyncResolve(t)) \/ SyncCommit \/ SyncAbort
         \/ FlushHitCounts \/ sync' = sync
BY EditsLeave DEF Next, Begin, ApplyAllStart, ApplyRuleStart, ReadPage, CommitBatch,
                  ApplyFails, ApplyFinish

LEMMA NextSync == Typed /\ SyncInv /\ [Next]_vars => SyncInv'
<1>. SUFFICES ASSUME Typed, SyncInv, [Next]_vars PROVE SyncInv'
  OBVIOUS
<1>1. NoIntent.add \cap NoIntent.rem = {} /\ NoIntent.del = {}
  BY DEF NoIntent
<1>2. CASE SyncLoad
  BY <1>2 DEF SyncLoad, SyncInv, Typed, SyncTyped, SyncStates
<1>3. ASSUME NEW t \in Txn, SyncResolve(t) PROVE SyncInv'
  <2>. DEFINE base == [row[t] EXCEPT !.state = "live"]
              isNew == row[t].state = "none"
              net == ResolveWithContext(sync.rules, sync.list, Context(base), isNew)
  <2>1. base \in Row /\ base.state = "live" /\ base.category = row[t].category
    BY DEF Typed, RowsTyped, Row
  <2>2. /\ sync' = [sync EXCEPT !.pc = "resolved", !.t = t, !.base = base, !.isNew = isNew,
                                !.net = net]
        /\ row' = row
    BY <1>3 DEF SyncResolve, rowVars
  <2>3. net.add \cap net.rem = {} /\ \A k \in net.del : net.set[k] = None
    <3>. HIDE DEF base, isNew
    <3>1. sync.rules \in Seq(Rule) /\ base \in Row /\ base.state # "deleted"
      BY <2>1 DEF Typed, SyncTyped, SyncStates
    <3>2. Apart(net)
      <4>. HIDE DEF net
      <4>1. net = ResolveWithContext(sync.rules, sync.list, Context(base), isNew)
        BY DEF net
      <4>. QED BY <3>1, <4>1, SyncIntentParts
    <3>. QED BY <3>2 DEF Apart
  <2>4. /\ sync'.t = t /\ sync'.base = base /\ sync'.isNew = isNew /\ sync'.net = net
        /\ sync'.list = sync.list /\ sync'.rules = sync.rules
    BY <2>2 DEF Typed, SyncTyped, SyncStates
  <2>5. net = ResolveWithContext(sync'.rules, sync'.list, Context(sync'.base), sync'.isNew)
    BY <2>2, <2>4
  <2>. HIDE DEF base, isNew, net
  <2>. QED BY <2>1, <2>2, <2>3, <2>4, <2>5 DEF SyncInv
<1>4. CASE SyncCommit
  BY <1>1, <1>4 DEF SyncCommit, SyncInv, NoSync, NoIntent
<1>5. CASE SyncAbort
  BY <1>1, <1>5 DEF SyncAbort, SyncInv, NoSync
<1>6. CASE FlushHitCounts
  BY <1>1, <1>6 DEF FlushHitCounts, SyncInv, NoSync
<1>7. CASE Next /\ sync' = sync
  <2>2. sync.pc = "resolved" => Locked(sync.t)
    BY DEF Locked
  <2>3. sync.pc = "resolved" => row'[sync.t].category = row[sync.t].category
    BY <1>7, <2>2, LockKeepsCategory DEF SyncInv
  <2>. QED BY <1>7, <2>3 DEF SyncInv
<1>8. CASE UNCHANGED vars
  BY <1>8 DEF vars, rowVars, SyncInv
<1>. QED BY <1>2, <1>3, <1>4, <1>5, <1>6, <1>7, <1>8, OnlyFlushWritesSync

-----------------------------------------------------------------------------
(* Annotations and rows                                                    *)

LEMMA InitHistory == Init => HistoryInv
<1>. SUFFICES ASSUME Init PROVE HistoryInv
  OBVIOUS
<1>1. DOMAIN retro.batch = {}
  BY RestingTypes DEF Init
<1>2. \A t \in Txn : Told(note[t], row[t], cats)
  BY DEF Init, Told
<1>. QED BY <1>1, <1>2 DEF HistoryInv

\* The writes of a flush and what it announces.
LEMMA SyncTells ==
  ASSUME NEW n \in Note, NEW r \in Row, r.state = "live",
         NEW net \in Net, net.add \cap net.rem = {},
         NEW c \in Category \cup {None}, NEW C, Told(n, r, C)
  PROVE  /\ Told(SyncNote(n, r, net, c), Materialize(r, net, c), C)
         /\ Kept(SyncNote(n, r, net, c), Materialize(r, net, c))
<1>. DEFINE m == Materialize(r, net, c)
            q == SyncNote(n, r, net, c)
<1>1. /\ m.state = "live" /\ m.tags = (r.tags \cup net.add) \ net.rem
      /\ m.category = IF c = None THEN r.category ELSE c
  BY MaterializeType
<1>2. /\ q.gone = n.gone /\ q.cat = IF c = None THEN n.cat ELSE c
      /\ q.silent = (n.silent /\ c = None)
      /\ q.ever = n.ever \cup net.add
      /\ q.on = (n.on \cup (net.add \ n.ever)) \ (net.rem \cap r.tags)
  BY SyncNoteIs
<1>. HIDE DEF m, q
<1>3. Kept(q, m)
  BY <1>1 DEF Kept
<1>4. q.on \subseteq m.tags /\ m.tags \subseteq q.ever
  BY <1>1, <1>2 DEF Told
<1>5. ~ q.gone /\ ~ q.silent /\ q.cat \in C => m.category = q.cat
  BY <1>1, <1>2 DEF Told
<1>. QED BY <1>3, <1>4, <1>5 DEF Told, m, q

\* The writes of a batch and what it announces, whether or not the row is there.
LEMMA RetroTells ==
  ASSUME NEW n \in Note, NEW r \in Row, NEW net \in Net, NEW C, Told(n, r, C), Kept(n, r)
  PROVE  /\ Told(RetroNote(n, r, net), Materialize(r, net, net.cat), C)
         /\ Kept(RetroNote(n, r, net), Materialize(r, net, net.cat))
<1>. DEFINE m == Materialize(r, net, net.cat)
            q == RetroNote(n, r, net)
<1>1. /\ m.state = r.state /\ m.tags = (r.tags \cup net.add) \ net.rem
      /\ m.category = IF r.state = "deleted" \/ net.cat = None THEN r.category ELSE net.cat
  <2>1. net.cat \in Category \cup {None}
    BY DEF Net
  <2>. QED BY <2>1, MaterializeType
<1>2. /\ q.gone = n.gone /\ q.cat = IF net.cat = None THEN n.cat ELSE net.cat
      /\ q.silent = (n.silent /\ net.cat = None)
      /\ q.ever = n.ever \cup (net.add \ r.tags)
      /\ q.on = (n.on \cup (net.add \ r.tags)) \ (net.rem \cap (r.tags \cup net.add))
  BY RetroNoteIs
<1>. HIDE DEF m, q
<1>3. Kept(q, m)
  BY <1>1, <1>2 DEF Kept
<1>4. q.on \subseteq m.tags /\ m.tags \subseteq q.ever
  BY <1>1, <1>2 DEF Told
<1>5. ~ q.gone /\ ~ q.silent /\ q.cat \in C => m.category = q.cat
  BY <1>1, <1>2 DEF Told, Kept
<1>. QED BY <1>3, <1>4, <1>5 DEF Told, m, q

\* Every action tells the truth of the rows it writes, and a row that is no longer
\* live was deleted by somebody who said so.
Tells(t) == /\ Told(note'[t], row'[t], cats')
            /\ Kept(note[t], row[t]) => Kept(note'[t], row'[t])

LEMMA SyncCommitTells ==
  ASSUME Typed, SyncInv, HistoryInv, SyncCommit, NEW t \in Txn
  PROVE  Tells(t)
<1>. DEFINE now == [sync.base EXCEPT !.tags = row[t].tags]
            c == SyncCategory
<1>1. /\ row[t] \in Row /\ note[t] \in Note /\ sync.net \in Net /\ sync.base \in Row
      /\ c \in Category \cup {None} /\ sync.t \in Txn /\ cats' = cats
      /\ row' = [row EXCEPT ![sync.t] =
                   Materialize([sync.base EXCEPT !.tags = row[sync.t].tags], sync.net, c)]
      /\ note' = [note EXCEPT ![sync.t] =
                   SyncNote(note[sync.t], [sync.base EXCEPT !.tags = row[sync.t].tags],
                            sync.net, c)]
  BY DEF Typed, TableTyped, RowsTyped, SyncTyped, SyncStates, Nets, SyncCommit, SyncInv
<1>2. Told(note[t], row[t], cats)
  BY DEF HistoryInv
<1>3. CASE t = sync.t
  <2>1. /\ now \in Row /\ now.state = "live" /\ now.tags = row[t].tags
        /\ now.category = row[t].category
    BY <1>1, <1>3 DEF SyncCommit, SyncInv, Row
  <2>2. Told(note[t], now, cats)
    BY <1>2, <2>1 DEF Told
  <2>3. row'[t] = Materialize(now, sync.net, c) /\ note'[t] = SyncNote(note[t], now, sync.net, c)
    BY <1>1, <1>3 DEF Typed, RowsTyped
  <2>4. sync.net.add \cap sync.net.rem = {}
    BY DEF SyncInv
  <2>. HIDE DEF now, c
  <2>. QED BY <1>1, <2>1, <2>2, <2>3, <2>4, SyncTells DEF Tells
<1>4. CASE t # sync.t
  BY <1>1, <1>2, <1>4 DEF Typed, RowsTyped, Tells
<1>. QED BY <1>3, <1>4

LEMMA CommitBatchTells ==
  ASSUME Typed, HistoryInv, CommitBatch, NEW t \in Txn
  PROVE  Tells(t)
<1>1. row[t] \in Row /\ note[t] \in Note /\ cats' = cats
  BY DEF Typed, RowsTyped, CommitBatch
<1>2. Told(note[t], row[t], cats) /\ (t \in DOMAIN retro.batch => Kept(note[t], row[t]))
  BY DEF HistoryInv
<1>3. CASE t \in DOMAIN retro.batch
  BY <1>1, <1>2, <1>3, CommitBatchIs, RetroTells DEF Tells
<1>4. CASE t \notin DOMAIN retro.batch
  BY <1>1, <1>2, <1>4, CommitBatchIs DEF Tells
<1>. QED BY <1>3, <1>4

LEMMA EditsTell ==
  ASSUME Typed, HistoryInv, Edits, NEW t \in Txn
  PROVE  Tells(t)
<1>1. row[t] \in Row /\ note[t] \in Note /\ Told(note[t], row[t], cats) /\ cats \subseteq Category
  BY DEF Typed, TableTyped, RowsTyped, HistoryInv
<1>2. ASSUME NEW u \in Txn, NEW r, NEW n, EditRow(u, r, n),
             t = u => /\ Told(n, r, cats) /\ n.gone = note[t].gone
                      /\ r.state = row[t].state \/ r.state = "live"
      PROVE  Tells(t)
  <2>1. cats' = cats
    BY <1>2 DEF EditRow
  <2>. QED BY <1>1, <1>2, <2>1, EditRowIs DEF Tells, Kept
<1>3. ASSUME NEW u \in Txn, NEW c \in Category, SetTransactionCategory(u, c) PROVE Tells(t)
  <2>. DEFINE r == [row[u] EXCEPT !.category = c]
              n == [note[u] EXCEPT !.cat = c, !.silent = FALSE]
  <2>1. EditRow(u, r, n)
    BY <1>3 DEF SetTransactionCategory
  <2>2. t = u => r.state = row[t].state /\ n.gone = note[t].gone /\ Told(n, r, cats)
    BY <1>1 DEF Told, Row, Note
  <2>. HIDE DEF r, n
  <2>. QED BY <1>2, <2>1, <2>2
<1>4. ASSUME NEW u \in Txn, NEW x \in Tag, AddTransactionTag(u, x) PROVE Tells(t)
  <2>. DEFINE r == [row[u] EXCEPT !.tags = @ \cup {x}]
              n == [note[u] EXCEPT !.ever = @ \cup {x}, !.on = @ \cup {x}]
  <2>1. EditRow(u, r, n)
    BY <1>4 DEF AddTransactionTag
  <2>2. t = u => r.state = row[t].state /\ n.gone = note[t].gone /\ Told(n, r, cats)
    BY <1>1 DEF Told, Row, Note
  <2>. HIDE DEF r, n
  <2>. QED BY <1>2, <2>1, <2>2
<1>5. ASSUME NEW u \in Txn, NEW x \in Tag, RemoveTransactionTag(u, x) PROVE Tells(t)
  <2>. DEFINE r == [row[u] EXCEPT !.tags = @ \ {x}]
              n == [note[u] EXCEPT !.on = @ \ {x}]
  <2>1. EditRow(u, r, n)
    BY <1>5 DEF RemoveTransactionTag
  <2>2. t = u => r.state = row[t].state /\ n.gone = note[t].gone /\ Told(n, r, cats)
    BY <1>1 DEF Told, Row, Note
  <2>. HIDE DEF r, n
  <2>. QED BY <1>2, <2>1, <2>2
<1>6. ASSUME NEW u \in Txn, NEW k \in Key, NEW v \in Value \cup {None},
             SetTransactionMetadata(u, k, v)
      PROVE  Tells(t)
  <2>. DEFINE r == [row[u] EXCEPT !.meta[k] = v]
  <2>1. EditRow(u, r, note[u])
    BY <1>6 DEF SetTransactionMetadata
  <2>2. t = u => r.state = row[t].state /\ Told(note[t], r, cats)
    BY <1>1 DEF Told, Row, Note
  <2>. HIDE DEF r
  <2>. QED BY <1>2, <2>1, <2>2
<1>7. ASSUME NEW u \in Txn, NEW f \in BOOLEAN, SetTransactionFlag(u, f) PROVE Tells(t)
  <2>. DEFINE r == [row[u] EXCEPT !.flag = f]
  <2>1. EditRow(u, r, note[u])
    BY <1>7 DEF SetTransactionFlag
  <2>2. t = u => r.state = row[t].state /\ Told(note[t], r, cats)
    BY <1>1 DEF Told, Row, Note
  <2>. HIDE DEF r
  <2>. QED BY <1>2, <2>1, <2>2
<1>8. ASSUME NEW u \in Txn, RestoreTransaction(u) PROVE Tells(t)
  <2>. DEFINE r == [row[u] EXCEPT !.state = "live"]
  <2>1. EditRow(u, r, note[u])
    BY <1>8 DEF RestoreTransaction
  <2>2. t = u => r.state = "live" /\ Told(note[t], r, cats)
    BY <1>1 DEF Told, Row, Note
  <2>. HIDE DEF r
  <2>. QED BY <1>2, <2>1, <2>2
<1>9. ASSUME NEW u \in Txn, DeleteTransaction(u) PROVE Tells(t)
  <2>1. /\ row'[t] = IF t = u THEN [row[t] EXCEPT !.state = "deleted"] ELSE row[t]
        /\ note'[t] = IF t = u THEN [note[t] EXCEPT !.gone = TRUE] ELSE note[t]
        /\ cats' = cats
    BY <1>9 DEF DeleteTransaction, Typed, RowsTyped
  <2>. QED BY <1>1, <2>1 DEF Tells, Told, Kept, Row, Note
<1>10. ASSUME NEW S \in SUBSET Txn, NEW c \in Category, BulkRecategorize(S, c)
       PROVE  Tells(t)
  <2>1. /\ row'[t] = IF t \in S THEN [row[t] EXCEPT !.category = c] ELSE row[t]
        /\ note'[t] = IF t \in S THEN [note[t] EXCEPT !.silent = TRUE] ELSE note[t]
        /\ cats' = cats
    BY <1>10 DEF BulkRecategorize
  <2>. QED BY <1>1, <2>1 DEF Tells, Told, Kept, Row, Note
<1>11. ASSUME NEW d \in Category \cup {None}, row'[t] = [row[t] EXCEPT !.category = d],
              note' = note, cats' \subseteq cats,
              d = row[t].category \/ row[t].category \notin cats'
       PROVE  Tells(t)
  <2>1. row'[t].state = row[t].state /\ row'[t].tags = row[t].tags /\ row'[t].category = d
    BY <1>1, <1>11 DEF Row
  <2>. QED BY <1>1, <1>11, <2>1 DEF Tells, Told, Kept
<1>12. row[t] = [row[t] EXCEPT !.category = row[t].category]
       /\ row[t].category \in Category \cup {None} /\ None \notin cats
  BY <1>1, NoneIsNoValue DEF Row
<1>13. ASSUME NEW c \in Category, DeleteCategory(c) PROVE Tells(t)
  <2>1. row'[t] = Cleared(row[t], c) /\ note' = note /\ cats' = cats \ {c}
    BY <1>13 DEF DeleteCategory
  <2>2. CASE row[t].category = c
    BY <1>11, <2>1, <2>2 DEF Cleared
  <2>3. CASE row[t].category # c
    BY <1>11, <1>12, <2>1, <2>3 DEF Cleared
  <2>. QED BY <2>2, <2>3
<1>14. ASSUME NEW c \in Category, NEW d \in Category, MergeCategories(c, d) PROVE Tells(t)
  <2>1. /\ row'[t] = IF row[t].category = c /\ row[t].state = "live"
                     THEN [row[t] EXCEPT !.category = d] ELSE Cleared(row[t], c)
        /\ note' = note /\ cats' = cats \ {c}
    BY <1>14 DEF MergeCategories
  <2>2. CASE row[t].category = c
    BY <1>11, <2>1, <2>2 DEF Cleared
  <2>3. CASE row[t].category # c
    BY <1>11, <1>12, <2>1, <2>3 DEF Cleared
  <2>. QED BY <2>2, <2>3
<1>15. CASE ReassignOrphans
  <2>1. note' = note /\ cats' = cats
    BY <1>15 DEF ReassignOrphans
  <2>2. CASE row'[t] = row[t]
    BY <1>11, <1>12, <2>1, <2>2
  <2>3. CASE row'[t] # row[t]
    <3>1. row'[t] = [row[t] EXCEPT !.category = Uncategorized] /\ row[t].category = None
      BY <1>15, <2>3 DEF ReassignOrphans, Orphans
    <3>2. Uncategorized \in Category
      BY RuleAssumption
    <3>. QED BY <1>11, <1>12, <2>1, <3>1, <3>2
  <2>. QED BY <2>2, <2>3
<1>16. ASSUME NEW x \in Tag, DeleteTag(x) PROVE Tells(t)
  <2>1. /\ row'[t] = [row[t] EXCEPT !.tags = row[t].tags \ {x}]
        /\ note'[t] = [note[t] EXCEPT !.ever = note[t].ever \ {x}, !.on = note[t].on \ {x}]
        /\ cats' = cats
    BY <1>16 DEF DeleteTag
  <2>. QED BY <1>1, <2>1 DEF Tells, Told, Kept, Row, Note
<1>17. CASE (\E u \in Txn : ToggleMatch(u)) \/ (\E i \in Rules : ToggleRule(i))
  BY <1>1, <1>17 DEF ToggleMatch, ToggleRule, rowVars, Tells
<1>. QED BY <1>3, <1>4, <1>5, <1>6, <1>7, <1>8, <1>9, <1>10, <1>13, <1>14, <1>15, <1>16, <1>17
         DEF Edits

LEMMA NextTells ==
  ASSUME Typed, SyncInv, HistoryInv, [Next]_vars, NEW t \in Txn
  PROVE  Tells(t)
<1>1. Told(note[t], row[t], cats)
  BY DEF HistoryInv
<1>2. CASE row' = row /\ note' = note /\ cats' = cats
  BY <1>1, <1>2 DEF Tells
<1>. QED BY <1>2, SyncCommitTells, CommitBatchTells, EditsTell
         DEF Next, vars, SyncLoad, SyncResolve, SyncAbort, FlushHitCounts, Begin,
             ApplyAllStart, ApplyRuleStart, ReadPage, ApplyFails, ApplyFinish, rowVars

\* Rows enter a batch where a page is read.
LEMMA OnlyPagesFillBatch ==
  ASSUME Typed, [Next]_vars
  PROVE  ReadPage \/ DOMAIN retro'.batch \subseteq DOMAIN retro.batch
<1>1. DOMAIN NoBatch = {}
  BY DEF NoBatch
<1>2. ASSUME NEW mode, NEW list, NEW net, Begin(mode, list, net)
      PROVE  DOMAIN retro'.batch \subseteq DOMAIN retro.batch
  BY <1>2 DEF Begin, Typed, RetroTyped, RetroStates
<1>3. CASE CommitBatch \/ ApplyFails \/ ApplyFinish
  <2>1. retro'.batch = NoBatch
    BY <1>3 DEF CommitBatch, ApplyFails, ApplyFinish, NoRetro, Typed, RetroTyped, RetroStates
  <2>. QED BY <1>1, <2>1
<1>5. CASE retro' = retro
  BY <1>5
<1>6. CASE Edits
  BY <1>6, EditsLeave DEF Typed, RetroTyped, RetroStates
<1>7. CASE UNCHANGED vars \/ SyncLoad \/ (\E t \in Txn : SyncResolve(t)) \/ SyncCommit
           \/ SyncAbort \/ FlushHitCounts
  BY <1>5, <1>7 DEF vars, SyncLoad, SyncResolve, SyncCommit, SyncAbort, FlushHitCounts
<1>8. CASE ApplyAllStart \/ (\E i \in Rules : ApplyRuleStart(i))
  BY <1>2, <1>8 DEF ApplyAllStart, ApplyRuleStart
<1>. QED BY <1>3, <1>6, <1>7, <1>8 DEF Next

LEMMA NextHistory == Typed /\ SyncInv /\ HistoryInv /\ [Next]_vars => HistoryInv'
<1>. SUFFICES ASSUME Typed, SyncInv, HistoryInv, [Next]_vars PROVE HistoryInv'
  OBVIOUS
<1>1. \A t \in Txn : Tells(t)
  BY NextTells
<1>2. Typed'
  BY NextTyped
<1>3. ASSUME NEW t \in DOMAIN retro'.batch PROVE t \in Txn /\ Kept(note'[t], row'[t])
  <2>1. t \in Txn
    BY <1>2, <1>3 DEF Typed, RetroTyped
  <2>2. CASE t \in DOMAIN retro.batch
    BY <1>1, <2>1, <2>2 DEF HistoryInv, Tells
  <2>3. CASE ReadPage
    <3>1. PICK batch \in SUBSET NextPage :
            \E m \in [Rules -> Nat] : \E nets \in [batch -> Nets(Rules)] :
              retro'.batch = nets
      BY <2>3, ReadPageIs DEF Typed, RetroTyped, RetroStates
    <3>2. t \in Listed
      BY <1>3, <3>1 DEF NextPage
    <3>. QED BY <1>1, <2>1, <3>2 DEF Listed, Kept, Tells
  <2>. QED BY <1>3, <2>2, <2>3, OnlyPagesFillBatch
<1>. QED BY <1>1, <1>3 DEF HistoryInv, Tells

-----------------------------------------------------------------------------
(* The accounting of hits                                                  *)

LEMMA InitHits == Init => HitsInv
BY DEF Init, HitsInv, HitsOf, Pending, InBatch, NoSync, NoRetro

LEMMA HitsAreNumbers ==
  ASSUME Typed, NEW i \in Rules
  PROVE  /\ hits[i] \in Nat /\ landed[i] \in Nat /\ retro.hits[i] \in Nat
         /\ retro.page[i] \in Nat /\ Pending(i) \in {0, 1} /\ InBatch(i) \in Nat
<1>1. retro.hits \in [Rules -> Nat] /\ retro.page \in [Rules -> Nat]
  BY DEF Typed, RetroTyped, RetroStates
<1>. QED BY <1>1 DEF Typed, CountsTyped, Pending, InBatch

LEMMA ReadPageCounts ==
  ASSUME Typed, HitsInv, ReadPage, NEW i \in Rules
  PROVE  HitsOf(i)'
<1>. DEFINE page == NextPage
            next == IF Cardinality(page) < PageSize THEN "finish" ELSE "scan"
            at == IF page = {} THEN retro.at ELSE LastOf(page)
<1>1. PICK batch \in SUBSET page, m \in [Rules -> Nat] :
        \E nets \in [batch -> Nets(Rules)] :
          /\ retro' = [retro EXCEPT
               !.at = at, !.pc = IF batch = {} THEN next ELSE "batch", !.next = next,
               !.batch = nets, !.visited = retro.visited \cup page,
               !.page = m, !.hits = Plus(retro.hits, m)]
          /\ landed' = IF batch = {} THEN Plus(landed, m) ELSE landed
  BY ReadPageIs
<1>2. next # "batch"
  OBVIOUS
<1>. HIDE DEF page, next, at
<1>3. /\ retro'.pc = (IF batch = {} THEN next ELSE "batch") /\ retro'.page = m
      /\ retro'.hits = Plus(retro.hits, m)
      /\ landed' = IF batch = {} THEN Plus(landed, m) ELSE landed
  BY <1>1 DEF Typed, RetroTyped, RetroStates
<1>4. retro.pc = "scan" /\ hits' = hits /\ sync' = sync
  BY DEF ReadPage
<1>5. retro.hits \in [Rules -> Nat] /\ landed \in [Rules -> Nat] /\ m[i] \in Nat
  BY DEF Typed, RetroTyped, RetroStates, CountsTyped
<1>6. retro'.hits[i] = retro.hits[i] + m[i] /\ Plus(landed, m)[i] = landed[i] + m[i]
  BY <1>3, <1>5, PlusIs
<1>7. InBatch(i) = 0 /\ Pending(i)' = Pending(i)
      /\ InBatch(i)' = IF batch = {} THEN 0 ELSE m[i]
  BY <1>2, <1>3, <1>4 DEF InBatch, Pending
<1>8. hits[i] + Pending(i) + retro.hits[i] <= landed[i]
  BY <1>7, HitsAreNumbers DEF HitsInv, HitsOf
<1>9. CASE batch = {}
  BY <1>3, <1>4, <1>5, <1>6, <1>7, <1>8, <1>9, HitsAreNumbers DEF HitsOf
<1>10. CASE batch # {}
  BY <1>3, <1>4, <1>5, <1>6, <1>7, <1>8, <1>10, HitsAreNumbers DEF HitsOf
<1>. QED BY <1>9, <1>10

LEMMA NextHits == Typed /\ HitsInv /\ [Next]_vars => HitsInv'
<1>. SUFFICES ASSUME Typed, HitsInv, [Next]_vars PROVE \A i \in Rules : HitsOf(i)'
  BY RulesStay DEF HitsInv, Typed
<1>. TAKE i \in Rules
<1>1. /\ hits[i] \in Nat /\ landed[i] \in Nat /\ retro.hits[i] \in Nat
      /\ retro.page[i] \in Nat /\ Pending(i) \in {0, 1} /\ InBatch(i) \in Nat
  BY HitsAreNumbers
<1>2. /\ InBatch(i) <= retro.hits[i]
      /\ hits[i] + Pending(i) + retro.hits[i] <= landed[i] + InBatch(i)
  BY DEF HitsInv, HitsOf
<1>3. CASE SyncLoad \/ (\E t \in Txn : SyncResolve(t)) \/ SyncAbort
  <2>1. /\ hits' = hits /\ landed' = landed /\ retro' = retro
        /\ sync'.pc \in {"loaded", "resolved", "done"}
    BY <1>3 DEF SyncLoad, SyncResolve, SyncAbort, NoSync, Typed, SyncTyped, SyncStates
  <2>2. Pending(i)' = 0 /\ InBatch(i)' = InBatch(i)
    BY <2>1 DEF Pending, InBatch
  <2>. QED BY <1>1, <1>2, <2>1, <2>2 DEF HitsOf
<1>4. CASE SyncCommit
  <2>1. /\ hits' = hits /\ landed' = Count(landed, sync.net.hit) /\ retro' = retro
        /\ sync'.pc = "committed" /\ sync'.net.hit = sync.net.hit /\ sync.pc = "resolved"
    BY <1>4 DEF SyncCommit, NoSync, NoIntent
  <2>2. landed'[i] = landed[i] + (IF i \in sync.net.hit THEN 1 ELSE 0)
    BY <2>1, CountIs DEF Typed, CountsTyped
  <2>3. /\ Pending(i) = 0 /\ InBatch(i)' = InBatch(i)
        /\ Pending(i)' = IF i \in sync.net.hit THEN 1 ELSE 0
    BY <2>1 DEF Pending, InBatch
  <2>. QED BY <1>1, <1>2, <2>1, <2>2, <2>3 DEF HitsOf
<1>5. CASE FlushHitCounts
  <2>1. PICK S \in SUBSET sync.net.hit : hits' = Count(hits, S)
    BY <1>5 DEF FlushHitCounts
  <2>2. hits'[i] = hits[i] + (IF i \in S THEN 1 ELSE 0)
    BY <2>1, CountIs DEF Typed, CountsTyped
  <2>3. /\ landed' = landed /\ retro' = retro /\ sync'.pc = "done" /\ sync.pc = "committed"
    BY <1>5 DEF FlushHitCounts, NoSync
  <2>4. /\ Pending(i)' = 0 /\ InBatch(i)' = InBatch(i)
        /\ Pending(i) = IF i \in sync.net.hit THEN 1 ELSE 0
    BY <2>3 DEF Pending, InBatch
  <2>. QED BY <1>1, <1>2, <2>2, <2>3, <2>4 DEF HitsOf
<1>6. CASE ApplyAllStart \/ (\E j \in Rules : ApplyRuleStart(j))
  <2>1. PICK mode, list, net : Begin(mode, list, net)
    BY <1>6 DEF ApplyAllStart, ApplyRuleStart
  <2>2. /\ hits' = hits /\ landed' = landed /\ sync' = sync /\ retro'.hits = retro.hits
        /\ retro.pc = "idle" /\ retro'.pc = "scan"
    BY <2>1 DEF Begin, Typed, RetroTyped, RetroStates
  <2>3. InBatch(i) = 0 /\ InBatch(i)' = 0 /\ Pending(i)' = Pending(i)
    BY <2>2 DEF InBatch, Pending
  <2>. QED BY <1>1, <1>2, <2>2, <2>3 DEF HitsOf
<1>7. CASE ReadPage
  BY <1>7, ReadPageCounts
<1>8. CASE CommitBatch
  <2>1. /\ hits' = hits /\ landed' = Plus(landed, retro.page) /\ sync' = sync
        /\ retro'.hits = retro.hits /\ retro.pc = "batch" /\ retro'.pc \in {"scan", "finish"}
    BY <1>8 DEF CommitBatch, Typed, RetroTyped, RetroStates
  <2>2. landed'[i] = landed[i] + retro.page[i]
    BY <2>1, PlusIs DEF Typed, RetroTyped, RetroStates, CountsTyped
  <2>3. InBatch(i) = retro.page[i] /\ InBatch(i)' = 0 /\ Pending(i)' = Pending(i)
    BY <2>1 DEF InBatch, Pending
  <2>. QED BY <1>1, <1>2, <2>1, <2>2, <2>3 DEF HitsOf
<1>9. CASE ApplyFails
  <2>1. /\ hits' = hits /\ landed' = landed /\ sync' = sync /\ retro'.pc = "failed"
        /\ retro'.hits[i] = 0
    BY <1>9 DEF ApplyFails, NoRetro
  <2>2. InBatch(i)' = 0 /\ Pending(i)' = Pending(i)
    BY <2>1 DEF InBatch, Pending
  <2>. QED BY <1>1, <1>2, <2>1, <2>2 DEF HitsOf
<1>10. CASE ApplyFinish
  <2>1. PICK S \in SUBSET Rules :
          hits' = [j \in Rules |-> hits[j] + (IF j \in S THEN retro.hits[j] ELSE 0)]
    BY <1>10 DEF ApplyFinish
  <2>2. hits'[i] <= hits[i] + retro.hits[i] /\ hits'[i] \in Nat
    BY <1>1, <2>1
  <2>3. /\ landed' = landed /\ sync' = sync /\ retro.pc = "finish" /\ retro'.pc = "done"
        /\ retro'.hits[i] = 0
    BY <1>10 DEF ApplyFinish, NoRetro
  <2>4. InBatch(i) = 0 /\ InBatch(i)' = 0 /\ Pending(i)' = Pending(i)
    BY <2>3 DEF InBatch, Pending
  <2>. QED BY <1>1, <1>2, <2>2, <2>3, <2>4 DEF HitsOf
<1>11. CASE Edits \/ UNCHANGED vars
  <2>1. /\ hits' = hits /\ landed' = landed /\ sync' = sync /\ retro'.pc = retro.pc
        /\ retro'.hits = retro.hits /\ retro'.page = retro.page
    BY <1>11, EditsLeave DEF vars, Typed, RetroTyped, RetroStates
  <2>2. InBatch(i)' = InBatch(i) /\ Pending(i)' = Pending(i)
    BY <2>1 DEF InBatch, Pending
  <2>. QED BY <1>1, <1>2, <2>1, <2>2 DEF HitsOf
<1>. QED BY <1>3, <1>4, <1>5, <1>6, <1>7, <1>8, <1>9, <1>10, <1>11 DEF Next

-----------------------------------------------------------------------------
(* What a retroactive apply owes                                           *)

LEMMA InitOwed == Init => OwedInv
BY DEF Init, OwedInv, NoRetro

\* A row stays live unless a user deletes it.
LEMMA LiveStays ==
  ASSUME Typed, SyncInv, [Next]_vars, NEW t \in Txn, row[t].state = "live", ~ DeleteTransaction(t)
  PROVE  row'[t].state = "live"
<1>1. CASE row' = row
  BY <1>1
<1>2. CASE SyncCommit
  <2>. DEFINE now == [sync.base EXCEPT !.tags = row[sync.t].tags]
  <2>1. /\ sync.t \in Txn /\ sync.base \in Row /\ sync.base.state = "live"
        /\ row[sync.t] \in Row /\ sync.net \in Net /\ SyncCategory \in Category \cup {None}
    BY <1>2 DEF SyncCommit, SyncInv, Typed, TableTyped, RowsTyped, SyncTyped, SyncStates, Nets
  <2>2. now \in Row /\ now.state = "live"
    BY <2>1 DEF Row
  <2>3. row' = [row EXCEPT ![sync.t] = Materialize(now, sync.net, SyncCategory)]
    BY <1>2 DEF SyncCommit
  <2>. HIDE DEF now
  <2>4. Materialize(now, sync.net, SyncCategory).state = "live"
    BY <2>1, <2>2, MaterializeType
  <2>. QED BY <2>1, <2>3, <2>4 DEF Typed, RowsTyped
<1>3. CASE CommitBatch
  <2>1. row[t] \in Row
    BY DEF Typed, RowsTyped
  <2>. QED BY <1>3, <2>1, CommitBatchIs, MaterializeType
<1>4. CASE Edits
  BY <1>4, EditsSpare DEF Spared
<1>. QED BY <1>1, <1>2, <1>3, <1>4
         DEF Next, vars, SyncLoad, SyncResolve, SyncAbort, FlushHitCounts, Begin, ApplyAllStart,
             ApplyRuleStart, ReadPage, ApplyFails, ApplyFinish, rowVars

LEMMA UnmatchedStays ==
  ASSUME [Next]_vars, NEW t \in Txn, t \notin matched, ~ ToggleMatch(t)
  PROVE  t \notin matched'
<1>1. CASE matched' = matched
  BY <1>1
<1>2. ASSUME NEW u \in Txn, ToggleMatch(u) PROVE t \notin matched'
  BY <1>2 DEF ToggleMatch
<1>3. CASE Edits
  BY <1>1, <1>2, <1>3
     DEF Edits, EditRow, SetTransactionCategory, AddTransactionTag, RemoveTransactionTag,
         SetTransactionMetadata, SetTransactionFlag, DeleteTransaction, RestoreTransaction,
         BulkRecategorize, DeleteCategory, ReassignOrphans, MergeCategories, DeleteTag,
         ToggleRule
<1>. QED BY <1>1, <1>3
         DEF Next, vars, SyncLoad, SyncResolve, SyncCommit, SyncAbort, FlushHitCounts, Begin,
             ApplyAllStart, ApplyRuleStart, ReadPage, CommitBatch, ApplyFails, ApplyFinish

LEMMA OwedStaysListed ==
  ASSUME Typed, SyncInv, OwedInv, [Next]_vars, retro'.owed \subseteq retro.owed,
         \A t \in Txn : Drops(t) => t \notin retro'.owed
  PROVE  retro'.owed \subseteq Listed'
<1>. SUFFICES ASSUME NEW t \in retro'.owed PROVE t \in Listed'
  OBVIOUS
<1>1. /\ t \in Txn /\ row[t].state = "live" /\ t \notin matched
      /\ ~ DeleteTransaction(t) /\ ~ ToggleMatch(t)
  BY DEF OwedInv, Listed, Drops
<1>. QED BY <1>1, LiveStays, UnmatchedStays DEF Listed

\* No edit, and so nobody drops a row, in a step that leaves the count of edits.
LEMMA NoEditNoDrop ==
  ASSUME Typed, edits' = edits, NEW t \in Txn
  PROVE  ~ Drops(t)
<1>1. edits \in Nat
  BY RuleAssumption DEF Typed, TableTyped
<1>. QED BY <1>1 DEF Drops, DeleteTransaction, ToggleMatch, Edit

\* The page takes the cursor past the rows it visits and no others.
LEMMA ReadPageOwes ==
  ASSUME Typed, SyncInv, OwedInv, [Next]_vars, ReadPage
  PROVE  OwedInv'
<1>. DEFINE page == NextPage
            next == IF Cardinality(page) < PageSize THEN "finish" ELSE "scan"
            at == IF page = {} THEN retro.at ELSE LastOf(page)
<1>1. PICK batch \in SUBSET page, m \in [Rules -> Nat] :
        \E nets \in [batch -> Nets(Rules)] :
          retro' = [retro EXCEPT
            !.at = at, !.pc = IF batch = {} THEN next ELSE "batch", !.next = next,
            !.batch = nets, !.visited = retro.visited \cup page,
            !.page = m, !.hits = Plus(retro.hits, m)]
  BY ReadPageIs
<1>2. /\ page \subseteq Rest /\ Rest \subseteq Txn
      /\ \A t \in Rest \ page : \A u \in page : t > u
      /\ Cardinality(page) < PageSize => page = Rest
  BY PageIsFirst DEF Typed, RetroTyped, RetroStates
<1>3. next = "scan" => page # {} /\ at = LastOf(page) /\ LastOf(page) \in page
  <2>1. Cardinality({}) = 0 /\ PageSize > 0
    BY RuleAssumption, FS_EmptySet
  <2>2. next = "scan" => page # {}
    BY <2>1
  <2>. HIDE DEF page, next
  <2>. QED BY <1>2, <2>2, LastOfPage
<1>4. next \in {"scan", "finish"} /\ (next = "finish" => page = Rest)
  BY <1>2
<1>. HIDE DEF page, next, at
<1>5. /\ retro'.at = at /\ retro'.pc = (IF batch = {} THEN next ELSE "batch")
      /\ retro'.next = next /\ retro'.visited = retro.visited \cup page
      /\ retro'.owed = retro.owed
  BY <1>1 DEF Typed, RetroTyped, RetroStates
<1>6. retro.owed \subseteq retro.visited \cup Rest
  BY DEF ReadPage, OwedInv, Behind, Rest
<1>7. retro'.owed \subseteq Listed'
  <2>1. edits' = edits
    BY DEF ReadPage
  <2>. QED BY <1>5, <2>1, NoEditNoDrop, OwedStaysListed
<1>8. CASE next = "scan"
  <2>1. \A t \in Rest \ page : t \in Behind'
    BY <1>2, <1>3, <1>5, <1>8 DEF Behind
  <2>2. retro'.owed \subseteq retro'.visited \cup Behind'
    BY <1>5, <1>6, <2>1
  <2>. QED BY <1>5, <1>7, <1>8, <2>2 DEF OwedInv
<1>9. CASE next = "finish"
  <2>1. retro'.owed \subseteq retro'.visited
    BY <1>4, <1>5, <1>6, <1>9
  <2>. QED BY <1>5, <1>7, <1>9, <2>1 DEF OwedInv
<1>. QED BY <1>4, <1>8, <1>9

LEMMA NextOwed == Typed /\ SyncInv /\ OwedInv /\ [Next]_vars => OwedInv'
<1>. SUFFICES ASSUME Typed, SyncInv, OwedInv, [Next]_vars PROVE OwedInv'
  OBVIOUS
<1>1. CASE retro' = retro
  <2>1. \A t \in Txn : Drops(t) => t \notin retro'.owed
    BY DEF Drops, DeleteTransaction, ToggleMatch, Typed, RetroTyped, RetroStates
  <2>2. retro'.owed \subseteq Listed'
    BY <1>1, <2>1, OwedStaysListed
  <2>. QED BY <1>1, <2>2 DEF OwedInv, Behind
<1>2. CASE ApplyAllStart \/ (\E i \in Rules : ApplyRuleStart(i))
  <2>1. PICK mode, list, net : Begin(mode, list, net)
    BY <1>2 DEF ApplyAllStart, ApplyRuleStart
  <2>2. /\ retro'.owed = Listed /\ retro'.pc = "scan" /\ retro'.at = retro.at
        /\ retro.pc = "idle" /\ row' = row /\ matched' = matched
    BY <2>1 DEF Begin, rowVars, Typed, RetroTyped, RetroStates
  <2>3. Listed \subseteq Behind' /\ Listed' = Listed
    <3>1. retro'.at = 0
      BY <2>2 DEF OwedInv
    <3>2. Listed \subseteq Txn /\ \A t \in Txn : t > 0
      BY RuleAssumption DEF Listed
    <3>. QED BY <2>2, <3>1, <3>2 DEF Behind, Listed
  <2>. QED BY <2>2, <2>3 DEF OwedInv
<1>3. CASE ReadPage
  BY <1>3, ReadPageOwes
<1>4. CASE CommitBatch
  <2>1. /\ retro'.owed = retro.owed /\ retro'.visited = retro.visited /\ retro'.at = retro.at
        /\ retro'.pc = retro.next /\ retro.pc = "batch" /\ retro.next \in {"scan", "finish"}
    BY <1>4 DEF CommitBatch, Typed, RetroTyped, RetroStates
  <2>2. edits' = edits
    BY <1>4 DEF CommitBatch
  <2>3. retro'.owed \subseteq Listed'
    BY <2>1, <2>2, NoEditNoDrop, OwedStaysListed
  <2>. QED BY <2>1, <2>3 DEF OwedInv, Behind
<1>5. CASE ApplyFails \/ ApplyFinish
  <2>1. retro'.owed = {} /\ retro'.pc \in {"failed", "done"}
    BY <1>5 DEF ApplyFails, ApplyFinish, NoRetro
  <2>. QED BY <2>1 DEF OwedInv
<1>6. ASSUME NEW t \in Txn, Drops(t), retro' = [retro EXCEPT !.owed = retro.owed \ {t}]
      PROVE  OwedInv'
  <2>1. /\ retro'.owed = retro.owed \ {t} /\ retro'.visited = retro.visited
        /\ retro'.at = retro.at /\ retro'.pc = retro.pc /\ retro'.next = retro.next
    BY <1>6 DEF Typed, RetroTyped, RetroStates
  <2>2. \A u \in Txn : Drops(u) => u \notin retro'.owed
    BY DEF Drops, DeleteTransaction, ToggleMatch, Typed, RetroTyped, RetroStates
  <2>3. retro'.owed \subseteq Listed'
    BY <2>1, <2>2, OwedStaysListed
  <2>. QED BY <2>1, <2>3 DEF OwedInv, Behind
<1>7. CASE Edits
  BY <1>1, <1>6, <1>7, EditsLeave
<1>8. CASE UNCHANGED vars \/ SyncLoad \/ (\E t \in Txn : SyncResolve(t)) \/ SyncCommit
           \/ SyncAbort \/ FlushHitCounts
  BY <1>1, <1>8 DEF vars, SyncLoad, SyncResolve, SyncCommit, SyncAbort, FlushHitCounts
<1>. QED BY <1>2, <1>3, <1>4, <1>5, <1>7, <1>8 DEF Next

-----------------------------------------------------------------------------
(* The properties                                                          *)

\* The inductive invariant of the specification.
RuleInv == Typed /\ SyncInv /\ HistoryInv /\ HitsInv /\ OwedInv

\* Rules, edits, syncs and retroactive applies keep the five parts together: a
\* flush writes back the category it read only because its row is locked, and the
\* annotations stay true only because its intent never adds and removes one tag.
THEOREM RulesSafe == Spec => []RuleInv
<1>1. Init => RuleInv
  BY InitTyped, InitSync, InitHistory, InitHits, InitOwed DEF RuleInv
<1>2. RuleInv /\ [Next]_vars => RuleInv'
  BY NextTyped, NextSync, NextHistory, NextHits, NextOwed DEF RuleInv
<1>. QED BY <1>1, <1>2, PTL DEF Spec

\* Rows, hit counts, cursors and net intents have their types, and no metadata key
\* is set and removed by the same intent, for every rule table.
THEOREM TypesCorrect == Spec => []TypeOK
<1>1. RuleInv => TypeOK
  <2>. SUFFICES ASSUME RuleInv PROVE TypeOK
    OBVIOUS
  <2>1. ASSUME NEW net \in Nets(Rules) PROVE Writable(net)
    BY DEF Nets, Net, Meta, Writable
  <2>2. sync.net \in Nets(Rules) /\ \A t \in DOMAIN retro.batch : retro.batch[t] \in Nets(Rules)
    BY DEF RuleInv, Typed, SyncTyped, SyncStates, RetroTyped, RetroStates
  <2>3. Writable(sync.net) /\ \A t \in DOMAIN retro.batch : Writable(retro.batch[t])
    BY <2>1, <2>2
  <2>. QED BY <2>3 DEF RuleInv, Typed, TableTyped, RowsTyped, CountsTyped, SyncTyped, SyncStates,
                       RetroTyped, RetroStates, SyncInv, TypeOK
<1>. QED BY <1>1, RulesSafe, PTL

LEMMA SyncIntentIs ==
  ASSUME NEW p \in Seq(Rule), NEW list, NEW base \in Row, base.state # "deleted", NEW isNew,
         NEW net, net = ResolveWithContext(p, list, Context(base), isNew),
         NEW d, d = Direct(p, list, base, isNew)
  PROVE  /\ LandsLike(d, base, Materialize(base, net, net.cat)) /\ net.hit = d.hit
         /\ Provenance(p, net)
BY SyncIntent

\* Rules no lane treats differently: no trigger, no condition on the category, no
\* unknown category.
SameForAll(p, list, known) ==
  \A i \in list \cap (1 .. Len(p)) :
    /\ TriggerMatches(p[i].on, FALSE) /\ p[i].cond.field # "category"
    /\ \A n \in DOMAIN p[i].do :
         p[i].do[n].type = "set_category" => p[i].do[n].arg \in known
OnChange(p, list, r) == ResolveWithContext(p, list, Context(r), FALSE)
LEMMA BulkAgreesOn ==
  ASSUME NEW p \in Seq(Rule), NEW list, NEW base \in Row, NEW known,
         NEW s, s = OnChange(p, list, base),
         NEW b, b = BulkIntent(p, list, RetroContext(base), known), SameForAll(p, list, known)
  PROVE  Materialize(base, s, s.cat) = Materialize(base, b, b.cat) /\ s.hit = b.hit
BY BulkAgrees DEF SameForAll, OnChange

\* What a flush is about to write is what the matching rules it has loaded would do
\* one after the other to the row, for every pipeline of every length: the net intent of
\* ResolveWithContext loses, doubles and misattributes nothing.
THEOREM NetIntentHolds == Spec => []NetIntent
<1>1. RuleInv => NetIntent
  <2>. SUFFICES ASSUME RuleInv, sync.pc = "resolved"
       PROVE  LET d == Direct(sync.rules, sync.list, sync.base, sync.isNew)
              IN /\ LandsLike(d, sync.base, Materialize(sync.base, sync.net, sync.net.cat))
                 /\ sync.net.hit = d.hit
                 /\ Provenance(sync.rules, sync.net)
    BY DEF NetIntent
  <2>1. /\ sync.rules \in Seq(Rule) /\ sync.base \in Row /\ sync.base.state # "deleted"
        /\ sync.net = ResolveWithContext(sync.rules, sync.list, Context(sync.base), sync.isNew)
    BY DEF RuleInv, Typed, SyncTyped, SyncStates, SyncInv
  <2>. DEFINE d == Direct(sync.rules, sync.list, sync.base, sync.isNew)
  <2>2. d = Direct(sync.rules, sync.list, sync.base, sync.isNew)
    OBVIOUS
  <2>. HIDE DEF d
  <2>3. /\ LandsLike(d, sync.base, Materialize(sync.base, sync.net, sync.net.cat))
        /\ sync.net.hit = d.hit /\ Provenance(sync.rules, sync.net)
    BY <2>1, <2>2, SyncIntentIs
  <2>. QED BY <2>3 DEF d
<1>. QED BY <1>1, RulesSafe, PTL

\* Applying all rules to a row it lists and syncing the row changed leave the same
\* row and count the same rules, for every pipeline of rules that can be compared.
THEOREM LanesAgreeHolds == Spec => []LanesAgree
<1>1. RuleInv => LanesAgree
  <2>. SUFFICES ASSUME RuleInv, \A i \in enabled : Comparable(i), NEW t \in Listed
       PROVE  LET s == ResolveWithContext(rules, enabled, Context(row[t]), FALSE)
                  b == BulkIntent(rules, enabled, RetroContext(row[t]), cats)
              IN  Materialize(row[t], s, s.cat) = Materialize(row[t], b, b.cat) /\ s.hit = b.hit
    BY DEF LanesAgree
  <2>1. rules \in Seq(Rule) /\ row[t] \in Row
    BY DEF RuleInv, Typed, TableTyped, RowsTyped, Listed
  <2>2. SameForAll(rules, enabled, cats)
    BY DEF Comparable, SameForAll
  <2>. DEFINE s == ResolveWithContext(rules, enabled, Context(row[t]), FALSE)
              b == BulkIntent(rules, enabled, RetroContext(row[t]), cats)
  <2>3. s = OnChange(rules, enabled, row[t])
        /\ b = BulkIntent(rules, enabled, RetroContext(row[t]), cats)
    BY DEF OnChange
  <2>. HIDE DEF s, b
  <2>4. Materialize(row[t], s, s.cat) = Materialize(row[t], b, b.cat) /\ s.hit = b.hit
    BY <2>1, <2>2, <2>3, BulkAgreesOn
  <2>. QED BY <2>4 DEF s, b
<1>. QED BY <1>1, RulesSafe, PTL

\* The annotations of a row never contradict it, whatever syncs, applies and users
\* do to it at the same time, but for the writers that HistoryTruthful names: the
\* deletion of tags and categories, merges and bulk recategorization, none of which
\* writes an annotation.
THEOREM HistoryHolds == Spec => []HistoryTruthful
<1>1. RuleInv => HistoryTruthful
  BY DEF RuleInv, HistoryInv, Told, HistoryTruthful
<1>. QED BY <1>1, RulesSafe, PTL

\* No hit is counted twice or for a row that was not written, and a retroactive
\* apply that finishes has visited every row that was listed throughout, for every
\* page size.
THEOREM PassAccountedHolds == Spec => []PassAccounted
<1>1. RuleInv => PassAccounted
  <2>. SUFFICES ASSUME RuleInv PROVE PassAccounted
    OBVIOUS
  <2>1. ASSUME NEW i \in Rules PROVE hits[i] <= landed[i]
    <3>1. /\ InBatch(i) <= retro.hits[i]
          /\ hits[i] + Pending(i) + retro.hits[i] <= landed[i] + InBatch(i)
      BY DEF RuleInv, HitsInv, HitsOf
    <3>. QED BY <3>1, HitsAreNumbers DEF RuleInv
  <2>. QED BY <2>1 DEF RuleInv, OwedInv, PassAccounted
<1>. QED BY <1>1, RulesSafe, PTL
====

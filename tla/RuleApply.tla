------------------------------ MODULE RuleApply ------------------------------
(***************************************************************************)
(* Transaction rules: internal/sync/rule_resolver.go folds the active rules  *)
(* to a net intent per new or changed row inside a sync's flush;             *)
(* internal/service/rules.go does it for the stored rows, one rule or all,   *)
(* page by page.  Users edit rows, rules, tags and categories meanwhile.     *)
(*                                                                         *)
(* A rule is a record [on, cond, do]: its trigger, one condition leaf and    *)
(* the sequence of its actions [type, arg, value]; rule i is the i-th by     *)
(* (priority, created_at).  Only what rules read or write of a row is kept.  *)
(* A counterparty is bound like a series and is left out; categories have    *)
(* no children.                                                              *)
(***************************************************************************)
EXTENDS Naturals, FiniteSets, Sequences

CONSTANTS
  Txn,            \* transactions, numbered in the order of their ids
  Tag, Category, Key, Value, Series,
  Uncategorized,  \* the category that cannot be deleted
  None,           \* SQL NULL, an absent key, an empty slug
  RuleLists,      \* the rule tables to start from
  FirstRows,      \* the tables of rows to start from
  PageSize,       \* rows per retroactive batch (1000 in the code)
  MaxEdits        \* bound on what users do

\* What validation lets into transaction_rules.
Condition ==
  [field : {"any"}, arg : {None}, value : {None}]
    \cup [field : {"tags"}, arg : Tag, value : {None}]
    \cup [field : {"category"}, arg : Category, value : {None}]
    \cup [field : {"series"}, arg : Series, value : {None}]
    \cup [field : {"metadata"}, arg : Key, value : Value]
Action ==
  [type : {"set_category"}, arg : Category, value : {None}]
    \cup [type : {"add_tag", "remove_tag"}, arg : Tag, value : {None}]
    \cup [type : {"assign_series"}, arg : Series, value : {None}]
    \cup [type : {"set_metadata"}, arg : Key, value : Value]
    \cup [type : {"remove_metadata"}, arg : Key, value : {None}]
    \cup [type : {"add_comment", "flag", "unflag"}, arg : {None}, value : {None}]
Rule == [on : {"on_create", "on_change", "always"}, cond : Condition, do : Seq(Action)]
Row == [state : {"none", "live", "deleted"}, category : Category \cup {None},
        tags : SUBSET Tag, meta : [Key -> Value \cup {None}],
        series : Series \cup {None}, flag : BOOLEAN]

ASSUME RuleAssumption ==
  /\ Txn \subseteq Nat \ {0} /\ IsFiniteSet(Txn)
  /\ PageSize \in Nat \ {0} /\ MaxEdits \in Nat
  /\ Uncategorized \in Category
  /\ None \notin Category \cup Value \cup Series \cup {"flag", "unflag"}
  /\ RuleLists \subseteq Seq(Rule)
  /\ FirstRows \subseteq [Txn -> Row]

VARIABLES
  rules,    \* transaction_rules in pipeline order
  enabled,  \* the rules that are enabled and not expired
  cats,     \* the categories that exist
  orphans,  \* a DeleteCategory has yet to reassign the rows it left without one
  matched,  \* rows of dependent accounts with a match, which rules.go leaves out
  row,      \* transactions and transaction_tags
  note,     \* what the annotations of a row say
  hits,     \* transaction_rules.hit_count
  sync,     \* a flush that applies rules to one row
  retro,    \* a retroactive apply
  landed,   \* matches on rows whose transaction committed, per rule (history)
  edits     \* edits so far

tableVars == <<rules, enabled, cats, orphans, matched>>
rowVars == <<row, note>>
vars == <<tableVars, rowVars, hits, sync, retro, landed, edits>>

Rules == 1 .. Len(rules)
Absent == [state |-> "none", category |-> None, tags |-> {},
           meta |-> [k \in Key |-> None], series |-> None, flag |-> FALSE]

-----------------------------------------------------------------------------
(* Conditions and triggers                                                 *)

Context(r) == [category |-> r.category, tags |-> r.tags, meta |-> r.meta,
               series |-> r.series]

\* The retroactive query has no category column.
RetroContext(r) == [Context(r) EXCEPT !.category = None]

Holds(c, ctx) ==
  CASE c.field = "any"      -> TRUE
    [] c.field = "tags"     -> c.arg \in ctx.tags
    [] c.field = "category" -> ctx.category = c.arg
    [] c.field = "metadata" -> ctx.meta[c.arg] = c.value
    [] c.field = "series"   -> ctx.series = c.arg

TriggerMatches(on, isNew) ==
  CASE on = "on_create" -> isNew
    [] on = "on_change" -> ~isNew
    [] on = "always"    -> TRUE

-----------------------------------------------------------------------------
(* The fold: what each action does to the live context and the net intent    *)

NoIntent ==
  [cat |-> None, add |-> {}, rem |-> {}, set |-> [k \in Key |-> None], del |-> {},
   series |-> None, flag |-> None, src |-> {}, hit |-> {}]

Src(i, f, v) == [rule |-> i, field |-> f, value |-> v]
Drop(src, f, v) == {x \in src : x.field # f \/ x.value # v}
DropField(src, fs) == {x \in src : x.field \notin fs}

SetCategory(s, c, i) ==
  [s EXCEPT !.ctx.category = c, !.net.cat = c,
            !.net.src = DropField(s.net.src, {"category"}) \cup {Src(i, "category", c)}]

AddTag(s, x, i) ==
  LET kept == IF x \in s.net.rem THEN Drop(s.net.src, "tag_remove", x) ELSE s.net.src
  IN [s EXCEPT !.ctx.tags = @ \cup {x},
               !.net.rem = @ \ {x}, !.net.add = @ \cup {x},
               !.net.src = kept \cup (IF x \in s.net.add THEN {} ELSE {Src(i, "tag", x)})]

RemoveTagQueues(s, x, i) ==                 \* mutant: the add is dropped and a delete queued
  LET queues == x \in s.ctx.tags /\ x \notin s.net.rem
  IN [s EXCEPT !.ctx.tags = @ \ {x}, !.net.add = @ \ {x},
               !.net.rem = IF queues THEN @ \cup {x} ELSE @,
               !.net.src = Drop(s.net.src, "tag", x)
                             \cup (IF queues THEN {Src(i, "tag_remove", x)} ELSE {})]

\* A remove cancels an add of the same pass; otherwise it is queued once, if the
\* row carries the tag.
RemoveTag(s, x, i) ==
  LET cancels == x \in s.net.add
      queues == ~cancels /\ x \in s.ctx.tags /\ x \notin s.net.rem
  IN [s EXCEPT !.ctx.tags = @ \ {x}, !.net.add = @ \ {x},
               !.net.rem = IF queues THEN @ \cup {x} ELSE @,
               !.net.src = IF cancels THEN Drop(@, "tag", x)
                           ELSE @ \cup (IF queues THEN {Src(i, "tag_remove", x)} ELSE {})]

SetMetadataKeepsRemove(s, k, v, i) ==      \* mutant: the queued remove survives
  [s EXCEPT !.ctx.meta[k] = v, !.net.set[k] = v,
            !.net.src = Drop(s.net.src, "metadata", k) \cup {Src(i, "metadata", k)}]
SetMetadata(s, k, v, i) ==
  [s EXCEPT !.ctx.meta[k] = v, !.net.set[k] = v, !.net.del = @ \ {k},
            !.net.src = Drop(Drop(s.net.src, "metadata_remove", k), "metadata", k)
                          \cup {Src(i, "metadata", k)}]

\* A remove drops a set of the same pass and deletes only what the stored blob has.
RemoveMetadata(s, k, i) ==
  LET queues == s.orig[k] # None /\ k \notin s.net.del
  IN [s EXCEPT !.ctx.meta[k] = None, !.net.set[k] = None,
               !.net.del = IF queues THEN @ \cup {k} ELSE @,
               !.net.src = Drop(s.net.src, "metadata", k)
                             \cup (IF queues THEN {Src(i, "metadata_remove", k)} ELSE {})]

AssignSeries(s, e, i) ==
  [s EXCEPT !.net.series = e,
            !.net.src = DropField(s.net.src, {"series"}) \cup {Src(i, "series", e)}]

SetFlag(s, f, i) ==
  [s EXCEPT !.net.flag = f,
            !.net.src = DropField(s.net.src, {"flag", "unflag"}) \cup {Src(i, f, None)}]

SyncAct(s, a, i) ==
  CASE a.type = "set_category"    -> SetCategory(s, a.arg, i)
    [] a.type = "add_tag"         -> AddTag(s, a.arg, i)
    [] a.type = "remove_tag"      -> RemoveTag(s, a.arg, i)
    [] a.type = "add_comment"     -> [s EXCEPT !.net.src = @ \cup {Src(i, "comment", a.arg)}]
    [] a.type = "assign_series"   -> AssignSeries(s, a.arg, i)
    [] a.type = "set_metadata"    -> SetMetadata(s, a.arg, a.value, i)
    [] a.type = "remove_metadata" -> RemoveMetadata(s, a.arg, i)
    [] a.type \in {"flag", "unflag"} -> SetFlag(s, a.type, i)

\* The bulk lane resolves a slug at once and skips an unknown one, and queues the
\* delete of a key without looking at the stored blob.
RetroSetCategory(s, c, i, known) == IF c \in known THEN SetCategory(s, c, i) ELSE s
RetroRemoveMetadataCancels(s, k) ==         \* mutant: a remove after a set only undoes the set
  [s EXCEPT !.ctx.meta[k] = None, !.net.set[k] = None,
            !.net.del = IF s.net.set[k] = None THEN @ \cup {k} ELSE @]
RetroRemoveMetadata(s, k) ==
  [s EXCEPT !.ctx.meta[k] = None, !.net.set[k] = None, !.net.del = @ \cup {k}]

RetroAct(s, a, i, known) ==
  CASE a.type = "set_category"    -> RetroSetCategory(s, a.arg, i, known)
    [] a.type = "add_tag"         -> AddTag(s, a.arg, i)
    [] a.type = "remove_tag"      -> RemoveTag(s, a.arg, i)
    [] a.type = "add_comment"     -> s
    [] a.type = "assign_series"   -> AssignSeries(s, a.arg, i)
    [] a.type = "set_metadata"    -> SetMetadata(s, a.arg, a.value, i)
    [] a.type = "remove_metadata" -> RetroRemoveMetadata(s, a.arg)
    [] a.type \in {"flag", "unflag"} -> SetFlag(s, a.type, i)

\* The single-rule lane does not fold tags: it collects the adds and the removes.
CollectAct(s, a, i, known) ==
  CASE a.type = "add_tag"    -> [s EXCEPT !.net.add = @ \cup {a.arg}]
    [] a.type = "remove_tag" -> [s EXCEPT !.net.rem = @ \cup {a.arg}]
    [] OTHER                 -> RetroAct(s, a, i, known)

Perform(lane, s, a, i, known) ==
  CASE lane = "sync" -> SyncAct(s, a, i)
    [] lane = "bulk" -> RetroAct(s, a, i, known)
    [] lane = "one"  -> CollectAct(s, a, i, known)

\* What the fold of a lane holds after the first n actions of rule i of table p.
ActionRun(p, lane, s, i, known) ==
  LET after[n \in 0 .. Len(p[i].do)] ==
        IF n = 0 THEN s ELSE Perform(lane, after[n - 1], p[i].do[n], i, known)
  IN after

Fire(p, lane, s, i, known) ==
  ActionRun(p, lane, [s EXCEPT !.net.hit = @ \cup {i}], i, known)[Len(p[i].do)]

\* And after the first i rules: those of the set that match fire, in order, each
\* on what those before it left.
RuleRun(p, lane, s, set, known) ==
  LET after[i \in 0 .. Len(p)] ==
        IF i = 0 THEN s
        ELSE IF i \in set /\ Holds(p[i].cond, after[i - 1].ctx)
             THEN Fire(p, lane, after[i - 1], i, known)
             ELSE after[i - 1]
  IN after

Start(ctx) == [ctx |-> ctx, orig |-> ctx.meta, net |-> NoIntent]

ResolveWithContext(p, list, ctx, isNew) ==
  LET fires == {i \in list : TriggerMatches(p[i].on, isNew)}
  IN RuleRun(p, "sync", Start(ctx), fires, {})[Len(p)].net

BulkIntent(p, list, ctx, known) ==
  RuleRun(p, "bulk", Start(ctx), list, known)[Len(p)].net

SingleIntent(p, i, known) == Fire(p, "one", Start(Context(Absent)), i, known).net

Writes(net) == [net EXCEPT !.src = {}, !.hit = {}] # NoIntent

-----------------------------------------------------------------------------
(* Materialization                                                         *)

\* A row after a net intent: tags are added, then removed; a series only fills an
\* empty one; columns of a deleted row are not touched.
Materialize(r, net, cat) ==
  LET tags == (r.tags \cup net.add) \ net.rem
  IN IF r.state = "deleted" THEN [r EXCEPT !.tags = tags]
     ELSE [r EXCEPT !.tags = tags,
                    !.category = IF cat = None THEN @ ELSE cat,
                    !.meta = [k \in Key |-> IF net.set[k] # None THEN net.set[k]
                                            ELSE IF k \in net.del THEN None ELSE @[k]],
                    !.series = IF @ = None THEN net.series ELSE @,
                    !.flag = IF net.flag = None THEN @ ELSE net.flag = "flag"]

\* The sync lane announces a tag once in the life of a row.
SyncNote(n, r, net, cat) ==
  LET new == net.add \ n.ever
  IN [n EXCEPT !.ever = @ \cup new, !.on = (@ \cup new) \ (net.rem \cap r.tags),
               !.cat = IF cat = None THEN @ ELSE cat,
               !.silent = @ /\ cat = None]

RetroNoteNetted(n, r, net) ==               \* mutant: added and removed, announced added
  LET new == net.add \ r.tags
  IN [n EXCEPT !.ever = @ \cup new, !.on = (@ \ (net.rem \cap r.tags)) \cup new,
               !.cat = IF net.cat = None THEN @ ELSE net.cat,
               !.silent = @ /\ net.cat = None]

\* The retroactive lane announces every tag it attaches or detaches, and the
\* category whether or not the UPDATE found the row.
RetroNote(n, r, net) ==
  LET new == net.add \ r.tags
  IN [n EXCEPT !.ever = @ \cup new,
               !.on = (@ \cup new) \ (net.rem \cap (r.tags \cup net.add)),
               !.cat = IF net.cat = None THEN @ ELSE net.cat,
               !.silent = @ /\ net.cat = None]

Count(f, S) == [i \in DOMAIN f |-> f[i] + (IF i \in S THEN 1 ELSE 0)]
NoSync == [pc |-> "idle", rules |-> <<>>, list |-> {}, cats |-> {}, t |-> 0, isNew |-> FALSE,
           base |-> Absent, net |-> NoIntent]
NoBatch == [t \in {} |-> NoIntent]
NoRetro == [pc |-> "idle", mode |-> "all", rules |-> <<>>, list |-> {}, net |-> NoIntent,
            at |-> 0, next |-> "scan", batch |-> NoBatch, owed |-> {}, visited |-> {},
            page |-> [i \in Rules |-> 0], hits |-> [i \in Rules |-> 0]]
Locked(t) == sync.pc = "resolved" /\ sync.t = t

-----------------------------------------------------------------------------
(* Sync                                                                    *)

\* NewRuleResolver: rules and categories as they are when the sync starts.  Without
\* the system category it fails, and the sync applies no rules.
SyncLoad ==
  /\ sync.pc = "idle" /\ Uncategorized \in cats
  /\ sync' = [sync EXCEPT !.pc = "loaded", !.rules = rules, !.list = enabled,
                          !.cats = cats]
  /\ UNCHANGED <<tableVars, rowVars, hits, retro, landed, edits>>

\* The flush upserts the row, which locks it and revives a deleted one, and
\* resolves the rules on what it finds.
SyncResolve(t) ==
  LET base == [row[t] EXCEPT !.state = "live"]
      isNew == row[t].state = "none"
  IN /\ sync.pc = "loaded"
     /\ sync' = [sync EXCEPT !.pc = "resolved", !.t = t, !.base = base, !.isNew = isNew,
                             !.net = ResolveWithContext(sync.rules, sync.list, Context(base),
                                                       isNew)]
     /\ UNCHANGED <<tableVars, rowVars, hits, retro, landed, edits>>

SyncCategory == IF sync.net.cat \in sync.cats THEN sync.net.cat ELSE None

\* The writes and the commit; a category deleted since the load fails the
\* foreign key and with it the flush.
SyncCommit ==
  LET t == sync.t
      now == [sync.base EXCEPT !.tags = row[t].tags]
  IN /\ sync.pc = "resolved"
     /\ SyncCategory \in cats \cup {None}
     /\ row' = [row EXCEPT ![t] = Materialize(now, sync.net, SyncCategory)]
     /\ note' = [note EXCEPT ![t] = SyncNote(@, now, sync.net, SyncCategory)]
     /\ landed' = Count(landed, sync.net.hit)
     /\ sync' = [NoSync EXCEPT !.pc = "committed", !.net.hit = sync.net.hit]
     /\ UNCHANGED <<tableVars, hits, retro, edits>>

SyncAbort ==
  /\ sync.pc = "resolved"
  /\ sync' = [NoSync EXCEPT !.pc = "done"]
  /\ UNCHANGED <<tableVars, rowVars, hits, retro, landed, edits>>

FlushHitCountsRetried ==                    \* mutant: a flush that failed half way is run again
  /\ sync.pc = "committed"
  /\ \E S \in SUBSET sync.net.hit : hits' = Count(hits, S)
  /\ UNCHANGED <<tableVars, rowVars, sync, retro, landed, edits>>

\* One UPDATE per rule that matched; the first that fails ends the loop.
FlushHitCounts ==
  /\ sync.pc = "committed"
  /\ \E S \in SUBSET sync.net.hit : hits' = Count(hits, S)
  /\ sync' = [NoSync EXCEPT !.pc = "done"]
  /\ UNCHANGED <<tableVars, rowVars, retro, landed, edits>>

-----------------------------------------------------------------------------
(* Retroactive apply                                                       *)

\* The rows that transactionContextQuery returns.
Listed == {t \in Txn \ matched : row[t].state = "live"}

Begin(mode, list, net) ==
  /\ retro.pc = "idle"
  /\ retro' = [retro EXCEPT !.pc = "scan", !.mode = mode, !.rules = rules, !.list = list,
                            !.net = net, !.owed = Listed]
  /\ UNCHANGED <<tableVars, rowVars, hits, sync, landed, edits>>

ApplyAllStart == enabled # {} /\ Begin("all", enabled, NoIntent)

ApplyRuleStart(i) ==
  LET net == SingleIntent(rules, i, cats)
  IN i \in enabled /\ Writes(net) /\ Begin("one", {i}, net)

Intent(t) ==
  IF retro.mode = "all" THEN BulkIntent(retro.rules, retro.list, RetroContext(row[t]), cats)
  ELSE IF \E i \in retro.list : Holds(retro.rules[i].cond, RetroContext(row[t])) THEN retro.net
  ELSE NoIntent

\* The PageSize rows that follow the cursor in the order of ids.
NextPage ==
  LET rest == {t \in Listed : t > retro.at}
  IN {t \in rest : Cardinality({u \in rest : u < t}) < PageSize}

LastOf(page) == CHOOSE t \in page : \A u \in page : u <= t

Matches(net, page) == [i \in Rules |-> Cardinality({t \in page : i \in net[t].hit})]
Plus(f, g) == [i \in DOMAIN f |-> f[i] + g[i]]

\* Reads one page outside any transaction and computes the intents; a page that
\* asks for no write has no batch.
ReadPage ==
  LET page == NextPage
      net == [t \in page |-> Intent(t)]
      batch == {t \in page : Writes(net[t])}
      short == Cardinality(page) < PageSize
      next == IF short THEN "finish" ELSE "scan"
  IN /\ retro.pc = "scan"
     /\ retro' = [retro EXCEPT
          !.at = IF page = {} THEN @ ELSE LastOf(page),
          !.pc = IF batch = {} THEN next ELSE "batch",
          !.next = next,
          !.batch = [t \in batch |-> net[t]],
          !.visited = @ \cup page,
          !.page = Matches(net, page),
          !.hits = Plus(@, Matches(net, page))]
     /\ landed' = IF batch = {} THEN Plus(landed, Matches(net, page)) ELSE landed
     /\ UNCHANGED <<tableVars, rowVars, hits, sync, edits>>

\* The batch in one transaction, on the rows as they are by then.
CommitBatch ==
  LET B == DOMAIN retro.batch
  IN /\ retro.pc = "batch"
     /\ \A t \in B : ~Locked(t) /\ retro.batch[t].cat \in cats \cup {None}
     /\ row' = [t \in Txn |-> IF t \in B
                  THEN Materialize(row[t], retro.batch[t], retro.batch[t].cat) ELSE row[t]]
     /\ note' = [t \in Txn |-> IF t \in B
                  THEN RetroNote(note[t], row[t], retro.batch[t]) ELSE note[t]]
     /\ landed' = Plus(landed, retro.page)
     /\ retro' = [retro EXCEPT !.pc = retro.next, !.batch = NoBatch]
     /\ UNCHANGED <<tableVars, hits, sync, edits>>

\* Any error ends the apply: earlier batches stay, the counts are not written.
ApplyFails ==
  /\ retro.pc \in {"scan", "batch"}
  /\ retro' = [NoRetro EXCEPT !.pc = "failed"]
  /\ UNCHANGED <<tableVars, rowVars, hits, sync, landed, edits>>

\* One UPDATE per rule; errors are ignored.
ApplyFinish ==
  /\ retro.pc = "finish"
  /\ \E S \in SUBSET Rules :
       hits' = [i \in Rules |-> hits[i] + (IF i \in S THEN retro.hits[i] ELSE 0)]
  /\ retro' = [NoRetro EXCEPT !.pc = "done"]
  /\ UNCHANGED <<tableVars, rowVars, sync, landed, edits>>

-----------------------------------------------------------------------------
(* Users and agents                                                        *)

Edit == edits < MaxEdits /\ edits' = edits + 1 /\ UNCHANGED <<hits, sync, landed>>
EditRow(t, r, n) ==
  /\ Edit /\ row[t].state # "none" /\ row' = [row EXCEPT ![t] = r]
  /\ note' = [note EXCEPT ![t] = n]
  /\ UNCHANGED <<tableVars, retro>>

\* A deleted row is found by its UUID: only the metadata and the flag ask whether
\* the row is live.
SetTransactionCategory(t, c) ==
  c \in cats /\ ~Locked(t)
  /\ EditRow(t, [row[t] EXCEPT !.category = c],
             [note[t] EXCEPT !.cat = c, !.silent = FALSE])

\* Tags live in a table of their own: the flush's lock on the row lets them pass.
AddTransactionTag(t, x) ==
  x \notin row[t].tags
  /\ EditRow(t, [row[t] EXCEPT !.tags = @ \cup {x}],
             [note[t] EXCEPT !.ever = @ \cup {x}, !.on = @ \cup {x}])
RemoveTransactionTag(t, x) ==
  x \in row[t].tags
  /\ EditRow(t, [row[t] EXCEPT !.tags = @ \ {x}], [note[t] EXCEPT !.on = @ \ {x}])

SetTransactionMetadata(t, k, v) ==
  /\ ~Locked(t) /\ row[t].state = "live"
  /\ EditRow(t, [row[t] EXCEPT !.meta[k] = v], note[t])
SetTransactionFlag(t, f) ==
  /\ ~Locked(t) /\ row[t].state = "live"
  /\ EditRow(t, [row[t] EXCEPT !.flag = f], note[t])

DeleteTransaction(t) ==
  /\ ~Locked(t) /\ Edit /\ row[t].state = "live"
  /\ row' = [row EXCEPT ![t].state = "deleted"]
  /\ note' = [note EXCEPT ![t].gone = TRUE]
  /\ retro' = [retro EXCEPT !.owed = @ \ {t}]
  /\ UNCHANGED tableVars
RestoreTransaction(t) ==
  /\ ~Locked(t) /\ row[t].state = "deleted"
  /\ EditRow(t, [row[t] EXCEPT !.state = "live"], note[t])

\* Reconciliation or a user matches the row of a dependent account, or ends the
\* match.
ToggleMatch(t) ==
  /\ Edit /\ row[t].state # "none"
  /\ matched' = IF t \in matched THEN matched \ {t} ELSE matched \cup {t}
  /\ retro' = [retro EXCEPT !.owed = @ \ {t}]
  /\ UNCHANGED <<rules, enabled, cats, orphans, rowVars>>

\* BulkRecategorizeByFilter: one UPDATE of the listed rows that a filter finds, and
\* no annotation.
BulkRecategorize(S, c) ==
  /\ Edit /\ c \in cats /\ S # {} /\ S \subseteq Listed /\ \A t \in S : ~Locked(t)
  /\ row' = [t \in Txn |-> IF t \in S THEN [row[t] EXCEPT !.category = c] ELSE row[t]]
  /\ note' = [t \in Txn |-> IF t \in S THEN [note[t] EXCEPT !.silent = TRUE] ELSE note[t]]
  /\ UNCHANGED <<tableVars, retro>>

\* The foreign key clears the category of the rows that have it.
Cleared(r, c) == IF r.category = c THEN [r EXCEPT !.category = None] ELSE r

\* The first statement of DeleteCategory; the second comes in ReassignOrphans.
DeleteCategory(c) ==
  /\ Edit /\ c \in cats \ {Uncategorized}
  /\ \A t \in Txn : row[t].category = c => ~Locked(t)
  /\ cats' = cats \ {c} /\ orphans' = TRUE
  /\ row' = [t \in Txn |-> Cleared(row[t], c)]
  /\ UNCHANGED <<rules, enabled, matched, note, retro>>

\* Every live row without a category becomes uncategorized, unless the statement
\* fails or there is no such category.
Orphans == {t \in Txn : row[t].state = "live" /\ row[t].category = None}
ReassignOrphans ==
  /\ orphans /\ orphans' = FALSE
  /\ \/ UNCHANGED row
     \/ /\ Uncategorized \in cats /\ \A t \in Orphans : ~Locked(t)
        /\ row' = [t \in Txn |-> IF t \in Orphans
                     THEN [row[t] EXCEPT !.category = Uncategorized] ELSE row[t]]
  /\ UNCHANGED <<rules, enabled, cats, matched, note, hits, sync, retro, landed, edits>>

\* One transaction: live rows and the actions of rules take the target, deleted
\* rows lose their category with the source.  Nobody asks which category it is.
Repoint(a, c, d) ==
  IF a.type = "set_category" /\ a.arg = c THEN [a EXCEPT !.arg = d] ELSE a
MergeCategories(c, d) ==
  /\ Edit /\ c \in cats /\ d \in cats \ {c}
  /\ \A t \in Txn : row[t].category = c => ~Locked(t)
  /\ cats' = cats \ {c}
  /\ row' = [t \in Txn |-> IF row[t].category = c /\ row[t].state = "live"
               THEN [row[t] EXCEPT !.category = d] ELSE Cleared(row[t], c)]
  /\ rules' = [i \in Rules |-> [rules[i] EXCEPT !.do =
                 [n \in DOMAIN rules[i].do |-> Repoint(rules[i].do[n], c, d)]]]
  /\ UNCHANGED <<enabled, orphans, matched, note, retro>>

\* The foreign keys take the tag off every row and out of the annotations, which
\* then speak of a tag that does not exist.
DeleteTag(x) ==
  /\ Edit
  /\ row' = [t \in Txn |-> [row[t] EXCEPT !.tags = @ \ {x}]]
  /\ note' = [t \in Txn |-> [note[t] EXCEPT !.ever = @ \ {x}, !.on = @ \ {x}]]
  /\ UNCHANGED <<tableVars, retro>>

ToggleRule(i) ==
  /\ Edit
  /\ enabled' = IF i \in enabled THEN enabled \ {i} ELSE enabled \cup {i}
  /\ UNCHANGED <<rules, cats, orphans, matched, rowVars, retro>>

-----------------------------------------------------------------------------
Init ==
  /\ rules \in RuleLists /\ enabled = Rules /\ cats = Category
  /\ orphans = FALSE /\ matched = {}
  /\ row \in FirstRows
  /\ note = [t \in Txn |-> [ever |-> row[t].tags, on |-> row[t].tags,
                            cat |-> row[t].category, gone |-> row[t].state = "deleted",
                            silent |-> FALSE]]
  /\ hits = [i \in Rules |-> 0] /\ landed = [i \in Rules |-> 0] /\ edits = 0
  /\ sync = NoSync /\ retro = NoRetro

Edits ==
  \/ \E t \in Txn : \/ \E c \in Category : SetTransactionCategory(t, c)
                    \/ \E x \in Tag : AddTransactionTag(t, x) \/ RemoveTransactionTag(t, x)
                    \/ \E k \in Key, v \in Value \cup {None} : SetTransactionMetadata(t, k, v)
                    \/ \E f \in BOOLEAN : SetTransactionFlag(t, f)
                    \/ DeleteTransaction(t) \/ RestoreTransaction(t) \/ ToggleMatch(t)
  \/ \E c \in Category : \/ DeleteCategory(c)
                         \/ \E S \in SUBSET Txn : BulkRecategorize(S, c)
                         \/ \E d \in Category : MergeCategories(c, d)
  \/ ReassignOrphans
  \/ \E x \in Tag : DeleteTag(x)
  \/ \E i \in Rules : ToggleRule(i)

Next ==
  \/ SyncLoad \/ (\E t \in Txn : SyncResolve(t)) \/ SyncCommit \/ SyncAbort \/ FlushHitCounts
  \/ ApplyAllStart \/ (\E i \in Rules : ApplyRuleStart(i))
  \/ ReadPage \/ CommitBatch \/ ApplyFails \/ ApplyFinish
  \/ Edits

Spec == Init /\ [][Next]_vars

-----------------------------------------------------------------------------
(* Properties                                                              *)

Writable(net) ==
  /\ net.cat \in Category \cup {None} /\ net.add \cup net.rem \subseteq Tag
  /\ net.set \in [Key -> Value \cup {None}] /\ net.del \subseteq Key
  /\ net.series \in Series \cup {None} /\ net.flag \in {"flag", "unflag", None}
  /\ net.hit \subseteq Rules

\* Types; and no metadata key is set and removed by the same intent.
TypeOK ==
  /\ rules \in Seq(Rule) /\ enabled \subseteq Rules /\ cats \subseteq Category
  /\ orphans \in BOOLEAN /\ matched \subseteq Txn /\ edits \in 0 .. MaxEdits
  /\ row \in [Txn -> Row]
  /\ hits \in [Rules -> Nat] /\ landed \in [Rules -> Nat]
  /\ sync.pc \in {"idle", "loaded", "resolved", "committed", "done"}
  /\ retro.pc \in {"idle", "scan", "batch", "finish", "done", "failed"}
  /\ sync.base \in Row /\ Writable(sync.net)
  /\ \A t \in DOMAIN retro.batch : Writable(retro.batch[t])
  /\ \A k \in sync.net.del : sync.net.set[k] = None

\* What somebody would do who ran the actions of the matching rules on the row
\* one after the other, looking at the row before each rule.
DirectAct(r, a) ==
  CASE a.type = "set_category"    -> [r EXCEPT !.category = a.arg]
    [] a.type = "add_tag"         -> [r EXCEPT !.tags = @ \cup {a.arg}]
    [] a.type = "remove_tag"      -> [r EXCEPT !.tags = @ \ {a.arg}]
    [] a.type = "set_metadata"    -> [r EXCEPT !.meta[a.arg] = a.value]
    [] a.type = "remove_metadata" -> [r EXCEPT !.meta[a.arg] = None]
    [] a.type = "flag"            -> [r EXCEPT !.flag = TRUE]
    [] a.type = "unflag"          -> [r EXCEPT !.flag = FALSE]
    [] OTHER                      -> r

DirectStep(d, a) ==
  [d EXCEPT !.row = DirectAct(d.row, a),
            !.added = IF a.type = "add_tag" THEN d.added \cup {a.arg} ELSE d.added]

DirectActions(p, d, i) ==
  LET after[n \in 0 .. Len(p[i].do)] ==
        IF n = 0 THEN d ELSE DirectStep(after[n - 1], p[i].do[n])
  IN after

DirectRules(p, base, list, isNew) ==
  LET after[i \in 0 .. Len(p)] ==
        IF i = 0 THEN [row |-> base, added |-> {}, hit |-> {}]
        ELSE IF /\ i \in list /\ TriggerMatches(p[i].on, isNew)
                /\ Holds(p[i].cond, [Context(after[i - 1].row) EXCEPT !.series = base.series])
             THEN DirectActions(p, [after[i - 1] EXCEPT !.hit = @ \cup {i}], i)[Len(p[i].do)]
             ELSE after[i - 1]
  IN after

Direct(p, list, base, isNew) == DirectRules(p, base, list, isNew)[Len(p)]

\* A tag that the pass adds and a later action of it removes is left as it was.
LandsLike(d, base, r) ==
  LET cancelled == d.added \ d.row.tags
  IN /\ r.category = d.row.category /\ r.meta = d.row.meta /\ r.flag = d.row.flag
     /\ r.tags = d.row.tags \cup (cancelled \cap base.tags)

\* The audit trail of a pass names each surviving write once, and a rule that
\* matched and asks for it; the last such rule where the last writer wins.
AsksFor(a, s) ==
  CASE s.field = "category"        -> a.type = "set_category" /\ a.arg = s.value
    [] s.field = "tag"             -> a.type = "add_tag" /\ a.arg = s.value
    [] s.field = "tag_remove"      -> a.type = "remove_tag" /\ a.arg = s.value
    [] s.field = "metadata"        -> a.type = "set_metadata" /\ a.arg = s.value
    [] s.field = "metadata_remove" -> a.type = "remove_metadata" /\ a.arg = s.value
    [] s.field = "series"          -> a.type = "assign_series" /\ a.arg = s.value
    [] s.field = "comment"         -> a.type = "add_comment" /\ a.arg = s.value
    [] OTHER                       -> a.type = s.field
Asks(p, i, s) == \E n \in DOMAIN p[i].do : AsksFor(p[i].do[n], s)
LastWins(field) == field \in {"category", "series", "metadata", "flag", "unflag"}

Provenance(p, net) ==
  LET trail == {s \in net.src : s.field # "comment"}
  IN /\ {<<s.field, s.value>> : s \in trail} =
          {<<"category", c>> : c \in {net.cat} \ {None}}
            \cup {<<"tag", x>> : x \in net.add} \cup {<<"tag_remove", x>> : x \in net.rem}
            \cup {<<"metadata", k>> : k \in {q \in Key : net.set[q] # None}}
            \cup {<<"metadata_remove", k>> : k \in net.del}
            \cup {<<"series", e>> : e \in {net.series} \ {None}}
            \cup {<<f, None>> : f \in {net.flag} \ {None}}
     /\ \A s, q \in trail : s.field = q.field /\ s.value = q.value => s = q
     /\ \A s \in trail : s.rule \in net.hit /\ Asks(p, s.rule, s)
     /\ \A s \in trail : \A i \in net.hit :
          LastWins(s.field) /\ Asks(p, i, s) => i <= s.rule

\* The net intent of a sync pass is what running the matching rules, as the flush
\* loaded them, in pipeline order would leave, whatever they add, remove, set and
\* undo of each other, save that a tag added and removed in one pass stays as it
\* was; it counts exactly the rules that matched and credits the right ones.  A
\* metadata key set and then removed in one pass is removed from the stored row
\* (rule_resolver.go:801-829), though the documentation has the two cancel
\* (docs/rule-dsl.md:339).
NetIntent ==
  sync.pc = "resolved" =>
    LET d == Direct(sync.rules, sync.list, sync.base, sync.isNew)
    IN /\ LandsLike(d, sync.base, Materialize(sync.base, sync.net, sync.net.cat))
       /\ sync.net.hit = d.hit
       /\ Provenance(sync.rules, sync.net)

\* Applying all rules to a stored row that the apply reads leaves it as a sync of
\* the changed row would, as long as no rule waits for a trigger or reads the
\* category, and every category the rules name exists.  That includes the series
\* (rules.go:2401-2404), which the documentation leaves out (docs/rule-dsl.md:312).
Comparable(i) ==
  /\ TriggerMatches(rules[i].on, FALSE) /\ rules[i].cond.field # "category"
  /\ \A n \in DOMAIN rules[i].do :
       rules[i].do[n].type = "set_category" => rules[i].do[n].arg \in cats
LanesAgree ==
  (\A i \in enabled : Comparable(i)) =>
    \A t \in Listed :
      LET s == ResolveWithContext(rules, enabled, Context(row[t]), FALSE)
          b == BulkIntent(rules, enabled, RetroContext(row[t]), cats)
      IN Materialize(row[t], s, s.cat) = Materialize(row[t], b, b.cat) /\ s.hit = b.hit

\* The annotations do not contradict the row: a tag that is gone was announced
\* gone, a tag that is there was announced at least once, and a live row has the
\* category last announced.  Exceptions are what the code does without a word:
\* deleting a tag or a category, merging categories and recategorizing in bulk;
\* and a row that was ever deleted, whose category a retroactive apply announces
\* though its UPDATE passes the row over.
HistoryTruthful ==
  \A t \in Txn :
    /\ note[t].on \subseteq row[t].tags /\ row[t].tags \subseteq note[t].ever
    /\ /\ row[t].state = "live" /\ ~note[t].gone /\ ~note[t].silent
       /\ note[t].cat \in cats
       => row[t].category = note[t].cat

\* A hit is counted only for a row whose writes committed, never twice; and a
\* retroactive apply that finishes has visited every row that was listed
\* throughout.
PassAccounted ==
  /\ \A i \in Rules : hits[i] <= landed[i]
  /\ retro.pc = "finish" => retro.owed \subseteq retro.visited
=============================================================================

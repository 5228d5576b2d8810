---------------------------- MODULE RuleFoldProofs ----------------------------
(***************************************************************************)
(* What the fold of the transaction rules computes, for every rule table:    *)
(* the net intent of a sync pass does what running the matching rules one    *)
(* after the other would, its sources are the audit trail of the pass, and   *)
(* the bulk lane asks for the same as the sync lane.  The proofs go by       *)
(* induction over the rules and over the actions of a rule.                  *)
(***************************************************************************)
EXTENDS RuleApply, WellFoundedInduction, TLAPS

-----------------------------------------------------------------------------
(* Induction over an interval, and recursion along it                      *)

\* A set of natural numbers has a least element.
LEMMA LeastNatural ==
  ASSUME NEW S, S \subseteq Nat, S # {}
  PROVE  \E m \in S : \A n \in S : m <= n
<1>. DEFINE R == {ss \in Nat \X Nat : ss[1] < ss[2]}
<1>1. IsWellFoundedOn(R, Nat)
  BY NatLessThanWellFounded DEF OpToRel
<1>2. \E m \in S : \A n \in S : ~ (<<n, m>> \in R)
  <2>. HIDE DEF R
  <2>. QED BY <1>1, WFMin
<1>3. PICK m \in S : \A n \in S : ~ (<<n, m>> \in R)
  BY <1>2
<1>4. \A n \in S : ~ (n < m)
  BY <1>3
<1>. QED BY <1>4

\* A set that has 0 and with n - 1 also n, up to N, has all of 0 .. N.
LEMMA UpTo ==
  ASSUME NEW N \in Nat, NEW S, 0 \in S, \A n \in 1 .. N : n - 1 \in S => n \in S
  PROVE  \A n \in 0 .. N : n \in S
<1>. DEFINE T == (0 .. N) \ S
<1>. SUFFICES ASSUME T # {} PROVE FALSE
  OBVIOUS
<1>1. T \subseteq Nat
  OBVIOUS
<1>2. \E m \in T : \A n \in T : m <= n
  <2>. HIDE DEF T
  <2>. QED BY <1>1, LeastNatural
<1>3. PICK m \in T : \A n \in T : m <= n
  BY <1>2
<1>4. m \in 1 .. N /\ m - 1 \in 0 .. N /\ m - 1 \notin T
  BY <1>3
<1>. QED BY <1>3, <1>4

\* F[n] is the n-th step of a recursion with values in A; f is what it defines.
StepsStayIn(F, N, A) == \A n \in 1 .. N : \A v \in A : F[n][v] \in A
RunOf(f, F, N, A, c) == /\ f \in [0 .. N -> A] /\ f[0] = c
                        /\ \A n \in 1 .. N : f[n] = F[n][f[n - 1]]

\* Primitive recursion along an interval defines a function.
LEMMA RecursionDefines ==
  ASSUME NEW N \in Nat, NEW A, NEW c \in A, NEW F, StepsStayIn(F, N, A)
  PROVE  \E f : RunOf(f, F, N, A, c)
<1>. USE DEF StepsStayIn, RunOf
<1>. DEFINE Upto(g, m) == RunOf(g, F, m, A, c)
            S == {m \in Nat : \E g : Upto(g, m)}
<1>1. 0 \in S
  <2>1. Upto([n \in 0 .. 0 |-> c], 0)
    OBVIOUS
  <2>. QED BY <2>1
<1>2. ASSUME NEW m \in 1 .. N, m - 1 \in S PROVE m \in S
  <2>1. PICK g : Upto(g, m - 1)
    BY <1>2
  <2>. DEFINE h == [n \in 0 .. m |-> IF n = m THEN F[m][g[m - 1]] ELSE g[n]]
  <2>2. g[m - 1] \in A /\ F[m][g[m - 1]] \in A
    BY <2>1
  <2>3. h \in [0 .. m -> A] /\ h[0] = c
    BY <2>1, <2>2
  <2>4. ASSUME NEW n \in 1 .. m PROVE h[n] = F[n][h[n - 1]]
    <3>1. CASE n = m
      <4>1. m - 1 \in 0 .. m /\ m - 1 # m /\ m \in 0 .. m
        OBVIOUS
      <4>2. h[m - 1] = g[m - 1] /\ h[m] = F[m][g[m - 1]]
        BY <4>1
      <4>. QED BY <3>1, <4>2
    <3>2. CASE n # m
      <4>1. n \in 1 .. (m - 1) /\ h[n] = g[n] /\ h[n - 1] = g[n - 1]
        BY <3>2
      <4>. QED BY <4>1, <2>1
    <3>. QED BY <3>1, <3>2
  <2>5. Upto(h, m)
    BY <2>3, <2>4
  <2>6. \E k : Upto(k, m)
    <3>. HIDE DEF h, Upto
    <3>. QED BY <2>5
  <2>. QED BY <2>6
<1>3. N \in S
  <2>. HIDE DEF S
  <2>. QED BY <1>1, <1>2, UpTo
<1>4. PICK f : Upto(f, N)
  BY <1>3
<1>. QED BY <1>4

\* A function that follows the steps of a recursion is its run.
OnInterval(r, N) == r = [n \in 0 .. N |-> r[n]]
LEMMA FollowsSteps ==
  ASSUME NEW N \in Nat, NEW A, NEW c \in A, NEW F, StepsStayIn(F, N, A), NEW r,
         OnInterval(r, N), r[0] = c,
         \A n \in 1 .. N : r[n - 1] \in A => r[n] = F[n][r[n - 1]]
  PROVE  RunOf(r, F, N, A, c)
<1>. DEFINE S == {m \in 0 .. N : r[m] \in A}
<1>1. 0 \in S
  OBVIOUS
<1>2. ASSUME NEW n \in 1 .. N, n - 1 \in S PROVE n \in S
  BY <1>2 DEF StepsStayIn
<1>3. \A n \in 0 .. N : n \in S
  <2>. HIDE DEF S
  <2>. QED BY <1>1, <1>2, UpTo
<1>4. r \in [0 .. N -> A]
  BY <1>3 DEF OnInterval
<1>. QED BY <1>3, <1>4 DEF RunOf

-----------------------------------------------------------------------------
(* Types of the fold                                                       *)

Meta == [Key -> Value \cup {None}]
Ctx == [category : Category \cup {None}, tags : SUBSET Tag, meta : Meta,
        series : Series \cup {None}]
Fields == {"category", "tag", "tag_remove", "metadata", "metadata_remove", "series",
           "flag", "unflag", "comment"}
Source == [rule : Nat, field : Fields,
           value : Category \cup Tag \cup Key \cup Series \cup {None}]
Net == [cat : Category \cup {None}, add : SUBSET Tag, rem : SUBSET Tag, set : Meta,
        del : SUBSET Key, series : Series \cup {None}, flag : {"flag", "unflag", None},
        src : SUBSET Source, hit : SUBSET Nat]
FoldState == [ctx : Ctx, orig : Meta, net : Net]

LEMMA SourceType ==
  ASSUME NEW i \in Nat, NEW f \in Fields,
         NEW v \in Category \cup Tag \cup Key \cup Series \cup {None}
  PROVE  Src(i, f, v) \in Source
BY DEF Src, Source

LEMMA DropType ==
  ASSUME NEW src \in SUBSET Source, NEW f, NEW v, NEW fs
  PROVE  Drop(src, f, v) \in SUBSET Source /\ DropField(src, fs) \in SUBSET Source
BY DEF Drop, DropField

LEMMA FoldStateType ==
  ASSUME NEW s \in FoldState
  PROVE  s.ctx \in Ctx /\ s.orig \in Meta /\ s.net \in Net /\ s.net.src \in SUBSET Source
BY DEF FoldState, Net

LEMMA SetCategoryType ==
  ASSUME NEW s \in FoldState, NEW c \in Category, NEW i \in Nat
  PROVE  SetCategory(s, c, i) \in FoldState
<1>1. Src(i, "category", c) \in Source
  BY SourceType DEF Fields
<1>2. DropField(s.net.src, {"category"}) \in SUBSET Source
  BY DropType, FoldStateType
<1>. QED BY <1>1, <1>2 DEF SetCategory, FoldState, Ctx, Net

LEMMA AddTagType ==
  ASSUME NEW s \in FoldState, NEW x \in Tag, NEW i \in Nat
  PROVE  AddTag(s, x, i) \in FoldState
<1>1. Src(i, "tag", x) \in Source
  BY SourceType DEF Fields
<1>2. s.net.src \in SUBSET Source /\ Drop(s.net.src, "tag_remove", x) \in SUBSET Source
  BY DropType, FoldStateType
<1>. QED BY <1>1, <1>2 DEF AddTag, FoldState, Ctx, Net

LEMMA RemoveTagType ==
  ASSUME NEW s \in FoldState, NEW x \in Tag, NEW i \in Nat
  PROVE  RemoveTag(s, x, i) \in FoldState
<1>1. Src(i, "tag_remove", x) \in Source
  BY SourceType DEF Fields
<1>2. s.net.src \in SUBSET Source /\ Drop(s.net.src, "tag", x) \in SUBSET Source
  BY DropType, FoldStateType
<1>. QED BY <1>1, <1>2, ZenonT(40) DEF RemoveTag, FoldState, Ctx, Net

LEMMA SetMetadataType ==
  ASSUME NEW s \in FoldState, NEW k \in Key, NEW v \in Value, NEW i \in Nat
  PROVE  SetMetadata(s, k, v, i) \in FoldState
<1>1. Src(i, "metadata", k) \in Source
  BY SourceType DEF Fields
<1>2. Drop(s.net.src, "metadata_remove", k) \in SUBSET Source
  BY DropType, FoldStateType
<1>3. Drop(Drop(s.net.src, "metadata_remove", k), "metadata", k) \in SUBSET Source
  BY <1>2, DropType
<1>. QED BY <1>1, <1>2, <1>3 DEF SetMetadata, Meta, FoldState, Ctx, Net

LEMMA RemoveMetadataType ==
  ASSUME NEW s \in FoldState, NEW k \in Key, NEW i \in Nat
  PROVE  RemoveMetadata(s, k, i) \in FoldState
<1>1. Src(i, "metadata_remove", k) \in Source
  BY SourceType DEF Fields
<1>2. Drop(s.net.src, "metadata", k) \in SUBSET Source
  BY DropType, FoldStateType
<1>. QED BY <1>1, <1>2 DEF RemoveMetadata, Meta, FoldState, Ctx, Net

LEMMA RetroRemoveMetadataType ==
  ASSUME NEW s \in FoldState, NEW k \in Key
  PROVE  RetroRemoveMetadata(s, k) \in FoldState
BY DEF RetroRemoveMetadata, Meta, FoldState, Ctx, Net

LEMMA AssignSeriesType ==
  ASSUME NEW s \in FoldState, NEW e \in Series, NEW i \in Nat
  PROVE  AssignSeries(s, e, i) \in FoldState
<1>1. Src(i, "series", e) \in Source
  BY SourceType DEF Fields
<1>2. DropField(s.net.src, {"series"}) \in SUBSET Source
  BY DropType, FoldStateType
<1>. QED BY <1>1, <1>2 DEF AssignSeries, FoldState, Ctx, Net

LEMMA SetFlagType ==
  ASSUME NEW s \in FoldState, NEW f \in {"flag", "unflag"}, NEW i \in Nat
  PROVE  SetFlag(s, f, i) \in FoldState
<1>1. Src(i, f, None) \in Source
  BY SourceType DEF Fields
<1>2. DropField(s.net.src, {"flag", "unflag"}) \in SUBSET Source
  BY DropType, FoldStateType
<1>. QED BY <1>1, <1>2 DEF SetFlag, FoldState, Ctx, Net

-----------------------------------------------------------------------------
(* One action                                                              *)

LEMMA ActionCases ==
  ASSUME NEW a \in Action
  PROVE  \/ a.type = "set_category" /\ a.arg \in Category
         \/ a.type = "add_tag" /\ a.arg \in Tag
         \/ a.type = "remove_tag" /\ a.arg \in Tag
         \/ a.type = "assign_series" /\ a.arg \in Series
         \/ a.type = "set_metadata" /\ a.arg \in Key /\ a.value \in Value
         \/ a.type = "remove_metadata" /\ a.arg \in Key
         \/ a.type = "add_comment" /\ a.arg = None
         \/ a.type \in {"flag", "unflag"} /\ a.arg = None
BY DEF Action

AddComment(s, a, i) == [s EXCEPT !.net.src = @ \cup {Src(i, "comment", a.arg)}]

LEMMA SyncActIs ==
  ASSUME NEW s, NEW a, NEW i
  PROVE  /\ a.type = "set_category" => SyncAct(s, a, i) = SetCategory(s, a.arg, i)
         /\ a.type = "add_tag" => SyncAct(s, a, i) = AddTag(s, a.arg, i)
         /\ a.type = "remove_tag" => SyncAct(s, a, i) = RemoveTag(s, a.arg, i)
         /\ a.type = "add_comment" => SyncAct(s, a, i) = AddComment(s, a, i)
         /\ a.type = "assign_series" => SyncAct(s, a, i) = AssignSeries(s, a.arg, i)
         /\ a.type = "set_metadata" => SyncAct(s, a, i) = SetMetadata(s, a.arg, a.value, i)
         /\ a.type = "remove_metadata" => SyncAct(s, a, i) = RemoveMetadata(s, a.arg, i)
         /\ a.type \in {"flag", "unflag"} => SyncAct(s, a, i) = SetFlag(s, a.type, i)
BY DEF SyncAct, AddComment

LEMMA RetroActIs ==
  ASSUME NEW s, NEW a, NEW i, NEW known
  PROVE  /\ a.type = "set_category" =>
              RetroAct(s, a, i, known) = RetroSetCategory(s, a.arg, i, known)
         /\ a.type = "add_tag" => RetroAct(s, a, i, known) = AddTag(s, a.arg, i)
         /\ a.type = "remove_tag" => RetroAct(s, a, i, known) = RemoveTag(s, a.arg, i)
         /\ a.type = "add_comment" => RetroAct(s, a, i, known) = s
         /\ a.type = "assign_series" => RetroAct(s, a, i, known) = AssignSeries(s, a.arg, i)
         /\ a.type = "set_metadata" =>
              RetroAct(s, a, i, known) = SetMetadata(s, a.arg, a.value, i)
         /\ a.type = "remove_metadata" =>
              RetroAct(s, a, i, known) = RetroRemoveMetadata(s, a.arg)
         /\ a.type \in {"flag", "unflag"} => RetroAct(s, a, i, known) = SetFlag(s, a.type, i)
BY DEF RetroAct

LEMMA AddCommentType ==
  ASSUME NEW s \in FoldState, NEW a, a.arg = None, NEW i \in Nat
  PROVE  AddComment(s, a, i) \in FoldState
<1>1. Src(i, "comment", a.arg) \in Source
  BY SourceType DEF Fields
<1>2. s.net.src \in SUBSET Source
  BY FoldStateType
<1>. QED BY <1>1, <1>2 DEF AddComment, FoldState, Net

LEMMA SyncActType ==
  ASSUME NEW s \in FoldState, NEW a \in Action, NEW i \in Nat
  PROVE  SyncAct(s, a, i) \in FoldState
BY ActionCases, SyncActIs, SetCategoryType, AddTagType, RemoveTagType, AddCommentType,
   AssignSeriesType, SetMetadataType, RemoveMetadataType, SetFlagType

LEMMA RetroActType ==
  ASSUME NEW s \in FoldState, NEW a \in Action, NEW i \in Nat, NEW known
  PROVE  RetroAct(s, a, i, known) \in FoldState
BY ActionCases, RetroActIs, SetCategoryType, AddTagType, RemoveTagType, AssignSeriesType,
   SetMetadataType, RetroRemoveMetadataType, SetFlagType DEF RetroSetCategory

LEMMA CollectActType ==
  ASSUME NEW s \in FoldState, NEW a \in Action, NEW i \in Nat, NEW known
  PROVE  CollectAct(s, a, i, known) \in FoldState
<1>1. CASE a.type = "add_tag"
  <2>1. CollectAct(s, a, i, known) = [s EXCEPT !.net.add = s.net.add \cup {a.arg}] /\ a.arg \in Tag
    BY <1>1, ActionCases DEF CollectAct
  <2>. QED BY <2>1 DEF FoldState, Net
<1>2. CASE a.type = "remove_tag"
  <2>1. CollectAct(s, a, i, known) = [s EXCEPT !.net.rem = s.net.rem \cup {a.arg}] /\ a.arg \in Tag
    BY <1>2, ActionCases DEF CollectAct
  <2>. QED BY <2>1 DEF FoldState, Net
<1>3. CASE a.type \notin {"add_tag", "remove_tag"}
  <2>1. CollectAct(s, a, i, known) = RetroAct(s, a, i, known)
    BY <1>3 DEF CollectAct
  <2>. QED BY <2>1, RetroActType
<1>. QED BY <1>1, <1>2, <1>3

Lane == {"sync", "bulk", "one"}

LEMMA PerformType ==
  ASSUME NEW lane \in Lane, NEW s \in FoldState, NEW a \in Action, NEW i \in Nat, NEW known
  PROVE  Perform(lane, s, a, i, known) \in FoldState
BY SyncActType, RetroActType, CollectActType DEF Perform, Lane

-----------------------------------------------------------------------------
(* The runs: the recursive functions have the values their equations say      *)

LEMMA TableType ==
  ASSUME NEW p \in Seq(Rule), NEW i \in 1 .. Len(p)
  PROVE  /\ Len(p) \in Nat /\ p[i] \in Rule /\ p[i].cond \in Condition
         /\ p[i].do \in Seq(Action) /\ Len(p[i].do) \in Nat
         /\ DOMAIN p[i].do = 1 .. Len(p[i].do)
         /\ \A n \in 1 .. Len(p[i].do) : p[i].do[n] \in Action
<1>1. Len(p) \in Nat /\ p[i] \in Rule
  OBVIOUS
<1>2. p[i].cond \in Condition /\ p[i].do \in Seq(Action)
  BY <1>1 DEF Rule
<1>. QED BY <1>1, <1>2

LEMMA ActionRunDef ==
  ASSUME NEW p \in Seq(Rule), NEW i \in 1 .. Len(p), NEW lane \in Lane,
         NEW s \in FoldState, NEW known
  PROVE  LET Run == ActionRun(p, lane, s, i, known)
         IN  /\ Run \in [0 .. Len(p[i].do) -> FoldState] /\ Run[0] = s
             /\ \A n \in 1 .. Len(p[i].do) : Run[n] =
                    Perform(lane, Run[n - 1], p[i].do[n], i, known)
<1>. DEFINE N == Len(p[i].do)
            F == [n \in 1 .. N |-> [v \in FoldState |-> Perform(lane, v, p[i].do[n], i, known)]]
            Run == ActionRun(p, lane, s, i, known)
<1>1. N \in Nat /\ StepsStayIn(F, N, FoldState)
  BY TableType, PerformType DEF StepsStayIn
<1>2. s \in FoldState
  OBVIOUS
<1>3. PICK f : RunOf(f, F, N, FoldState, s)
  <2>. HIDE DEF F, N, Run
  <2>. QED BY <1>1, <1>2, RecursionDefines
<1>4. ASSUME NEW n \in 0 .. N
      PROVE  f[n] = IF n = 0 THEN s ELSE Perform(lane, f[n - 1], p[i].do[n], i, known)
  <2>1. CASE n = 0
    BY <2>1, <1>3 DEF RunOf
  <2>2. CASE n # 0
    <3>1. n \in 1 .. N /\ n - 1 \in 0 .. N
      BY <2>2, <1>1
    <3>2. f[n - 1] \in FoldState /\ f[n] = F[n][f[n - 1]]
      BY <3>1, <1>3 DEF RunOf
    <3>. QED BY <2>2, <3>1, <3>2
  <2>. QED BY <2>1, <2>2
<1>5. f = [n \in 0 .. N |-> IF n = 0 THEN s ELSE Perform(lane, f[n - 1], p[i].do[n], i, known)]
  BY <1>3, <1>4 DEF RunOf
<1>6. Run = [n \in 0 .. N |-> IF n = 0 THEN s ELSE Perform(lane, Run[n - 1], p[i].do[n], i, known)]
  BY <1>5 DEF ActionRun
<1>7. Run[0] = s /\ OnInterval(Run, N)
  BY <1>1, <1>6 DEF OnInterval
<1>8. ASSUME NEW n \in 1 .. N PROVE Run[n] = Perform(lane, Run[n - 1], p[i].do[n], i, known)
  <2>1. n \in 0 .. N /\ n # 0
    OBVIOUS
  <2>. HIDE DEF Run
  <2>. QED BY <2>1, <1>6
<1>9. RunOf(Run, F, N, FoldState, s)
  <2>1. \A n \in 1 .. N : Run[n - 1] \in FoldState => Run[n] = F[n][Run[n - 1]]
    BY <1>8
  <2>. HIDE DEF Run, F, N
  <2>. QED BY <1>1, <1>2, <1>7, <2>1, FollowsSteps
<1>. QED BY <1>8, <1>9 DEF RunOf

LEMMA FireType ==
  ASSUME NEW p \in Seq(Rule), NEW i \in 1 .. Len(p), NEW lane \in Lane,
         NEW s \in FoldState, NEW known
  PROVE  /\ [s EXCEPT !.net.hit = s.net.hit \cup {i}] \in FoldState
         /\ Fire(p, lane, s, i, known) \in FoldState
<1>1. [s EXCEPT !.net.hit = s.net.hit \cup {i}] \in FoldState
  <2>1. i \in Nat
    BY TableType
  <2>. QED BY <2>1 DEF FoldState, Net
<1>2. Len(p[i].do) \in 0 .. Len(p[i].do)
  BY TableType
<1>. QED BY <1>1, <1>2, ActionRunDef DEF Fire

LEMMA RuleRunDef ==
  ASSUME NEW p \in Seq(Rule), NEW lane \in Lane, NEW s \in FoldState, NEW set, NEW known
  PROVE  LET Run == RuleRun(p, lane, s, set, known)
         IN  /\ Run \in [0 .. Len(p) -> FoldState] /\ Run[0] = s
             /\ \A i \in 1 .. Len(p) : Run[i] = IF i \in set /\ Holds(p[i].cond, Run[i - 1].ctx)
                   THEN Fire(p, lane, Run[i - 1], i, known) ELSE Run[i - 1]
<1>. DEFINE N == Len(p)
            F == [i \in 1 .. N |-> [v \in FoldState |-> IF i \in set /\ Holds(p[i].cond, v.ctx)
                   THEN Fire(p, lane, v, i, known) ELSE v]]
            Run == RuleRun(p, lane, s, set, known)
<1>1. N \in Nat /\ StepsStayIn(F, N, FoldState)
  <2>1. N \in Nat
    OBVIOUS
  <2>2. ASSUME NEW i \in 1 .. N, NEW v \in FoldState PROVE F[i][v] \in FoldState
    BY FireType
  <2>. QED BY <2>1, <2>2 DEF StepsStayIn
<1>2. s \in FoldState
  OBVIOUS
<1>3. PICK f : RunOf(f, F, N, FoldState, s)
  <2>. HIDE DEF F, N, Run
  <2>. QED BY <1>1, <1>2, RecursionDefines
<1>4. ASSUME NEW i \in 0 .. N
      PROVE  f[i] = IF i = 0 THEN s ELSE IF i \in set /\ Holds(p[i].cond, f[i - 1].ctx)
                   THEN Fire(p, lane, f[i - 1], i, known) ELSE f[i - 1]
  <2>1. CASE i = 0
    BY <2>1, <1>3 DEF RunOf
  <2>2. CASE i # 0
    <3>1. i \in 1 .. N /\ i - 1 \in 0 .. N
      BY <2>2, <1>1
    <3>2. f[i - 1] \in FoldState /\ f[i] = F[i][f[i - 1]]
      BY <3>1, <1>3 DEF RunOf
    <3>. QED BY <2>2, <3>1, <3>2
  <2>. QED BY <2>1, <2>2
<1>5. f = [i \in 0 .. N |-> IF i = 0 THEN s ELSE IF i \in set /\ Holds(p[i].cond, f[i - 1].ctx)
                   THEN Fire(p, lane, f[i - 1], i, known) ELSE f[i - 1]]
  BY <1>3, <1>4 DEF RunOf
<1>6. Run = [i \in 0 .. N |-> IF i = 0 THEN s ELSE IF i \in set /\ Holds(p[i].cond, Run[i - 1].ctx)
                   THEN Fire(p, lane, Run[i - 1], i, known) ELSE Run[i - 1]]
  BY <1>5 DEF RuleRun
<1>7. Run[0] = s /\ OnInterval(Run, N)
  BY <1>1, <1>6 DEF OnInterval
<1>8. ASSUME NEW i \in 1 .. N PROVE Run[i] = IF i \in set /\ Holds(p[i].cond, Run[i - 1].ctx)
                   THEN Fire(p, lane, Run[i - 1], i, known) ELSE Run[i - 1]
  <2>1. i \in 0 .. N /\ i # 0
    OBVIOUS
  <2>. HIDE DEF Run
  <2>. QED BY <2>1, <1>6
<1>9. RunOf(Run, F, N, FoldState, s)
  <2>1. \A i \in 1 .. N : Run[i - 1] \in FoldState => Run[i] = F[i][Run[i - 1]]
    BY <1>8
  <2>. HIDE DEF Run, F, N
  <2>. QED BY <1>1, <1>2, <1>7, <2>1, FollowsSteps
<1>. QED BY <1>8, <1>9 DEF RunOf

-----------------------------------------------------------------------------
(* The direct run                                                          *)

DirectState == [row : Row, added : SUBSET Tag, hit : SUBSET Nat]

LEMMA DirectActType ==
  ASSUME NEW r \in Row, NEW a \in Action
  PROVE  DirectAct(r, a) \in Row
<1>1. CASE a.type = "set_category" /\ a.arg \in Category
  BY <1>1 DEF DirectAct, Row
<1>2. CASE a.type \in {"add_tag", "remove_tag"} /\ a.arg \in Tag
  BY <1>2 DEF DirectAct, Row
<1>3. CASE a.type = "set_metadata" /\ a.arg \in Key /\ a.value \in Value
  BY <1>3 DEF DirectAct, Row
<1>4. CASE a.type = "remove_metadata" /\ a.arg \in Key
  BY <1>4 DEF DirectAct, Row
<1>5. CASE a.type \in {"flag", "unflag"}
  BY <1>5 DEF DirectAct, Row
<1>6. CASE a.type \in {"add_comment", "assign_series"}
  BY <1>6 DEF DirectAct
<1>. QED BY <1>1, <1>2, <1>3, <1>4, <1>5, <1>6, ActionCases

LEMMA DirectStepType ==
  ASSUME NEW d \in DirectState, NEW a \in Action
  PROVE  DirectStep(d, a) \in DirectState
<1>1. d.row \in Row /\ d.added \in SUBSET Tag /\ d.hit \in SUBSET Nat
  BY DEF DirectState
<1>2. DirectAct(d.row, a) \in Row
  BY <1>1, DirectActType
<1>3. a.type = "add_tag" => a.arg \in Tag
  BY ActionCases
<1>. QED BY <1>1, <1>2, <1>3 DEF DirectStep, DirectState

LEMMA DirectActionsDef ==
  ASSUME NEW p \in Seq(Rule), NEW i \in 1 .. Len(p), NEW d \in DirectState
  PROVE  LET Run == DirectActions(p, d, i)
         IN  /\ Run \in [0 .. Len(p[i].do) -> DirectState] /\ Run[0] = d
             /\ \A n \in 1 .. Len(p[i].do) : Run[n] = DirectStep(Run[n - 1], p[i].do[n])
<1>. DEFINE N == Len(p[i].do)
            F == [n \in 1 .. N |-> [v \in DirectState |-> DirectStep(v, p[i].do[n])]]
            Run == DirectActions(p, d, i)
<1>1. N \in Nat /\ StepsStayIn(F, N, DirectState)
  BY TableType, DirectStepType DEF StepsStayIn
<1>2. d \in DirectState
  OBVIOUS
<1>3. PICK f : RunOf(f, F, N, DirectState, d)
  <2>. HIDE DEF F, N, Run
  <2>. QED BY <1>1, <1>2, RecursionDefines
<1>4. ASSUME NEW n \in 0 .. N
      PROVE  f[n] = IF n = 0 THEN d ELSE DirectStep(f[n - 1], p[i].do[n])
  <2>1. CASE n = 0
    BY <2>1, <1>3 DEF RunOf
  <2>2. CASE n # 0
    <3>1. n \in 1 .. N /\ n - 1 \in 0 .. N
      BY <2>2, <1>1
    <3>2. f[n - 1] \in DirectState /\ f[n] = F[n][f[n - 1]]
      BY <3>1, <1>3 DEF RunOf
    <3>. QED BY <2>2, <3>1, <3>2
  <2>. QED BY <2>1, <2>2
<1>5. f = [n \in 0 .. N |-> IF n = 0 THEN d ELSE DirectStep(f[n - 1], p[i].do[n])]
  BY <1>3, <1>4 DEF RunOf
<1>6. Run = [n \in 0 .. N |-> IF n = 0 THEN d ELSE DirectStep(Run[n - 1], p[i].do[n])]
  BY <1>5 DEF DirectActions
<1>7. Run[0] = d /\ OnInterval(Run, N)
  BY <1>1, <1>6 DEF OnInterval
<1>8. ASSUME NEW n \in 1 .. N PROVE Run[n] = DirectStep(Run[n - 1], p[i].do[n])
  <2>1. n \in 0 .. N /\ n # 0
    OBVIOUS
  <2>. HIDE DEF Run
  <2>. QED BY <2>1, <1>6
<1>9. RunOf(Run, F, N, DirectState, d)
  <2>1. \A n \in 1 .. N : Run[n - 1] \in DirectState => Run[n] = F[n][Run[n - 1]]
    BY <1>8
  <2>. HIDE DEF Run, F, N
  <2>. QED BY <1>1, <1>2, <1>7, <2>1, FollowsSteps
<1>. QED BY <1>8, <1>9 DEF RunOf

Fires(p, base, list, isNew, i, d) ==
  /\ i \in list /\ TriggerMatches(p[i].on, isNew)
  /\ Holds(p[i].cond, [Context(d.row) EXCEPT !.series = base.series])
DirectFire(p, d, i) ==
  DirectActions(p, [d EXCEPT !.hit = d.hit \cup {i}], i)[Len(p[i].do)]

LEMMA DirectFireType ==
  ASSUME NEW p \in Seq(Rule), NEW i \in 1 .. Len(p), NEW d \in DirectState
  PROVE  /\ [d EXCEPT !.hit = d.hit \cup {i}] \in DirectState
         /\ DirectFire(p, d, i) \in DirectState
<1>1. [d EXCEPT !.hit = d.hit \cup {i}] \in DirectState
  <2>1. i \in Nat
    BY TableType
  <2>. QED BY <2>1 DEF DirectState
<1>2. Len(p[i].do) \in 0 .. Len(p[i].do)
  BY TableType
<1>3. DirectActions(p, [d EXCEPT !.hit = d.hit \cup {i}], i)
         \in [0 .. Len(p[i].do) -> DirectState]
  BY <1>1, DirectActionsDef
<1>. QED BY <1>1, <1>2, <1>3 DEF DirectFire

Untouched(base) == [row |-> base, added |-> {}, hit |-> {}]

LEMMA DirectRulesDef ==
  ASSUME NEW p \in Seq(Rule), NEW base \in Row, NEW list, NEW isNew
  PROVE  LET Run == DirectRules(p, base, list, isNew)
         IN  /\ Run \in [0 .. Len(p) -> DirectState] /\ Run[0] = Untouched(base)
             /\ \A i \in 1 .. Len(p) : Run[i] =
                    IF Fires(p, base, list, isNew, i, Run[i - 1])
                    THEN DirectFire(p, Run[i - 1], i) ELSE Run[i - 1]
<1>. DEFINE N == Len(p)
            F == [i \in 1 .. N |-> [v \in DirectState |->
                    IF Fires(p, base, list, isNew, i, v) THEN DirectFire(p, v, i) ELSE v]]
            Run == DirectRules(p, base, list, isNew)
<1>1. N \in Nat /\ StepsStayIn(F, N, DirectState)
  <2>1. N \in Nat
    OBVIOUS
  <2>2. ASSUME NEW i \in 1 .. N, NEW v \in DirectState PROVE F[i][v] \in DirectState
    BY DirectFireType
  <2>. QED BY <2>1, <2>2 DEF StepsStayIn
<1>2. Untouched(base) \in DirectState
  BY DEF Untouched, DirectState
<1>3. PICK f : RunOf(f, F, N, DirectState, Untouched(base))
  <2>. HIDE DEF F, N, Run
  <2>. QED BY <1>1, <1>2, RecursionDefines
<1>4. ASSUME NEW i \in 0 .. N
      PROVE  f[i] = IF i = 0 THEN Untouched(base)
                    ELSE IF Fires(p, base, list, isNew, i, f[i - 1])
                         THEN DirectFire(p, f[i - 1], i) ELSE f[i - 1]
  <2>1. CASE i = 0
    BY <2>1, <1>3 DEF RunOf
  <2>2. CASE i # 0
    <3>1. i \in 1 .. N /\ i - 1 \in 0 .. N
      BY <2>2, <1>1
    <3>2. f[i - 1] \in DirectState /\ f[i] = F[i][f[i - 1]]
      BY <3>1, <1>3 DEF RunOf
    <3>. QED BY <2>2, <3>1, <3>2
  <2>. QED BY <2>1, <2>2
<1>5. f = [i \in 0 .. N |-> IF i = 0 THEN Untouched(base)
          ELSE IF Fires(p, base, list, isNew, i, f[i - 1])
               THEN DirectFire(p, f[i - 1], i) ELSE f[i - 1]]
  BY <1>3, <1>4 DEF RunOf
<1>6. Run = [i \in 0 .. N |-> IF i = 0 THEN Untouched(base)
          ELSE IF Fires(p, base, list, isNew, i, Run[i - 1])
               THEN DirectFire(p, Run[i - 1], i) ELSE Run[i - 1]]
  BY <1>5 DEF DirectRules, Fires, DirectFire, Untouched
<1>7. Run[0] = Untouched(base) /\ OnInterval(Run, N)
  BY <1>1, <1>6 DEF OnInterval
<1>8. ASSUME NEW i \in 1 .. N PROVE Run[i] = IF Fires(p, base, list, isNew, i, Run[i - 1])
                 THEN DirectFire(p, Run[i - 1], i) ELSE Run[i - 1]
  <2>1. i \in 0 .. N /\ i # 0
    OBVIOUS
  <2>. HIDE DEF Run
  <2>. QED BY <2>1, <1>6
<1>9. RunOf(Run, F, N, DirectState, Untouched(base))
  <2>1. \A i \in 1 .. N : Run[i - 1] \in DirectState => Run[i] = F[i][Run[i - 1]]
    BY <1>8
  <2>. HIDE DEF Run, F, N
  <2>. QED BY <1>1, <1>2, <1>7, <2>1, FollowsSteps
<1>. QED BY <1>8, <1>9 DEF RunOf

-----------------------------------------------------------------------------
(* The fields an action leaves                                             *)

LEMMA SetCategoryFields ==
  ASSUME NEW s \in FoldState, NEW c, NEW i, NEW r, r = SetCategory(s, c, i)
  PROVE  /\ r.orig = s.orig /\ r.ctx.category = c /\ r.ctx.tags = s.ctx.tags
         /\ r.ctx.meta = s.ctx.meta /\ r.ctx.series = s.ctx.series
         /\ r.net.add = s.net.add /\ r.net.rem = s.net.rem /\ r.net.set = s.net.set
         /\ r.net.del = s.net.del /\ r.net.series = s.net.series /\ r.net.flag = s.net.flag
         /\ r.net.hit = s.net.hit /\ r.net.cat = c
<1>1. /\ r.orig = s.orig /\ r.ctx = [s.ctx EXCEPT !.category = c]
      /\ r.net = [s.net EXCEPT !.cat = c,
                           !.src = DropField(s.net.src, {"category"}) \cup {Src(i, "category", c)}]
  BY DEF SetCategory, FoldState, Net
<1>2. s.ctx \in Ctx /\ s.net \in Net
  BY FoldStateType
<1>. QED BY <1>1, <1>2 DEF Ctx, Net

LEMMA AddTagFields ==
  ASSUME NEW s \in FoldState, NEW x, NEW i, NEW r, r = AddTag(s, x, i)
  PROVE  /\ r.orig = s.orig /\ r.ctx.category = s.ctx.category
         /\ r.ctx.tags = s.ctx.tags \cup {x} /\ r.ctx.meta = s.ctx.meta
         /\ r.ctx.series = s.ctx.series
         /\ r.net.cat = s.net.cat /\ r.net.set = s.net.set /\ r.net.del = s.net.del
         /\ r.net.series = s.net.series /\ r.net.flag = s.net.flag /\ r.net.hit = s.net.hit
         /\ r.net.add = s.net.add \cup {x} /\ r.net.rem = s.net.rem \ {x}
<1>1. /\ r.orig = s.orig /\ r.ctx = [s.ctx EXCEPT !.tags = s.ctx.tags \cup {x}]
      /\ r.net = [s.net EXCEPT !.rem = s.net.rem \ {x},
                           !.add = s.net.add \cup {x},
                           !.src = (IF x \in s.net.rem
                               THEN Drop(s.net.src, "tag_remove", x) ELSE s.net.src)
                         \cup (IF x \in s.net.add THEN {} ELSE {Src(i, "tag", x)})]
  BY DEF AddTag, FoldState, Net
<1>2. s.ctx \in Ctx /\ s.net \in Net
  BY FoldStateType
<1>. QED BY <1>1, <1>2 DEF Ctx, Net

LEMMA RemoveTagFields ==
  ASSUME NEW s \in FoldState, NEW x, NEW i, NEW r, r = RemoveTag(s, x, i)
  PROVE  /\ r.orig = s.orig /\ r.ctx.category = s.ctx.category
         /\ r.ctx.tags = s.ctx.tags \ {x} /\ r.ctx.meta = s.ctx.meta
         /\ r.ctx.series = s.ctx.series
         /\ r.net.cat = s.net.cat /\ r.net.set = s.net.set /\ r.net.del = s.net.del
         /\ r.net.series = s.net.series /\ r.net.flag = s.net.flag /\ r.net.hit = s.net.hit
         /\ r.net.add = s.net.add \ {x}
         /\ r.net.rem = s.net.rem \cup {y \in {x} : x \notin s.net.add /\ x \in s.ctx.tags}
<1>1. /\ r.orig = s.orig /\ r.ctx = [s.ctx EXCEPT !.tags = s.ctx.tags \ {x}]
      /\ r.net = [s.net EXCEPT !.add = s.net.add \ {x},
                           !.rem = IF x \notin s.net.add /\ x \in s.ctx.tags /\ x \notin s.net.rem
                                   THEN s.net.rem \cup {x} ELSE s.net.rem,
                           !.src = IF x \in s.net.add THEN Drop(s.net.src, "tag", x)
                       ELSE s.net.src
                              \cup (IF x \notin s.net.add /\ x \in s.ctx.tags /\ x \notin s.net.rem
                                    THEN {Src(i, "tag_remove", x)} ELSE {})]
  BY DEF RemoveTag, FoldState, Net
<1>2. s.ctx \in Ctx /\ s.net \in Net
  BY FoldStateType
<1>. QED BY <1>1, <1>2 DEF Ctx, Net

LEMMA SetMetadataFields ==
  ASSUME NEW s \in FoldState, NEW k \in Key, NEW v, NEW i, NEW r, r = SetMetadata(s, k, v, i)
  PROVE  /\ r.orig = s.orig /\ r.ctx.category = s.ctx.category /\ r.ctx.tags = s.ctx.tags
         /\ \A q \in Key : r.ctx.meta[q] = IF q = k THEN v ELSE s.ctx.meta[q]
         /\ r.ctx.series = s.ctx.series
         /\ r.net.cat = s.net.cat /\ r.net.add = s.net.add /\ r.net.rem = s.net.rem
         /\ r.net.series = s.net.series /\ r.net.flag = s.net.flag /\ r.net.hit = s.net.hit
         /\ \A q \in Key : r.net.set[q] = IF q = k THEN v ELSE s.net.set[q]
         /\ r.net.del = s.net.del \ {k}
<1>1. /\ r.orig = s.orig /\ r.ctx = [s.ctx EXCEPT !.meta = [s.ctx.meta EXCEPT ![k] = v]]
      /\ r.net = [s.net EXCEPT !.set = [s.net.set EXCEPT ![k] = v],
                           !.del = s.net.del \ {k},
                           !.src = Drop(Drop(s.net.src, "metadata_remove", k), "metadata", k)
                         \cup {Src(i, "metadata", k)}]
  BY DEF SetMetadata, FoldState, Net
<1>2. s.ctx \in Ctx /\ s.net \in Net
  BY FoldStateType
<1>. QED BY <1>1, <1>2 DEF Ctx, Net, Meta

LEMMA RemoveMetadataFields ==
  ASSUME NEW s \in FoldState, NEW k \in Key, NEW i, NEW r, r = RemoveMetadata(s, k, i)
  PROVE  /\ r.orig = s.orig /\ r.ctx.category = s.ctx.category /\ r.ctx.tags = s.ctx.tags
         /\ \A q \in Key : r.ctx.meta[q] = IF q = k THEN None ELSE s.ctx.meta[q]
         /\ r.ctx.series = s.ctx.series
         /\ r.net.cat = s.net.cat /\ r.net.add = s.net.add /\ r.net.rem = s.net.rem
         /\ r.net.series = s.net.series /\ r.net.flag = s.net.flag /\ r.net.hit = s.net.hit
         /\ \A q \in Key : r.net.set[q] = IF q = k THEN None ELSE s.net.set[q]
         /\ r.net.del = s.net.del \cup {y \in {k} : s.orig[k] # None}
<1>1. /\ r.orig = s.orig /\ r.ctx = [s.ctx EXCEPT !.meta = [s.ctx.meta EXCEPT ![k] = None]]
      /\ r.net = [s.net EXCEPT !.set = [s.net.set EXCEPT ![k] = None],
                           !.del = IF s.orig[k] # None /\ k \notin s.net.del
                               THEN s.net.del \cup {k} ELSE s.net.del,
                           !.src = Drop(s.net.src, "metadata", k)
                         \cup (IF s.orig[k] # None /\ k \notin s.net.del
                             THEN {Src(i, "metadata_remove", k)} ELSE {})]
  BY DEF RemoveMetadata, FoldState, Net
<1>2. s.ctx \in Ctx /\ s.net \in Net
  BY FoldStateType
<1>. QED BY <1>1, <1>2 DEF Ctx, Net, Meta

LEMMA RetroRemoveMetadataFields ==
  ASSUME NEW s \in FoldState, NEW k \in Key, NEW r, r = RetroRemoveMetadata(s, k)
  PROVE  /\ r.orig = s.orig /\ r.ctx.category = s.ctx.category /\ r.ctx.tags = s.ctx.tags
         /\ \A q \in Key : r.ctx.meta[q] = IF q = k THEN None ELSE s.ctx.meta[q]
         /\ r.ctx.series = s.ctx.series
         /\ r.net.cat = s.net.cat /\ r.net.add = s.net.add /\ r.net.rem = s.net.rem
         /\ r.net.series = s.net.series /\ r.net.flag = s.net.flag /\ r.net.src = s.net.src
         /\ r.net.hit = s.net.hit
         /\ \A q \in Key : r.net.set[q] = IF q = k THEN None ELSE s.net.set[q]
         /\ r.net.del = s.net.del \cup {k}
<1>1. /\ r.orig = s.orig /\ r.ctx = [s.ctx EXCEPT !.meta = [s.ctx.meta EXCEPT ![k] = None]]
      /\ r.net = [s.net EXCEPT !.set = [s.net.set EXCEPT ![k] = None],
                           !.del = s.net.del \cup {k}]
  BY DEF RetroRemoveMetadata, FoldState, Net
<1>2. s.ctx \in Ctx /\ s.net \in Net
  BY FoldStateType
<1>. QED BY <1>1, <1>2 DEF Ctx, Net, Meta

LEMMA AssignSeriesFields ==
  ASSUME NEW s \in FoldState, NEW e, NEW i, NEW r, r = AssignSeries(s, e, i)
  PROVE  /\ r.orig = s.orig /\ r.ctx.category = s.ctx.category /\ r.ctx.tags = s.ctx.tags
         /\ r.ctx.meta = s.ctx.meta /\ r.ctx.series = s.ctx.series
         /\ r.net.cat = s.net.cat /\ r.net.add = s.net.add /\ r.net.rem = s.net.rem
         /\ r.net.set = s.net.set /\ r.net.del = s.net.del /\ r.net.flag = s.net.flag
         /\ r.net.hit = s.net.hit /\ r.net.series = e
<1>1. /\ r.orig = s.orig /\ r.ctx = s.ctx
      /\ r.net = [s.net EXCEPT !.series = e,
                           !.src = DropField(s.net.src, {"series"}) \cup {Src(i, "series", e)}]
  BY DEF AssignSeries, FoldState, Net
<1>2. s.ctx \in Ctx /\ s.net \in Net
  BY FoldStateType
<1>. QED BY <1>1, <1>2 DEF Ctx, Net

LEMMA SetFlagFields ==
  ASSUME NEW s \in FoldState, NEW f, NEW i, NEW r, r = SetFlag(s, f, i)
  PROVE  /\ r.orig = s.orig /\ r.ctx.category = s.ctx.category /\ r.ctx.tags = s.ctx.tags
         /\ r.ctx.meta = s.ctx.meta /\ r.ctx.series = s.ctx.series
         /\ r.net.cat = s.net.cat /\ r.net.add = s.net.add /\ r.net.rem = s.net.rem
         /\ r.net.set = s.net.set /\ r.net.del = s.net.del /\ r.net.series = s.net.series
         /\ r.net.hit = s.net.hit /\ r.net.flag = f
<1>1. /\ r.orig = s.orig /\ r.ctx = s.ctx
      /\ r.net = [s.net EXCEPT !.flag = f,
                           !.src = DropField(s.net.src, {"flag", "unflag"}) \cup {Src(i, f, None)}]
  BY DEF SetFlag, FoldState, Net
<1>2. s.ctx \in Ctx /\ s.net \in Net
  BY FoldStateType
<1>. QED BY <1>1, <1>2 DEF Ctx, Net

LEMMA AddCommentFields ==
  ASSUME NEW s \in FoldState, NEW a, NEW i, NEW r, r = AddComment(s, a, i)
  PROVE  /\ r.orig = s.orig /\ r.ctx.category = s.ctx.category /\ r.ctx.tags = s.ctx.tags
         /\ r.ctx.meta = s.ctx.meta /\ r.ctx.series = s.ctx.series
         /\ r.net.cat = s.net.cat /\ r.net.add = s.net.add /\ r.net.rem = s.net.rem
         /\ r.net.set = s.net.set /\ r.net.del = s.net.del /\ r.net.series = s.net.series
         /\ r.net.flag = s.net.flag /\ r.net.hit = s.net.hit
<1>1. /\ r.orig = s.orig /\ r.ctx = s.ctx
      /\ r.net = [s.net EXCEPT !.src = s.net.src \cup {Src(i, "comment", a.arg)}]
  BY DEF AddComment, FoldState, Net
<1>2. s.ctx \in Ctx /\ s.net \in Net
  BY FoldStateType
<1>. QED BY <1>1, <1>2 DEF Ctx, Net

-----------------------------------------------------------------------------
(* The fold tracks the direct run                                        *)

\* The context of the fold is the row the direct run has reached, and its net
\* intent is the difference of that row and the base: save that a tag the pass
\* added before is left as it was when a later action removes it.
TracksRow(s, d, base) ==
  /\ s.orig = base.meta
  /\ s.ctx.category = d.row.category /\ s.ctx.tags = d.row.tags
  /\ s.ctx.series = base.series /\ \A k \in Key : s.ctx.meta[k] = d.row.meta[k]
TracksColumns(s, d, base) ==
  /\ d.row.category = IF s.net.cat = None THEN base.category ELSE s.net.cat
  /\ d.row.flag = IF s.net.flag = None THEN base.flag ELSE s.net.flag = "flag"
  /\ \A k \in s.net.del : s.net.set[k] = None
  /\ \A k \in Key : d.row.meta[k] = IF s.net.set[k] # None THEN s.net.set[k]
                                    ELSE IF k \in s.net.del THEN None ELSE base.meta[k]
TracksTags(s, d, base) ==
  /\ s.net.add = d.added \cap d.row.tags
  /\ s.net.rem = (base.tags \ d.row.tags) \ d.added
  /\ d.row.tags \ d.added \subseteq base.tags
Tracks(s, d, base) ==
  /\ TracksRow(s, d, base) /\ TracksColumns(s, d, base) /\ TracksTags(s, d, base)
  /\ s.net.hit = d.hit

LEMMA NoneIsNoValue ==
  /\ None \notin Category /\ None \notin Value /\ None \notin Series
  /\ None # "flag" /\ None # "unflag"
BY RuleAssumption

LEMMA StepFields ==
  ASSUME NEW d \in DirectState, NEW a \in Action
  PROVE  LET e == DirectStep(d, a)
         IN /\ e.row = DirectAct(d.row, a) /\ e.hit = d.hit
            /\ e.added = IF a.type = "add_tag" THEN d.added \cup {a.arg} ELSE d.added
BY DEF DirectStep, DirectState

LEMMA TrackCategory ==
  ASSUME NEW s \in FoldState, NEW d \in DirectState, NEW base \in Row, NEW i \in Nat,
         NEW a \in Action, a.type = "set_category", Tracks(s, d, base)
  PROVE  Tracks(SyncAct(s, a, i), DirectStep(d, a), base)
<1>. DEFINE r == SyncAct(s, a, i)
            e == DirectStep(d, a)
<1>1. r = SetCategory(s, a.arg, i) /\ a.arg \in Category
  BY SyncActIs, ActionCases
<1>. HIDE DEF r
<1>2. /\ r.orig = s.orig /\ r.ctx.category = a.arg /\ r.ctx.tags = s.ctx.tags
      /\ r.ctx.meta = s.ctx.meta /\ r.ctx.series = s.ctx.series /\ r.net.cat = a.arg
      /\ r.net.add = s.net.add /\ r.net.rem = s.net.rem /\ r.net.set = s.net.set
      /\ r.net.del = s.net.del /\ r.net.flag = s.net.flag /\ r.net.hit = s.net.hit
  BY <1>1, SetCategoryFields
<1>3. /\ e.row.category = a.arg /\ e.row.tags = d.row.tags /\ e.row.meta = d.row.meta
      /\ e.row.flag = d.row.flag /\ e.added = d.added /\ e.hit = d.hit
  <2>1. d.row \in Row
    BY DEF DirectState
  <2>2. e.row = DirectAct(d.row, a) /\ e.hit = d.hit
        /\ e.added = IF a.type = "add_tag" THEN d.added \cup {a.arg} ELSE d.added
    BY StepFields
  <2>. HIDE DEF e
  <2>. QED BY <1>1, <2>1, <2>2 DEF DirectAct, Row, Meta
<1>. HIDE DEF e
<1>4. TracksRow(r, e, base)
  BY <1>1, <1>2, <1>3 DEF Tracks, TracksRow, FoldState, Ctx, DirectState, Row
<1>5. TracksColumns(r, e, base)
  BY <1>1, <1>2, <1>3, NoneIsNoValue
  DEF Tracks, TracksRow, TracksColumns, FoldState, Net, Meta, DirectState, Row
<1>6. TracksTags(r, e, base)
  BY <1>1, <1>2, <1>3 DEF Tracks, TracksRow, TracksTags, FoldState, Net, DirectState, Row
<1>. QED BY <1>2, <1>3, <1>4, <1>5, <1>6 DEF Tracks, r, e

LEMMA TrackAddTag ==
  ASSUME NEW s \in FoldState, NEW d \in DirectState, NEW base \in Row, NEW i \in Nat,
         NEW a \in Action, a.type = "add_tag", Tracks(s, d, base)
  PROVE  Tracks(SyncAct(s, a, i), DirectStep(d, a), base)
<1>. DEFINE r == SyncAct(s, a, i)
            e == DirectStep(d, a)
<1>1. r = AddTag(s, a.arg, i) /\ a.arg \in Tag
  BY SyncActIs, ActionCases
<1>. HIDE DEF r
<1>2. /\ r.orig = s.orig /\ r.ctx.category = s.ctx.category
      /\ r.ctx.tags = s.ctx.tags \cup {a.arg} /\ r.ctx.meta = s.ctx.meta
      /\ r.ctx.series = s.ctx.series /\ r.net.cat = s.net.cat
      /\ r.net.add = s.net.add \cup {a.arg} /\ r.net.rem = s.net.rem \ {a.arg}
      /\ r.net.set = s.net.set /\ r.net.del = s.net.del /\ r.net.flag = s.net.flag
      /\ r.net.hit = s.net.hit
  BY <1>1, AddTagFields
<1>3. /\ e.row.category = d.row.category /\ e.row.tags = d.row.tags \cup {a.arg}
      /\ e.row.meta = d.row.meta /\ e.row.flag = d.row.flag
      /\ e.added = d.added \cup {a.arg} /\ e.hit = d.hit
  <2>1. d.row \in Row
    BY DEF DirectState
  <2>2. e.row = DirectAct(d.row, a) /\ e.hit = d.hit
        /\ e.added = IF a.type = "add_tag" THEN d.added \cup {a.arg} ELSE d.added
    BY StepFields
  <2>. HIDE DEF e
  <2>. QED BY <1>1, <2>1, <2>2 DEF DirectAct, Row, Meta
<1>. HIDE DEF e
<1>4. TracksRow(r, e, base)
  BY <1>1, <1>2, <1>3 DEF Tracks, TracksRow, FoldState, Ctx, DirectState, Row
<1>5. TracksColumns(r, e, base)
  BY <1>1, <1>2, <1>3, NoneIsNoValue
  DEF Tracks, TracksRow, TracksColumns, FoldState, Net, Meta, DirectState, Row
<1>6. TracksTags(r, e, base)
  BY <1>1, <1>2, <1>3 DEF Tracks, TracksRow, TracksTags, FoldState, Net, DirectState, Row
<1>. QED BY <1>2, <1>3, <1>4, <1>5, <1>6 DEF Tracks, r, e

LEMMA TrackRemoveTag ==
  ASSUME NEW s \in FoldState, NEW d \in DirectState, NEW base \in Row, NEW i \in Nat,
         NEW a \in Action, a.type = "remove_tag", Tracks(s, d, base)
  PROVE  Tracks(SyncAct(s, a, i), DirectStep(d, a), base)
<1>. DEFINE r == SyncAct(s, a, i)
            e == DirectStep(d, a)
<1>1. r = RemoveTag(s, a.arg, i) /\ a.arg \in Tag
  BY SyncActIs, ActionCases
<1>. HIDE DEF r
<1>2. /\ r.orig = s.orig /\ r.ctx.category = s.ctx.category
      /\ r.ctx.tags = s.ctx.tags \ {a.arg} /\ r.ctx.meta = s.ctx.meta
      /\ r.ctx.series = s.ctx.series /\ r.net.cat = s.net.cat
      /\ r.net.add = s.net.add \ {a.arg}
      /\ r.net.rem = s.net.rem \cup {y \in {a.arg} : a.arg \notin s.net.add /\ a.arg \in s.ctx.tags}
      /\ r.net.set = s.net.set /\ r.net.del = s.net.del /\ r.net.flag = s.net.flag
      /\ r.net.hit = s.net.hit
  BY <1>1, RemoveTagFields
<1>3. /\ e.row.category = d.row.category /\ e.row.tags = d.row.tags \ {a.arg}
      /\ e.row.meta = d.row.meta /\ e.row.flag = d.row.flag /\ e.added = d.added
      /\ e.hit = d.hit
  <2>1. d.row \in Row
    BY DEF DirectState
  <2>2. e.row = DirectAct(d.row, a) /\ e.hit = d.hit
        /\ e.added = IF a.type = "add_tag" THEN d.added \cup {a.arg} ELSE d.added
    BY StepFields
  <2>. HIDE DEF e
  <2>. QED BY <1>1, <2>1, <2>2 DEF DirectAct, Row, Meta
<1>. HIDE DEF e
<1>4. TracksRow(r, e, base)
  BY <1>1, <1>2, <1>3 DEF Tracks, TracksRow, FoldState, Ctx, DirectState, Row
<1>5. TracksColumns(r, e, base)
  BY <1>1, <1>2, <1>3, NoneIsNoValue
  DEF Tracks, TracksRow, TracksColumns, FoldState, Net, Meta, DirectState, Row
<1>6. TracksTags(r, e, base)
  BY <1>1, <1>2, <1>3 DEF Tracks, TracksRow, TracksTags, FoldState, Net, DirectState, Row
<1>. QED BY <1>2, <1>3, <1>4, <1>5, <1>6 DEF Tracks, r, e

LEMMA TrackSetMetadata ==
  ASSUME NEW s \in FoldState, NEW d \in DirectState, NEW base \in Row, NEW i \in Nat,
         NEW a \in Action, a.type = "set_metadata", Tracks(s, d, base)
  PROVE  Tracks(SyncAct(s, a, i), DirectStep(d, a), base)
<1>. DEFINE r == SyncAct(s, a, i)
            e == DirectStep(d, a)
<1>1. r = SetMetadata(s, a.arg, a.value, i) /\ a.arg \in Key /\ a.value \in Value
  BY SyncActIs, ActionCases
<1>. HIDE DEF r
<1>2. /\ r.orig = s.orig /\ r.ctx.category = s.ctx.category /\ r.ctx.tags = s.ctx.tags
      /\ \A q \in Key : r.ctx.meta[q] = IF q = a.arg THEN a.value ELSE s.ctx.meta[q]
      /\ r.ctx.series = s.ctx.series /\ r.net.cat = s.net.cat /\ r.net.add = s.net.add
      /\ r.net.rem = s.net.rem
      /\ \A q \in Key : r.net.set[q] = IF q = a.arg THEN a.value ELSE s.net.set[q]
      /\ r.net.del = s.net.del \ {a.arg} /\ r.net.flag = s.net.flag
      /\ r.net.hit = s.net.hit
  BY <1>1, SetMetadataFields
<1>3. /\ e.row.category = d.row.category /\ e.row.tags = d.row.tags
      /\ \A q \in Key : e.row.meta[q] = IF q = a.arg THEN a.value ELSE d.row.meta[q]
      /\ e.row.flag = d.row.flag /\ e.added = d.added /\ e.hit = d.hit
  <2>1. d.row \in Row
    BY DEF DirectState
  <2>2. e.row = DirectAct(d.row, a) /\ e.hit = d.hit
        /\ e.added = IF a.type = "add_tag" THEN d.added \cup {a.arg} ELSE d.added
    BY StepFields
  <2>. HIDE DEF e
  <2>. QED BY <1>1, <2>1, <2>2 DEF DirectAct, Row, Meta
<1>. HIDE DEF e
<1>4. TracksRow(r, e, base)
  BY <1>1, <1>2, <1>3 DEF Tracks, TracksRow, FoldState, Ctx, DirectState, Row
<1>5. TracksColumns(r, e, base)
  BY <1>1, <1>2, <1>3, NoneIsNoValue
  DEF Tracks, TracksRow, TracksColumns, FoldState, Net, Meta, DirectState, Row
<1>6. TracksTags(r, e, base)
  BY <1>1, <1>2, <1>3 DEF Tracks, TracksRow, TracksTags, FoldState, Net, DirectState, Row
<1>. QED BY <1>2, <1>3, <1>4, <1>5, <1>6 DEF Tracks, r, e

LEMMA TrackRemoveMetadata ==
  ASSUME NEW s \in FoldState, NEW d \in DirectState, NEW base \in Row, NEW i \in Nat,
         NEW a \in Action, a.type = "remove_metadata", Tracks(s, d, base)
  PROVE  Tracks(SyncAct(s, a, i), DirectStep(d, a), base)
<1>. DEFINE r == SyncAct(s, a, i)
            e == DirectStep(d, a)
<1>1. r = RemoveMetadata(s, a.arg, i) /\ a.arg \in Key
  BY SyncActIs, ActionCases
<1>. HIDE DEF r
<1>2. /\ r.orig = s.orig /\ r.ctx.category = s.ctx.category /\ r.ctx.tags = s.ctx.tags
      /\ \A q \in Key : r.ctx.meta[q] = IF q = a.arg THEN None ELSE s.ctx.meta[q]
      /\ r.ctx.series = s.ctx.series /\ r.net.cat = s.net.cat /\ r.net.add = s.net.add
      /\ r.net.rem = s.net.rem
      /\ \A q \in Key : r.net.set[q] = IF q = a.arg THEN None ELSE s.net.set[q]
      /\ r.net.del = s.net.del \cup {y \in {a.arg} : s.orig[a.arg] # None}
      /\ r.net.flag = s.net.flag /\ r.net.hit = s.net.hit
  BY <1>1, RemoveMetadataFields
<1>3. /\ e.row.category = d.row.category /\ e.row.tags = d.row.tags
      /\ \A q \in Key : e.row.meta[q] = IF q = a.arg THEN None ELSE d.row.meta[q]
      /\ e.row.flag = d.row.flag /\ e.added = d.added /\ e.hit = d.hit
  <2>1. d.row \in Row
    BY DEF DirectState
  <2>2. e.row = DirectAct(d.row, a) /\ e.hit = d.hit
        /\ e.added = IF a.type = "add_tag" THEN d.added \cup {a.arg} ELSE d.added
    BY StepFields
  <2>. HIDE DEF e
  <2>. QED BY <1>1, <2>1, <2>2 DEF DirectAct, Row, Meta
<1>. HIDE DEF e
<1>4. TracksRow(r, e, base)
  BY <1>1, <1>2, <1>3 DEF Tracks, TracksRow, FoldState, Ctx, DirectState, Row
<1>5. TracksColumns(r, e, base)
  BY <1>1, <1>2, <1>3, NoneIsNoValue
  DEF Tracks, TracksRow, TracksColumns, FoldState, Net, Meta, DirectState, Row
<1>6. TracksTags(r, e, base)
  BY <1>1, <1>2, <1>3 DEF Tracks, TracksRow, TracksTags, FoldState, Net, DirectState, Row
<1>. QED BY <1>2, <1>3, <1>4, <1>5, <1>6 DEF Tracks, r, e

LEMMA TrackSeries ==
  ASSUME NEW s \in FoldState, NEW d \in DirectState, NEW base \in Row, NEW i \in Nat,
         NEW a \in Action, a.type = "assign_series", Tracks(s, d, base)
  PROVE  Tracks(SyncAct(s, a, i), DirectStep(d, a), base)
<1>. DEFINE r == SyncAct(s, a, i)
            e == DirectStep(d, a)
<1>1. r = AssignSeries(s, a.arg, i) /\ a.arg \in Series
  BY SyncActIs, ActionCases
<1>. HIDE DEF r
<1>2. /\ r.orig = s.orig /\ r.ctx.category = s.ctx.category /\ r.ctx.tags = s.ctx.tags
      /\ r.ctx.meta = s.ctx.meta /\ r.ctx.series = s.ctx.series /\ r.net.cat = s.net.cat
      /\ r.net.add = s.net.add /\ r.net.rem = s.net.rem /\ r.net.set = s.net.set
      /\ r.net.del = s.net.del /\ r.net.flag = s.net.flag /\ r.net.hit = s.net.hit
  BY <1>1, AssignSeriesFields
<1>3. /\ e.row.category = d.row.category /\ e.row.tags = d.row.tags
      /\ e.row.meta = d.row.meta /\ e.row.flag = d.row.flag /\ e.added = d.added
      /\ e.hit = d.hit
  <2>1. d.row \in Row
    BY DEF DirectState
  <2>2. e.row = DirectAct(d.row, a) /\ e.hit = d.hit
        /\ e.added = IF a.type = "add_tag" THEN d.added \cup {a.arg} ELSE d.added
    BY StepFields
  <2>. HIDE DEF e
  <2>. QED BY <1>1, <2>1, <2>2 DEF DirectAct, Row, Meta
<1>. HIDE DEF e
<1>4. TracksRow(r, e, base)
  BY <1>1, <1>2, <1>3 DEF Tracks, TracksRow, FoldState, Ctx, DirectState, Row
<1>5. TracksColumns(r, e, base)
  BY <1>1, <1>2, <1>3, NoneIsNoValue
  DEF Tracks, TracksRow, TracksColumns, FoldState, Net, Meta, DirectState, Row
<1>6. TracksTags(r, e, base)
  BY <1>1, <1>2, <1>3 DEF Tracks, TracksRow, TracksTags, FoldState, Net, DirectState, Row
<1>. QED BY <1>2, <1>3, <1>4, <1>5, <1>6 DEF Tracks, r, e

LEMMA TrackComment ==
  ASSUME NEW s \in FoldState, NEW d \in DirectState, NEW base \in Row, NEW i \in Nat,
         NEW a \in Action, a.type = "add_comment", Tracks(s, d, base)
  PROVE  Tracks(SyncAct(s, a, i), DirectStep(d, a), base)
<1>. DEFINE r == SyncAct(s, a, i)
            e == DirectStep(d, a)
<1>1. r = AddComment(s, a, i) /\ a.arg = None
  BY SyncActIs, ActionCases
<1>. HIDE DEF r
<1>2. /\ r.orig = s.orig /\ r.ctx.category = s.ctx.category /\ r.ctx.tags = s.ctx.tags
      /\ r.ctx.meta = s.ctx.meta /\ r.ctx.series = s.ctx.series /\ r.net.cat = s.net.cat
      /\ r.net.add = s.net.add /\ r.net.rem = s.net.rem /\ r.net.set = s.net.set
      /\ r.net.del = s.net.del /\ r.net.flag = s.net.flag /\ r.net.hit = s.net.hit
  BY <1>1, AddCommentFields
<1>3. /\ e.row.category = d.row.category /\ e.row.tags = d.row.tags
      /\ e.row.meta = d.row.meta /\ e.row.flag = d.row.flag /\ e.added = d.added
      /\ e.hit = d.hit
  <2>1. d.row \in Row
    BY DEF DirectState
  <2>2. e.row = DirectAct(d.row, a) /\ e.hit = d.hit
        /\ e.added = IF a.type = "add_tag" THEN d.added \cup {a.arg} ELSE d.added
    BY StepFields
  <2>. HIDE DEF e
  <2>. QED BY <1>1, <2>1, <2>2 DEF DirectAct, Row, Meta
<1>. HIDE DEF e
<1>4. TracksRow(r, e, base)
  BY <1>1, <1>2, <1>3 DEF Tracks, TracksRow, FoldState, Ctx, DirectState, Row
<1>5. TracksColumns(r, e, base)
  BY <1>1, <1>2, <1>3, NoneIsNoValue
  DEF Tracks, TracksRow, TracksColumns, FoldState, Net, Meta, DirectState, Row
<1>6. TracksTags(r, e, base)
  BY <1>1, <1>2, <1>3 DEF Tracks, TracksRow, TracksTags, FoldState, Net, DirectState, Row
<1>. QED BY <1>2, <1>3, <1>4, <1>5, <1>6 DEF Tracks, r, e

LEMMA TrackFlag ==
  ASSUME NEW s \in FoldState, NEW d \in DirectState, NEW base \in Row, NEW i \in Nat,
         NEW a \in Action, a.type \in {"flag", "unflag"}, Tracks(s, d, base)
  PROVE  Tracks(SyncAct(s, a, i), DirectStep(d, a), base)
<1>. DEFINE r == SyncAct(s, a, i)
            e == DirectStep(d, a)
<1>1. r = SetFlag(s, a.type, i) /\ a.arg = None
  BY SyncActIs, ActionCases
<1>. HIDE DEF r
<1>2. /\ r.orig = s.orig /\ r.ctx.category = s.ctx.category /\ r.ctx.tags = s.ctx.tags
      /\ r.ctx.meta = s.ctx.meta /\ r.ctx.series = s.ctx.series /\ r.net.cat = s.net.cat
      /\ r.net.add = s.net.add /\ r.net.rem = s.net.rem /\ r.net.set = s.net.set
      /\ r.net.del = s.net.del /\ r.net.flag = a.type /\ r.net.hit = s.net.hit
  BY <1>1, SetFlagFields
<1>3. /\ e.row.category = d.row.category /\ e.row.tags = d.row.tags
      /\ e.row.meta = d.row.meta /\ e.row.flag = (a.type = "flag") /\ e.added = d.added
      /\ e.hit = d.hit
  <2>1. d.row \in Row
    BY DEF DirectState
  <2>2. e.row = DirectAct(d.row, a) /\ e.hit = d.hit
        /\ e.added = IF a.type = "add_tag" THEN d.added \cup {a.arg} ELSE d.added
    BY StepFields
  <2>. HIDE DEF e
  <2>. QED BY <1>1, <2>1, <2>2 DEF DirectAct, Row, Meta
<1>. HIDE DEF e
<1>4. TracksRow(r, e, base)
  BY <1>1, <1>2, <1>3 DEF Tracks, TracksRow, FoldState, Ctx, DirectState, Row
<1>5. TracksColumns(r, e, base)
  BY <1>1, <1>2, <1>3, NoneIsNoValue
  DEF Tracks, TracksRow, TracksColumns, FoldState, Net, Meta, DirectState, Row
<1>6. TracksTags(r, e, base)
  BY <1>1, <1>2, <1>3 DEF Tracks, TracksRow, TracksTags, FoldState, Net, DirectState, Row
<1>. QED BY <1>2, <1>3, <1>4, <1>5, <1>6 DEF Tracks, r, e

LEMMA TrackAction ==
  ASSUME NEW s \in FoldState, NEW d \in DirectState, NEW base \in Row, NEW i \in Nat,
         NEW a \in Action, Tracks(s, d, base)
  PROVE  Tracks(SyncAct(s, a, i), DirectStep(d, a), base)
BY ActionCases, TrackCategory, TrackAddTag, TrackRemoveTag, TrackSetMetadata,
   TrackRemoveMetadata, TrackSeries, TrackComment, TrackFlag

-----------------------------------------------------------------------------
(* The audit trail                                                         *)

\* The writes of a net intent, by the field and value of their source.
Named(net, f, v) ==
  CASE f = "category"        -> v # None /\ net.cat = v
    [] f = "tag"             -> v \in net.add
    [] f = "tag_remove"      -> v \in net.rem
    [] f = "metadata"        -> v \in Key /\ net.set[v] # None
    [] f = "metadata_remove" -> v \in net.del
    [] f = "series"          -> v # None /\ net.series = v
    [] f \in {"flag", "unflag"} -> v = None /\ net.flag = f
    [] OTHER                 -> FALSE

Writing == Fields \ {"comment"}
TrailNamed(net) == \A x \in net.src : x.field \in Writing => Named(net, x.field, x.value)
TrailComplete(net) ==
  \A f \in Writing : \A v :
    Named(net, f, v) => \E x \in net.src : x.field = f /\ x.value = v
TrailUnique(net) ==
  \A x, y \in net.src :
    x.field \in Writing /\ x.field = y.field /\ x.value = y.value => x = y
TrailAsked(p, net) ==
  \A x \in net.src : x.field \in Writing => x.rule \in net.hit /\ Asks(p, x.rule, x)

\* Of rule i only the first n actions have run.
Asked(p, i, n, x) == \E m \in 1 .. n : AsksFor(p[i].do[m], x)
LastSoFar(p, net, i, n) ==
  \A x \in net.src : LastWins(x.field) =>
    \A j \in net.hit : (IF j = i THEN Asked(p, i, n, x) ELSE Asks(p, j, x)) => j <= x.rule
Trail(p, net, i, n) ==
  /\ TrailNamed(net) /\ TrailComplete(net) /\ TrailUnique(net) /\ TrailAsked(p, net)
  /\ LastSoFar(p, net, i, n) /\ net.hit \subseteq 1 .. i /\ i \in net.hit

\* An action drops the sources of some fields and values and adds at most one of
\* its own; it does the same to what the intent names, and drops what it asks for.
Vals == Category \cup Tag \cup Key \cup Series \cup {None}
SrcEffect(s, r, D, W, N) ==
  \A x : x \in r.src <=> (x \in s.src /\ ~ (x.field \in D /\ x.value \in W)) \/ x \in N
NamedEffect(s, r, D, W, f, v, N) ==
  \A g \in Writing : \A w :
    Named(r, g, w) <=> \/ Named(s, g, w) /\ ~ (g \in D /\ w \in W)
                       \/ N # {} /\ g = f /\ w = v
NewAsked(p, i, n, s, D, W, f, v, N) ==
  N # {} /\ f \in Writing => /\ AsksFor(p[i].do[n], Src(i, f, v))
                             /\ (f \in D /\ v \in W) \/ ~ Named(s, f, v)
DropsAsked(p, i, n, s, D, W) ==
  \A x \in s.src : LastWins(x.field) /\ AsksFor(p[i].do[n], x) => x.field \in D /\ x.value \in W
Effect(p, i, n, s, r, D, W, f, v, N) ==
  /\ r.hit = s.hit /\ f \in Fields /\ v \in Vals /\ N \subseteq {Src(i, f, v)}
  /\ SrcEffect(s, r, D, W, N) /\ NamedEffect(s, r, D, W, f, v, N)
  /\ NewAsked(p, i, n, s, D, W, f, v, N) /\ DropsAsked(p, i, n, s, D, W)

LEMMA TrailStep ==
  ASSUME NEW p \in Seq(Rule), NEW i \in 1 .. Len(p), NEW n \in 1 .. Len(p[i].do),
         NEW s \in Net, NEW r \in Net, Trail(p, s, i, n - 1),
         NEW D, NEW W, NEW f, NEW v, NEW N, Effect(p, i, n, s, r, D, W, f, v, N)
  PROVE  Trail(p, r, i, n)
<1>1. i \in Nat /\ n \in DOMAIN p[i].do /\ s.src \subseteq Source
  BY TableType DEF Net
<1>. DEFINE z == Src(i, f, v)
<1>2. z.rule = i /\ z.field = f /\ z.value = v
  BY DEF Src
<1>3. N \subseteq {z}
  BY DEF Effect
<1>4. N # {} /\ f \in Writing => AsksFor(p[i].do[n], z)
  BY DEF Effect, NewAsked
<1>. HIDE DEF z
<1>5. TrailNamed(r)
  BY <1>2, <1>3 DEF Trail, TrailNamed, Effect, SrcEffect, NamedEffect
<1>6. TrailComplete(r)
  <2>. SUFFICES ASSUME NEW g \in Writing, NEW w, Named(r, g, w)
                PROVE  \E x \in r.src : x.field = g /\ x.value = w
    BY DEF TrailComplete
  <2>1. CASE N # {} /\ g = f /\ w = v
    <3>1. z \in r.src /\ z.field = g /\ z.value = w
      BY <2>1, <1>2, <1>3 DEF Effect, SrcEffect
    <3>. QED BY <3>1
  <2>2. CASE ~ (N # {} /\ g = f /\ w = v)
    <3>1. Named(s, g, w) /\ ~ (g \in D /\ w \in W)
      BY <2>2 DEF Effect, NamedEffect
    <3>2. PICK x \in s.src : x.field = g /\ x.value = w
      BY <3>1 DEF Trail, TrailComplete
    <3>. QED BY <3>1, <3>2 DEF Effect, SrcEffect
  <2>. QED BY <2>1, <2>2
<1>7. TrailUnique(r)
  <2>. SUFFICES ASSUME NEW x \in r.src, NEW y \in r.src, x.field \in Writing,
                       x.field = y.field, x.value = y.value
                PROVE  x = y
    BY DEF TrailUnique
  <2>1. CASE x \in s.src /\ y \in s.src
    BY <2>1 DEF Trail, TrailUnique
  <2>2. CASE x \notin s.src /\ y \notin s.src
    BY <2>2, <1>3 DEF Effect, SrcEffect
  <2>3. ASSUME NEW o \in s.src, NEW q, q \notin s.src, o \in r.src, q \in r.src,
               o.field \in Writing, o.field = q.field, o.value = q.value
        PROVE  FALSE
    <3>1. N # {} /\ q = z /\ f \in Writing /\ o.field = f /\ o.value = v
      BY <2>3, <1>2, <1>3 DEF Effect, SrcEffect
    <3>2. o \in s.src /\ Named(s, f, v)
      BY <3>1, <2>3 DEF Trail, TrailNamed
    <3>3. f \in D /\ v \in W
      BY <3>1, <3>2 DEF Effect, NewAsked
    <3>4. o = z
      BY <3>1, <3>3, <2>3, <1>3 DEF Effect, SrcEffect
    <3>. QED BY <3>1, <3>4, <2>3
  <2>. QED BY <2>1, <2>2, <2>3
<1>8. TrailAsked(p, r)
  <2>1. f \in Writing /\ N # {} => Asks(p, i, z)
    BY <1>1, <1>4 DEF Asks
  <2>. QED BY <2>1, <1>2, <1>3 DEF Trail, TrailAsked, Effect, SrcEffect
<1>9. LastSoFar(p, r, i, n)
  <2>. SUFFICES ASSUME NEW x \in r.src, LastWins(x.field), NEW j \in r.hit,
                       IF j = i THEN Asked(p, i, n, x) ELSE Asks(p, j, x)
                PROVE  j <= x.rule
    BY DEF LastSoFar
  <2>1. j \in 1 .. i
    BY DEF Trail, Effect
  <2>2. CASE x = z
    BY <2>1, <2>2, <1>1, <1>2
  <2>3. CASE x # z
    <3>1. x \in s.src /\ ~ AsksFor(p[i].do[n], x)
      BY <2>3, <1>3 DEF Effect, SrcEffect, DropsAsked
    <3>2. Asked(p, i, n, x) => Asked(p, i, n - 1, x)
      <4>1. \A m \in 1 .. n : m = n \/ m \in 1 .. (n - 1)
        BY <1>1, TableType
      <4>. QED BY <3>1, <4>1 DEF Asked
    <3>. QED BY <3>1, <3>2 DEF Trail, LastSoFar, Effect
  <2>. QED BY <2>2, <2>3
<1>. QED BY <1>5, <1>6, <1>7, <1>8, <1>9 DEF Trail, Effect

LEMMA SetMetadataSource ==
  ASSUME NEW s, NEW r, NEW k, NEW i,
         r.net.src = Drop(Drop(s.net.src, "metadata_remove", k), "metadata", k)
                       \cup {Src(i, "metadata", k)}
  PROVE  SrcEffect(s.net, r.net, {"metadata", "metadata_remove"}, {k}, {Src(i, "metadata", k)})
BY DEF Drop, SrcEffect

LEMMA RemoveMetadataSource ==
  ASSUME NEW s, NEW r, NEW k, NEW i,
         r.net.src = Drop(s.net.src, "metadata", k)
                       \cup (IF s.orig[k] # None /\ k \notin s.net.del
                             THEN {Src(i, "metadata_remove", k)} ELSE {})
  PROVE  SrcEffect(s.net, r.net, {"metadata"}, {k},
                   {x \in {Src(i, "metadata_remove", k)} : s.orig[k] # None /\ k \notin s.net.del})
BY DEF Drop, SrcEffect

LEMMA TrailCategory ==
  ASSUME NEW p \in Seq(Rule), NEW i \in 1 .. Len(p), NEW n \in 1 .. Len(p[i].do),
         NEW s \in FoldState, Trail(p, s.net, i, n - 1),
         NEW a, a = p[i].do[n], a.type = "set_category"
  PROVE  Trail(p, SyncAct(s, a, i).net, i, n)
<1>. DEFINE r == SyncAct(s, a, i)
            D == {"category"}
            W == Vals
            z == Src(i, "category", a.arg)
            N == {z}
<1>1. i \in Nat /\ a \in Action
  BY TableType
<1>2. s.net \in Net /\ r.net \in Net
  BY <1>1, SyncActType, FoldStateType
<1>3. r = SetCategory(s, a.arg, i) /\ a.arg \in Category
  BY <1>1, SyncActIs, ActionCases
<1>4. r.net.src = DropField(s.net.src, {"category"}) \cup {Src(i, "category", a.arg)}
  <2>1. SetCategory(s, a.arg, i).net.src = DropField(s.net.src, {"category"})
            \cup {Src(i, "category", a.arg)}
    BY DEF SetCategory, FoldState, Net
  <2>. QED BY <1>3, <2>1
<1>. HIDE DEF r
<1>5. /\ r.net.hit = s.net.hit /\ r.net.cat = a.arg /\ r.net.add = s.net.add
      /\ r.net.rem = s.net.rem /\ r.net.set = s.net.set /\ r.net.del = s.net.del
      /\ r.net.series = s.net.series /\ r.net.flag = s.net.flag
  BY <1>3, SetCategoryFields
<1>6. SrcEffect(s.net, r.net, D, W, N)
  <2>1. \A x \in s.net.src : x.value \in Vals
    BY <1>2 DEF Net, Source, Vals
  <2>. HIDE DEF z
  <2>. QED BY <2>1, <1>3, <1>4, NoneIsNoValue DEF Drop, DropField, SrcEffect, Vals, z
<1>7. NamedEffect(s.net, r.net, D, W, "category", a.arg, N)
  <2>1. ASSUME NEW g \in Writing, NEW w
        PROVE  Named(r.net, g, w) <=> \/ Named(s.net, g, w) /\ ~ (g \in D /\ w \in W)
                                      \/ N # {} /\ g = "category" /\ w = a.arg
    <3>1. CASE g \in {"category"}
      BY <3>1, <1>2, <1>3, <1>5, NoneIsNoValue DEF Named, Vals, Net
    <3>2. CASE g \notin {"category"}
      BY <3>2, <1>3, <1>5 DEF Named, Writing, Fields
    <3>. QED BY <3>1, <3>2
  <2>. QED BY <2>1 DEF NamedEffect
<1>8. NewAsked(p, i, n, s.net, D, W, "category", a.arg, N)
  BY <1>3 DEF NewAsked, AsksFor, Src, Writing, Named, Vals
<1>9. DropsAsked(p, i, n, s.net, D, W)
  BY <1>2, <1>3 DEF DropsAsked, AsksFor, LastWins, Vals, Net, Source
<1>10. "category" \in Fields /\ a.arg \in Vals /\ N \subseteq {z}
  BY <1>3 DEF Fields, Vals
<1>11. Effect(p, i, n, s.net, r.net, D, W, "category", a.arg, N)
  BY <1>5, <1>6, <1>7, <1>8, <1>9, <1>10 DEF Effect
<1>12. Trail(p, r.net, i, n)
  <2>. HIDE DEF D, W, N
  <2>. QED BY <1>2, <1>11, TrailStep
<1>. QED BY <1>12 DEF r

LEMMA TrailAddTag ==
  ASSUME NEW p \in Seq(Rule), NEW i \in 1 .. Len(p), NEW n \in 1 .. Len(p[i].do),
         NEW s \in FoldState, Trail(p, s.net, i, n - 1),
         NEW a, a = p[i].do[n], a.type = "add_tag"
  PROVE  Trail(p, SyncAct(s, a, i).net, i, n)
<1>. DEFINE r == SyncAct(s, a, i)
            D == {"tag_remove"}
            W == {a.arg} \cap s.net.rem
            z == Src(i, "tag", a.arg)
            N == {x \in {z} : a.arg \notin s.net.add}
<1>1. i \in Nat /\ a \in Action
  BY TableType
<1>2. s.net \in Net /\ r.net \in Net
  BY <1>1, SyncActType, FoldStateType
<1>3. r = AddTag(s, a.arg, i) /\ a.arg \in Tag
  BY <1>1, SyncActIs, ActionCases
<1>4. r.net.src = (IF a.arg \in s.net.rem THEN Drop(s.net.src, "tag_remove", a.arg) ELSE s.net.src)
                  \cup (IF a.arg \in s.net.add THEN {} ELSE {Src(i, "tag", a.arg)})
  <2>1. AddTag(s, a.arg, i).net.src = (IF a.arg \in s.net.rem
            THEN Drop(s.net.src, "tag_remove", a.arg) ELSE s.net.src)
                  \cup (IF a.arg \in s.net.add THEN {} ELSE {Src(i, "tag", a.arg)})
    BY DEF AddTag, FoldState, Net
  <2>. QED BY <1>3, <2>1
<1>. HIDE DEF r
<1>5. /\ r.net.hit = s.net.hit /\ r.net.cat = s.net.cat /\ r.net.add = s.net.add \cup {a.arg}
      /\ r.net.rem = s.net.rem \ {a.arg} /\ r.net.set = s.net.set /\ r.net.del = s.net.del
      /\ r.net.series = s.net.series /\ r.net.flag = s.net.flag
  BY <1>3, AddTagFields
<1>6. SrcEffect(s.net, r.net, D, W, N)
  <2>1. \A x \in s.net.src : x.value \in Vals
    BY <1>2 DEF Net, Source, Vals
  <2>. HIDE DEF z
  <2>. QED BY <2>1, <1>3, <1>4, NoneIsNoValue DEF Drop, DropField, SrcEffect, Vals, z
<1>7. NamedEffect(s.net, r.net, D, W, "tag", a.arg, N)
  <2>1. ASSUME NEW g \in Writing, NEW w
        PROVE  Named(r.net, g, w) <=> \/ Named(s.net, g, w) /\ ~ (g \in D /\ w \in W)
                                      \/ N # {} /\ g = "tag" /\ w = a.arg
    <3>1. CASE g \in {"tag", "tag_remove"}
      BY <3>1, <1>5 DEF Named
    <3>2. CASE g \notin {"tag", "tag_remove"}
      BY <3>2, <1>5 DEF Named, Writing, Fields
    <3>. QED BY <3>1, <3>2
  <2>. QED BY <2>1 DEF NamedEffect
<1>8. NewAsked(p, i, n, s.net, D, W, "tag", a.arg, N)
  BY <1>3 DEF NewAsked, AsksFor, Src, Writing, Named, Vals
<1>9. DropsAsked(p, i, n, s.net, D, W)
  BY <1>2, <1>3 DEF DropsAsked, AsksFor, LastWins, Vals, Net, Source
<1>10. "tag" \in Fields /\ a.arg \in Vals /\ N \subseteq {z}
  BY <1>3 DEF Fields, Vals
<1>11. Effect(p, i, n, s.net, r.net, D, W, "tag", a.arg, N)
  BY <1>5, <1>6, <1>7, <1>8, <1>9, <1>10 DEF Effect
<1>12. Trail(p, r.net, i, n)
  <2>. HIDE DEF D, W, N
  <2>. QED BY <1>2, <1>11, TrailStep
<1>. QED BY <1>12 DEF r

LEMMA TrailRemoveTag ==
  ASSUME NEW p \in Seq(Rule), NEW i \in 1 .. Len(p), NEW n \in 1 .. Len(p[i].do),
         NEW s \in FoldState, Trail(p, s.net, i, n - 1),
         NEW a, a = p[i].do[n], a.type = "remove_tag"
  PROVE  Trail(p, SyncAct(s, a, i).net, i, n)
<1>. DEFINE r == SyncAct(s, a, i)
            D == {"tag"}
            W == {a.arg} \cap s.net.add
            z == Src(i, "tag_remove", a.arg)
            N == {x \in {z} : a.arg \notin s.net.add /\ a.arg \in s.ctx.tags
                /\ a.arg \notin s.net.rem}
<1>1. i \in Nat /\ a \in Action
  BY TableType
<1>2. s.net \in Net /\ r.net \in Net
  BY <1>1, SyncActType, FoldStateType
<1>3. r = RemoveTag(s, a.arg, i) /\ a.arg \in Tag
  BY <1>1, SyncActIs, ActionCases
<1>4. r.net.src = IF a.arg \in s.net.add THEN Drop(s.net.src, "tag", a.arg)
                  ELSE s.net.src \cup (IF a.arg \in s.ctx.tags /\ a.arg \notin s.net.rem
                                     THEN {Src(i, "tag_remove", a.arg)} ELSE {})
  <2>1. RemoveTag(s, a.arg, i).net.src = IF a.arg \in s.net.add THEN Drop(s.net.src, "tag", a.arg)
                  ELSE s.net.src \cup (IF a.arg \in s.ctx.tags /\ a.arg \notin s.net.rem
                                     THEN {Src(i, "tag_remove", a.arg)} ELSE {})
    BY DEF RemoveTag, FoldState, Net
  <2>. QED BY <1>3, <2>1
<1>. HIDE DEF r
<1>5. /\ r.net.hit = s.net.hit /\ r.net.cat = s.net.cat /\ r.net.add = s.net.add \ {a.arg}
      /\ r.net.rem = s.net.rem \cup {y \in {a.arg} : a.arg \notin s.net.add /\ a.arg \in s.ctx.tags}
      /\ r.net.set = s.net.set /\ r.net.del = s.net.del /\ r.net.series = s.net.series
      /\ r.net.flag = s.net.flag
  BY <1>3, RemoveTagFields
<1>6. SrcEffect(s.net, r.net, D, W, N)
  <2>1. \A x \in s.net.src : x.value \in Vals
    BY <1>2 DEF Net, Source, Vals
  <2>. HIDE DEF z
  <2>. QED BY <2>1, <1>3, <1>4, NoneIsNoValue DEF Drop, DropField, SrcEffect, Vals, z
<1>7. NamedEffect(s.net, r.net, D, W, "tag_remove", a.arg, N)
  <2>1. ASSUME NEW g \in Writing, NEW w
        PROVE  Named(r.net, g, w) <=> \/ Named(s.net, g, w) /\ ~ (g \in D /\ w \in W)
                                      \/ N # {} /\ g = "tag_remove" /\ w = a.arg
    <3>1. CASE g \in {"tag", "tag_remove"}
      BY <3>1, <1>5 DEF Named
    <3>2. CASE g \notin {"tag", "tag_remove"}
      BY <3>2, <1>5 DEF Named, Writing, Fields
    <3>. QED BY <3>1, <3>2
  <2>. QED BY <2>1 DEF NamedEffect
<1>8. NewAsked(p, i, n, s.net, D, W, "tag_remove", a.arg, N)
  BY <1>3 DEF NewAsked, AsksFor, Src, Writing, Named, Vals
<1>9. DropsAsked(p, i, n, s.net, D, W)
  BY <1>2, <1>3 DEF DropsAsked, AsksFor, LastWins, Vals, Net, Source
<1>10. "tag_remove" \in Fields /\ a.arg \in Vals /\ N \subseteq {z}
  BY <1>3 DEF Fields, Vals
<1>11. Effect(p, i, n, s.net, r.net, D, W, "tag_remove", a.arg, N)
  BY <1>5, <1>6, <1>7, <1>8, <1>9, <1>10 DEF Effect
<1>12. Trail(p, r.net, i, n)
  <2>. HIDE DEF D, W, N
  <2>. QED BY <1>2, <1>11, TrailStep
<1>. QED BY <1>12 DEF r

LEMMA TrailSetMetadata ==
  ASSUME NEW p \in Seq(Rule), NEW i \in 1 .. Len(p), NEW n \in 1 .. Len(p[i].do),
         NEW s \in FoldState, Trail(p, s.net, i, n - 1),
         NEW a, a = p[i].do[n], a.type = "set_metadata"
  PROVE  Trail(p, SyncAct(s, a, i).net, i, n)
<1>. DEFINE r == SyncAct(s, a, i)
            D == {"metadata", "metadata_remove"}
            W == {a.arg}
            z == Src(i, "metadata", a.arg)
            N == {z}
<1>1. i \in Nat /\ a \in Action
  BY TableType
<1>2. s.net \in Net /\ r.net \in Net
  BY <1>1, SyncActType, FoldStateType
<1>3. r = SetMetadata(s, a.arg, a.value, i) /\ a.arg \in Key /\ a.value \in Value
  BY <1>1, SyncActIs, ActionCases
<1>4. r.net.src = Drop(Drop(s.net.src, "metadata_remove", a.arg), "metadata", a.arg)
                  \cup {Src(i, "metadata", a.arg)}
  <2>1. SetMetadata(s, a.arg, a.value, i).net.src =
            Drop(Drop(s.net.src, "metadata_remove", a.arg), "metadata", a.arg)
                  \cup {Src(i, "metadata", a.arg)}
    BY DEF SetMetadata, FoldState, Net
  <2>. QED BY <1>3, <2>1
<1>. HIDE DEF r
<1>5. /\ r.net.hit = s.net.hit /\ r.net.cat = s.net.cat /\ r.net.add = s.net.add
      /\ r.net.rem = s.net.rem
      /\ \A q \in Key : r.net.set[q] = IF q = a.arg THEN a.value ELSE s.net.set[q]
      /\ r.net.del = s.net.del \ {a.arg} /\ r.net.series = s.net.series
      /\ r.net.flag = s.net.flag
  BY <1>3, SetMetadataFields
<1>6. SrcEffect(s.net, r.net, D, W, N)
  <2>. QED BY <1>4, SetMetadataSource
<1>7. NamedEffect(s.net, r.net, D, W, "metadata", a.arg, N)
  <2>. SUFFICES ASSUME NEW g \in Writing, NEW w
                PROVE  Named(r.net, g, w) <=> \/ Named(s.net, g, w) /\ ~ (g \in D /\ w \in W)
                                              \/ N # {} /\ g = "metadata" /\ w = a.arg
    BY DEF NamedEffect
  <2>1. CASE g = "metadata"
    <3>1. Named(r.net, g, w) <=> w \in Key /\ r.net.set[w] # None
      BY <2>1 DEF Named
    <3>2. Named(s.net, g, w) <=> w \in Key /\ s.net.set[w] # None
      BY <2>1 DEF Named
    <3>. QED BY <2>1, <3>1, <3>2, <1>3, <1>5, NoneIsNoValue
  <2>2. CASE g = "metadata_remove"
    <3>1. (Named(r.net, g, w) <=> w \in r.net.del) /\ (Named(s.net, g, w) <=> w \in s.net.del)
      BY <2>2 DEF Named
    <3>. QED BY <2>2, <3>1, <1>3, <1>5
  <2>3. CASE g \notin {"metadata", "metadata_remove"}
    <3>1. Named(r.net, g, w) <=> Named(s.net, g, w)
      BY <2>3, <1>5 DEF Named
    <3>. QED BY <2>3, <3>1
  <2>. QED BY <2>1, <2>2, <2>3
<1>8. NewAsked(p, i, n, s.net, D, W, "metadata", a.arg, N)
  BY <1>3 DEF NewAsked, AsksFor, Src, Writing, Named, Vals
<1>9. DropsAsked(p, i, n, s.net, D, W)
  BY <1>2, <1>3 DEF DropsAsked, AsksFor, LastWins, Vals, Net, Source
<1>10. "metadata" \in Fields /\ a.arg \in Vals /\ N \subseteq {z}
  BY <1>3 DEF Fields, Vals
<1>11. Effect(p, i, n, s.net, r.net, D, W, "metadata", a.arg, N)
  BY <1>5, <1>6, <1>7, <1>8, <1>9, <1>10 DEF Effect
<1>12. Trail(p, r.net, i, n)
  <2>. HIDE DEF D, W, N
  <2>. QED BY <1>2, <1>11, TrailStep
<1>. QED BY <1>12 DEF r

LEMMA TrailRemoveMetadata ==
  ASSUME NEW p \in Seq(Rule), NEW i \in 1 .. Len(p), NEW n \in 1 .. Len(p[i].do),
         NEW s \in FoldState, Trail(p, s.net, i, n - 1),
         NEW a, a = p[i].do[n], a.type = "remove_metadata"
  PROVE  Trail(p, SyncAct(s, a, i).net, i, n)
<1>. DEFINE r == SyncAct(s, a, i)
            D == {"metadata"}
            W == {a.arg}
            z == Src(i, "metadata_remove", a.arg)
            N == {x \in {z} : s.orig[a.arg] # None /\ a.arg \notin s.net.del}
<1>1. i \in Nat /\ a \in Action
  BY TableType
<1>2. s.net \in Net /\ r.net \in Net
  BY <1>1, SyncActType, FoldStateType
<1>3. r = RemoveMetadata(s, a.arg, i) /\ a.arg \in Key
  BY <1>1, SyncActIs, ActionCases
<1>4. r.net.src = Drop(s.net.src, "metadata", a.arg)
                  \cup (IF s.orig[a.arg] # None /\ a.arg \notin s.net.del
                        THEN {Src(i, "metadata_remove", a.arg)} ELSE {})
  <2>1. RemoveMetadata(s, a.arg, i).net.src = Drop(s.net.src, "metadata", a.arg)
                  \cup (IF s.orig[a.arg] # None /\ a.arg \notin s.net.del
                        THEN {Src(i, "metadata_remove", a.arg)} ELSE {})
    BY DEF RemoveMetadata, FoldState, Net
  <2>. QED BY <1>3, <2>1
<1>. HIDE DEF r
<1>5. /\ r.net.hit = s.net.hit /\ r.net.cat = s.net.cat /\ r.net.add = s.net.add
      /\ r.net.rem = s.net.rem
      /\ \A q \in Key : r.net.set[q] = IF q = a.arg THEN None ELSE s.net.set[q]
      /\ r.net.del = s.net.del \cup {y \in {a.arg} : s.orig[a.arg] # None}
      /\ r.net.series = s.net.series /\ r.net.flag = s.net.flag
  BY <1>3, RemoveMetadataFields
<1>6. SrcEffect(s.net, r.net, D, W, N)
  <2>. QED BY <1>4, RemoveMetadataSource
<1>7. NamedEffect(s.net, r.net, D, W, "metadata_remove", a.arg, N)
  <2>. SUFFICES ASSUME NEW g \in Writing, NEW w
                PROVE  Named(r.net, g, w) <=> \/ Named(s.net, g, w) /\ ~ (g \in D /\ w \in W)
                                              \/ N # {} /\ g = "metadata_remove" /\ w = a.arg
    BY DEF NamedEffect
  <2>1. CASE g = "metadata"
    <3>1. Named(r.net, g, w) <=> w \in Key /\ r.net.set[w] # None
      BY <2>1 DEF Named
    <3>2. Named(s.net, g, w) <=> w \in Key /\ s.net.set[w] # None
      BY <2>1 DEF Named
    <3>. QED BY <2>1, <3>1, <3>2, <1>3, <1>5, NoneIsNoValue
  <2>2. CASE g = "metadata_remove"
    <3>1. (Named(r.net, g, w) <=> w \in r.net.del) /\ (Named(s.net, g, w) <=> w \in s.net.del)
      BY <2>2 DEF Named
    <3>. QED BY <2>2, <3>1, <1>3, <1>5
  <2>3. CASE g \notin {"metadata", "metadata_remove"}
    <3>1. Named(r.net, g, w) <=> Named(s.net, g, w)
      BY <2>3, <1>5 DEF Named
    <3>. QED BY <2>3, <3>1
  <2>. QED BY <2>1, <2>2, <2>3
<1>8. NewAsked(p, i, n, s.net, D, W, "metadata_remove", a.arg, N)
  BY <1>3 DEF NewAsked, AsksFor, Src, Writing, Named, Vals
<1>9. DropsAsked(p, i, n, s.net, D, W)
  BY <1>2, <1>3 DEF DropsAsked, AsksFor, LastWins, Vals, Net, Source
<1>10. "metadata_remove" \in Fields /\ a.arg \in Vals /\ N \subseteq {z}
  BY <1>3 DEF Fields, Vals
<1>11. Effect(p, i, n, s.net, r.net, D, W, "metadata_remove", a.arg, N)
  BY <1>5, <1>6, <1>7, <1>8, <1>9, <1>10 DEF Effect
<1>12. Trail(p, r.net, i, n)
  <2>. HIDE DEF D, W, N
  <2>. QED BY <1>2, <1>11, TrailStep
<1>. QED BY <1>12 DEF r

LEMMA TrailSeries ==
  ASSUME NEW p \in Seq(Rule), NEW i \in 1 .. Len(p), NEW n \in 1 .. Len(p[i].do),
         NEW s \in FoldState, Trail(p, s.net, i, n - 1),
         NEW a, a = p[i].do[n], a.type = "assign_series"
  PROVE  Trail(p, SyncAct(s, a, i).net, i, n)
<1>. DEFINE r == SyncAct(s, a, i)
            D == {"series"}
            W == Vals
            z == Src(i, "series", a.arg)
            N == {z}
<1>1. i \in Nat /\ a \in Action
  BY TableType
<1>2. s.net \in Net /\ r.net \in Net
  BY <1>1, SyncActType, FoldStateType
<1>3. r = AssignSeries(s, a.arg, i) /\ a.arg \in Series
  BY <1>1, SyncActIs, ActionCases
<1>4. r.net.src = DropField(s.net.src, {"series"}) \cup {Src(i, "series", a.arg)}
  <2>1. AssignSeries(s, a.arg, i).net.src = DropField(s.net.src, {"series"})
            \cup {Src(i, "series", a.arg)}
    BY DEF AssignSeries, FoldState, Net
  <2>. QED BY <1>3, <2>1
<1>. HIDE DEF r
<1>5. /\ r.net.hit = s.net.hit /\ r.net.cat = s.net.cat /\ r.net.add = s.net.add
      /\ r.net.rem = s.net.rem /\ r.net.set = s.net.set /\ r.net.del = s.net.del
      /\ r.net.series = a.arg /\ r.net.flag = s.net.flag
  BY <1>3, AssignSeriesFields
<1>6. SrcEffect(s.net, r.net, D, W, N)
  <2>1. \A x \in s.net.src : x.value \in Vals
    BY <1>2 DEF Net, Source, Vals
  <2>. HIDE DEF z
  <2>. QED BY <2>1, <1>3, <1>4, NoneIsNoValue DEF Drop, DropField, SrcEffect, Vals, z
<1>7. NamedEffect(s.net, r.net, D, W, "series", a.arg, N)
  <2>1. ASSUME NEW g \in Writing, NEW w
        PROVE  Named(r.net, g, w) <=> \/ Named(s.net, g, w) /\ ~ (g \in D /\ w \in W)
                                      \/ N # {} /\ g = "series" /\ w = a.arg
    <3>1. CASE g \in {"series"}
      BY <3>1, <1>2, <1>3, <1>5, NoneIsNoValue DEF Named, Vals, Net
    <3>2. CASE g \notin {"series"}
      BY <3>2, <1>3, <1>5 DEF Named, Writing, Fields
    <3>. QED BY <3>1, <3>2
  <2>. QED BY <2>1 DEF NamedEffect
<1>8. NewAsked(p, i, n, s.net, D, W, "series", a.arg, N)
  BY <1>3 DEF NewAsked, AsksFor, Src, Writing, Named, Vals
<1>9. DropsAsked(p, i, n, s.net, D, W)
  BY <1>2, <1>3 DEF DropsAsked, AsksFor, LastWins, Vals, Net, Source
<1>10. "series" \in Fields /\ a.arg \in Vals /\ N \subseteq {z}
  BY <1>3 DEF Fields, Vals
<1>11. Effect(p, i, n, s.net, r.net, D, W, "series", a.arg, N)
  BY <1>5, <1>6, <1>7, <1>8, <1>9, <1>10 DEF Effect
<1>12. Trail(p, r.net, i, n)
  <2>. HIDE DEF D, W, N
  <2>. QED BY <1>2, <1>11, TrailStep
<1>. QED BY <1>12 DEF r

LEMMA TrailComment ==
  ASSUME NEW p \in Seq(Rule), NEW i \in 1 .. Len(p), NEW n \in 1 .. Len(p[i].do),
         NEW s \in FoldState, Trail(p, s.net, i, n - 1),
         NEW a, a = p[i].do[n], a.type = "add_comment"
  PROVE  Trail(p, SyncAct(s, a, i).net, i, n)
<1>. DEFINE r == SyncAct(s, a, i)
            D == {}
            W == {}
            z == Src(i, "comment", a.arg)
            N == {z}
<1>1. i \in Nat /\ a \in Action
  BY TableType
<1>2. s.net \in Net /\ r.net \in Net
  BY <1>1, SyncActType, FoldStateType
<1>3. r = AddComment(s, a, i) /\ a.arg = None
  BY <1>1, SyncActIs, ActionCases
<1>4. r.net.src = s.net.src \cup {Src(i, "comment", a.arg)}
  <2>1. AddComment(s, a, i).net.src = s.net.src \cup {Src(i, "comment", a.arg)}
    BY DEF AddComment, FoldState, Net
  <2>. QED BY <1>3, <2>1
<1>. HIDE DEF r
<1>5. /\ r.net.hit = s.net.hit /\ r.net.cat = s.net.cat /\ r.net.add = s.net.add
      /\ r.net.rem = s.net.rem /\ r.net.set = s.net.set /\ r.net.del = s.net.del
      /\ r.net.series = s.net.series /\ r.net.flag = s.net.flag
  BY <1>3, AddCommentFields
<1>6. SrcEffect(s.net, r.net, D, W, N)
  <2>1. \A x \in s.net.src : x.value \in Vals
    BY <1>2 DEF Net, Source, Vals
  <2>. HIDE DEF z
  <2>. QED BY <2>1, <1>3, <1>4, NoneIsNoValue DEF Drop, DropField, SrcEffect, Vals, z
<1>7. NamedEffect(s.net, r.net, D, W, "comment", a.arg, N)
  BY <1>2, <1>3, <1>5, NoneIsNoValue DEF Named, NamedEffect, Writing, Fields, Vals, Net, Meta
<1>8. NewAsked(p, i, n, s.net, D, W, "comment", a.arg, N)
  BY <1>3 DEF NewAsked, AsksFor, Src, Writing, Named, Vals
<1>9. DropsAsked(p, i, n, s.net, D, W)
  BY <1>2, <1>3 DEF DropsAsked, AsksFor, LastWins, Vals, Net, Source
<1>10. "comment" \in Fields /\ a.arg \in Vals /\ N \subseteq {z}
  BY <1>3 DEF Fields, Vals
<1>11. Effect(p, i, n, s.net, r.net, D, W, "comment", a.arg, N)
  BY <1>5, <1>6, <1>7, <1>8, <1>9, <1>10 DEF Effect
<1>12. Trail(p, r.net, i, n)
  <2>. HIDE DEF D, W, N
  <2>. QED BY <1>2, <1>11, TrailStep
<1>. QED BY <1>12 DEF r

LEMMA TrailFlag ==
  ASSUME NEW p \in Seq(Rule), NEW i \in 1 .. Len(p), NEW n \in 1 .. Len(p[i].do),
         NEW s \in FoldState, Trail(p, s.net, i, n - 1),
         NEW a, a = p[i].do[n], a.type \in {"flag", "unflag"}
  PROVE  Trail(p, SyncAct(s, a, i).net, i, n)
<1>. DEFINE r == SyncAct(s, a, i)
            D == {"flag", "unflag"}
            W == Vals
            z == Src(i, a.type, None)
            N == {z}
<1>1. i \in Nat /\ a \in Action
  BY TableType
<1>2. s.net \in Net /\ r.net \in Net
  BY <1>1, SyncActType, FoldStateType
<1>3. r = SetFlag(s, a.type, i) /\ a.arg = None
  BY <1>1, SyncActIs, ActionCases
<1>4. r.net.src = DropField(s.net.src, {"flag", "unflag"}) \cup {Src(i, a.type, None)}
  <2>1. SetFlag(s, a.type, i).net.src = DropField(s.net.src, {"flag", "unflag"})
            \cup {Src(i, a.type, None)}
    BY DEF SetFlag, FoldState, Net
  <2>. QED BY <1>3, <2>1
<1>. HIDE DEF r
<1>5. /\ r.net.hit = s.net.hit /\ r.net.cat = s.net.cat /\ r.net.add = s.net.add
      /\ r.net.rem = s.net.rem /\ r.net.set = s.net.set /\ r.net.del = s.net.del
      /\ r.net.series = s.net.series /\ r.net.flag = a.type
  BY <1>3, SetFlagFields
<1>6. SrcEffect(s.net, r.net, D, W, N)
  <2>1. \A x \in s.net.src : x.value \in Vals
    BY <1>2 DEF Net, Source, Vals
  <2>. HIDE DEF z
  <2>. QED BY <2>1, <1>3, <1>4, NoneIsNoValue DEF Drop, DropField, SrcEffect, Vals, z
<1>7. NamedEffect(s.net, r.net, D, W, a.type, None, N)
  <2>1. ASSUME NEW g \in Writing, NEW w
        PROVE  Named(r.net, g, w) <=> \/ Named(s.net, g, w) /\ ~ (g \in D /\ w \in W)
                                      \/ N # {} /\ g = a.type /\ w = None
    <3>1. CASE g \in {"flag", "unflag"}
      BY <3>1, <1>2, <1>3, <1>5, NoneIsNoValue DEF Named, Vals, Net
    <3>2. CASE g \notin {"flag", "unflag"}
      BY <3>2, <1>3, <1>5 DEF Named, Writing, Fields
    <3>. QED BY <3>1, <3>2
  <2>. QED BY <2>1 DEF NamedEffect
<1>8. NewAsked(p, i, n, s.net, D, W, a.type, None, N)
  BY <1>3 DEF NewAsked, AsksFor, Src, Writing, Named, Vals
<1>9. DropsAsked(p, i, n, s.net, D, W)
  BY <1>2, <1>3 DEF DropsAsked, AsksFor, LastWins, Vals, Net, Source
<1>10. a.type \in Fields /\ None \in Vals /\ N \subseteq {z}
  BY <1>3 DEF Fields, Vals
<1>11. Effect(p, i, n, s.net, r.net, D, W, a.type, None, N)
  BY <1>5, <1>6, <1>7, <1>8, <1>9, <1>10 DEF Effect
<1>12. Trail(p, r.net, i, n)
  <2>. HIDE DEF D, W, N
  <2>. QED BY <1>2, <1>11, TrailStep
<1>. QED BY <1>12 DEF r

LEMMA TrailAction ==
  ASSUME NEW p \in Seq(Rule), NEW i \in 1 .. Len(p), NEW n \in 1 .. Len(p[i].do),
         NEW s \in FoldState, Trail(p, s.net, i, n - 1)
  PROVE  Trail(p, SyncAct(s, p[i].do[n], i).net, i, n)
<1>. DEFINE a == p[i].do[n]
<1>1. a \in Action
  BY TableType
<1>. HIDE DEF a
<1>2. a = p[i].do[n]
  BY DEF a
<1>. QED BY <1>1, <1>2, ActionCases, TrailCategory, TrailAddTag, TrailRemoveTag,
            TrailSetMetadata, TrailRemoveMetadata, TrailSeries, TrailComment, TrailFlag

-----------------------------------------------------------------------------
(* A sync pass                                                             *)

\* The trail after the first i rules.
Settled(p, net) ==
  \A x \in net.src : LastWins(x.field) => \A j \in net.hit : Asks(p, j, x) => j <= x.rule
TrailTo(p, net, i) ==
  /\ TrailNamed(net) /\ TrailComplete(net) /\ TrailUnique(net) /\ TrailAsked(p, net)
  /\ Settled(p, net) /\ net.hit \subseteq 1 .. i

LEMMA TrailStarts ==
  ASSUME NEW p \in Seq(Rule), NEW i \in 1 .. Len(p), NEW net \in Net,
         TrailTo(p, net, i - 1), NEW r \in Net, r = [net EXCEPT !.hit = net.hit \cup {i}]
  PROVE  Trail(p, r, i, 0)
<1>1. i \in Nat /\ i - 1 \in Nat
  BY TableType
<1>2. /\ r.hit = net.hit \cup {i} /\ r.src = net.src /\ r.cat = net.cat /\ r.add = net.add
      /\ r.rem = net.rem /\ r.set = net.set /\ r.del = net.del /\ r.series = net.series
      /\ r.flag = net.flag
  BY DEF Net
<1>3. \A f, v : Named(r, f, v) <=> Named(net, f, v)
  BY <1>2 DEF Named
<1>4. TrailNamed(r) /\ TrailComplete(r) /\ TrailUnique(r)
  BY <1>2, <1>3, ZenonT(40) DEF TrailTo, TrailNamed, TrailComplete, TrailUnique
<1>5. TrailAsked(p, r)
  BY <1>2 DEF TrailTo, TrailAsked
<1>6. LastSoFar(p, r, i, 0)
  <2>1. \A x : ~ Asked(p, i, 0, x)
    BY DEF Asked
  <2>2. net.hit \subseteq 1 .. (i - 1)
    BY DEF TrailTo
  <2>. QED BY <1>1, <1>2, <2>1, <2>2 DEF TrailTo, Settled, LastSoFar
<1>7. r.hit \subseteq 1 .. i /\ i \in r.hit
  BY <1>1, <1>2 DEF TrailTo
<1>. QED BY <1>4, <1>5, <1>6, <1>7 DEF Trail

LEMMA TrailEnds ==
  ASSUME NEW p \in Seq(Rule), NEW i \in 1 .. Len(p), NEW net \in Net,
         Trail(p, net, i, Len(p[i].do))
  PROVE  TrailTo(p, net, i)
<1>1. \A x : Asks(p, i, x) => Asked(p, i, Len(p[i].do), x)
  BY TableType DEF Asks, Asked
<1>. QED BY <1>1 DEF Trail, TrailTo, Settled, LastSoFar

\* A rule that fires.
LEMMA SyncFire ==
  ASSUME NEW p \in Seq(Rule), NEW i \in 1 .. Len(p), NEW base \in Row, NEW known,
         NEW s \in FoldState, NEW d \in DirectState,
         Tracks(s, d, base), TrailTo(p, s.net, i - 1)
  PROVE  /\ Tracks(Fire(p, "sync", s, i, known), DirectFire(p, d, i), base)
         /\ TrailTo(p, Fire(p, "sync", s, i, known).net, i)
<1>. DEFINE s0 == [s EXCEPT !.net.hit = s.net.hit \cup {i}]
            d0 == [d EXCEPT !.hit = d.hit \cup {i}]
            N == Len(p[i].do)
            A == ActionRun(p, "sync", s0, i, known)
            B == DirectActions(p, d0, i)
            Same(n) == Tracks(A[n], B[n], base) /\ Trail(p, A[n].net, i, n)
            S == {n \in 0 .. N : Same(n)}
<1>1. N \in Nat /\ s0 \in FoldState /\ d0 \in DirectState /\ "sync" \in Lane /\ i \in Nat
  <2>1. "sync" \in Lane /\ i \in Nat /\ N \in Nat
    BY TableType DEF Lane
  <2>2. s0 \in FoldState
    BY <2>1, FireType
  <2>3. d0 \in DirectState
    BY DirectFireType
  <2>. QED BY <2>1, <2>2, <2>3
<1>2. /\ A \in [0 .. N -> FoldState] /\ A[0] = s0
      /\ \A n \in 1 .. N : A[n] = SyncAct(A[n - 1], p[i].do[n], i)
  <2>. HIDE DEF s0
  <2>. QED BY <1>1, ActionRunDef DEF Perform
<1>3. /\ B \in [0 .. N -> DirectState] /\ B[0] = d0
      /\ \A n \in 1 .. N : B[n] = DirectStep(B[n - 1], p[i].do[n])
  <2>. HIDE DEF d0
  <2>. QED BY <1>1, DirectActionsDef
<1>4. Tracks(s0, d0, base)
  <2>1. /\ s0.orig = s.orig /\ s0.ctx = s.ctx /\ s0.net.cat = s.net.cat /\ s0.net.flag = s.net.flag
        /\ s0.net.set = s.net.set /\ s0.net.del = s.net.del /\ s0.net.add = s.net.add
        /\ s0.net.rem = s.net.rem /\ s0.net.hit = s.net.hit \cup {i}
    BY DEF FoldState, Net
  <2>2. d0.row = d.row /\ d0.added = d.added /\ d0.hit = d.hit \cup {i}
    BY DEF DirectState
  <2>. HIDE DEF s0, d0
  <2>. QED BY <2>1, <2>2 DEF Tracks, TracksRow, TracksColumns, TracksTags
<1>5. Trail(p, s0.net, i, 0)
  <2>1. s.net \in Net /\ s0.net \in Net /\ s0.net = [s.net EXCEPT !.hit = s.net.hit \cup {i}]
    BY <1>1, FoldStateType DEF FoldState
  <2>. HIDE DEF s0
  <2>. QED BY <2>1, TrailStarts
<1>. HIDE DEF s0, d0, A, B
<1>6. 0 \in S
  BY <1>1, <1>2, <1>3, <1>4, <1>5
<1>7. ASSUME NEW n \in 1 .. N, n - 1 \in S PROVE n \in S
  <2>1. n - 1 \in 0 .. N /\ n \in 0 .. N /\ p[i].do[n] \in Action
    BY <1>1, TableType
  <2>2. A[n - 1] \in FoldState /\ B[n - 1] \in DirectState
    BY <1>2, <1>3, <2>1
  <2>3. Tracks(A[n], B[n], base)
    BY <1>1, <1>2, <1>3, <1>7, <2>1, <2>2, TrackAction
  <2>4. Trail(p, A[n].net, i, n)
    BY <1>2, <1>7, <2>1, <2>2, TrailAction
  <2>. QED BY <2>1, <2>3, <2>4
<1>8. N \in S
  <2>1. \A n \in 0 .. N : n \in S
    <3>. HIDE DEF S, N
    <3>. QED BY <1>1, <1>6, <1>7, UpTo
  <2>. QED BY <1>1, <2>1
<1>9. Fire(p, "sync", s, i, known) = A[N] /\ DirectFire(p, d, i) = B[N]
  BY DEF Fire, DirectFire, A, B, s0, d0
<1>10. A[N].net \in Net
  BY <1>1, <1>2, FoldStateType
<1>11. Tracks(A[N], B[N], base) /\ Trail(p, A[N].net, i, N)
  BY <1>8
<1>. HIDE DEF S, Same
<1>. QED BY <1>9, <1>10, <1>11, TrailEnds

LEMMA HoldsOn ==
  ASSUME NEW c \in Condition, NEW x, NEW y, x.tags = y.tags, x.category = y.category,
         x.series = y.series, \A k \in Key : x.meta[k] = y.meta[k]
  PROVE  Holds(c, x) <=> Holds(c, y)
BY DEF Holds, Condition

LEMMA StartType ==
  ASSUME NEW x \in Ctx
  PROVE  Start(x) \in FoldState /\ NoIntent \in Net
BY DEF Start, NoIntent, Ctx, Meta, Net, FoldState

LEMMA ContextType ==
  ASSUME NEW r \in Row
  PROVE  Context(r) \in Ctx /\ RetroContext(r) \in Ctx
BY DEF Context, RetroContext, Row, Ctx, Meta

\* The rules a sync pass of a row lets fire.
Firing(p, list, isNew) == {i \in list : TriggerMatches(p[i].on, isNew)}

\* After every rule the fold is where the direct run is, and its trail is true.
LEMMA SyncPass ==
  ASSUME NEW p \in Seq(Rule), NEW base \in Row, NEW list, NEW isNew
  PROVE  LET R == RuleRun(p, "sync", Start(Context(base)), Firing(p, list, isNew), {})
             D == DirectRules(p, base, list, isNew)
         IN  \A i \in 0 .. Len(p) :
               /\ R[i] \in FoldState /\ D[i] \in DirectState
               /\ Tracks(R[i], D[i], base) /\ TrailTo(p, R[i].net, i)
<1>. DEFINE fires == Firing(p, list, isNew)
            s0 == Start(Context(base))
            R == RuleRun(p, "sync", s0, fires, {})
            D == DirectRules(p, base, list, isNew)
            N == Len(p)
            Same(i) == Tracks(R[i], D[i], base) /\ TrailTo(p, R[i].net, i)
            S == {i \in 0 .. N : Same(i)}
<1>1. s0 \in FoldState /\ "sync" \in Lane /\ N \in Nat
  BY StartType, ContextType DEF Lane
<1>2. /\ R \in [0 .. N -> FoldState] /\ R[0] = s0
      /\ \A i \in 1 .. N : R[i] = IF i \in fires /\ Holds(p[i].cond, R[i - 1].ctx)
                                  THEN Fire(p, "sync", R[i - 1], i, {}) ELSE R[i - 1]
  <2>. HIDE DEF s0, fires
  <2>. QED BY <1>1, RuleRunDef
<1>3. /\ D \in [0 .. N -> DirectState] /\ D[0] = Untouched(base)
      /\ \A i \in 1 .. N : D[i] = IF Fires(p, base, list, isNew, i, D[i - 1])
                                  THEN DirectFire(p, D[i - 1], i) ELSE D[i - 1]
  BY DirectRulesDef
<1>4. Tracks(s0, Untouched(base), base)
  <2>1. /\ s0.orig = base.meta /\ s0.ctx = Context(base) /\ s0.net = NoIntent
    BY DEF Start, Context
  <2>2. /\ s0.ctx.category = base.category /\ s0.ctx.tags = base.tags
        /\ s0.ctx.meta = base.meta /\ s0.ctx.series = base.series
    BY <2>1 DEF Context
  <2>3. /\ s0.net.cat = None /\ s0.net.add = {} /\ s0.net.rem = {} /\ s0.net.del = {}
        /\ s0.net.flag = None /\ s0.net.hit = {} /\ \A k \in Key : s0.net.set[k] = None
    BY <2>1 DEF NoIntent
  <2>4. /\ Untouched(base).row = base /\ Untouched(base).added = {}
        /\ Untouched(base).hit = {}
    BY DEF Untouched
  <2>. HIDE DEF s0
  <2>. QED BY <2>1, <2>2, <2>3, <2>4 DEF Tracks, TracksRow, TracksColumns, TracksTags
<1>5. TrailTo(p, s0.net, 0)
  <2>1. /\ s0.net.src = {} /\ s0.net.hit = {} /\ s0.net.cat = None /\ s0.net.add = {}
        /\ s0.net.rem = {} /\ s0.net.del = {} /\ s0.net.series = None /\ s0.net.flag = None
        /\ \A k \in Key : s0.net.set[k] = None
    BY DEF Start, NoIntent
  <2>2. \A f \in Writing : \A v : ~ Named(s0.net, f, v)
    BY <2>1, NoneIsNoValue DEF Named, Writing, Fields
  <2>. HIDE DEF s0
  <2>. QED BY <2>1, <2>2
       DEF TrailTo, TrailNamed, TrailComplete, TrailUnique, TrailAsked, Settled
<1>. HIDE DEF s0, fires, R, D
<1>6. 0 \in S
  BY <1>1, <1>2, <1>3, <1>4, <1>5
<1>7. ASSUME NEW i \in 1 .. N, i - 1 \in S PROVE i \in S
  <2>1. i - 1 \in 0 .. N /\ i \in 0 .. N /\ p[i].cond \in Condition
    BY <1>1, TableType
  <2>2. R[i - 1] \in FoldState /\ D[i - 1] \in DirectState
    BY <1>2, <1>3, <2>1
  <2>3. Tracks(R[i - 1], D[i - 1], base) /\ TrailTo(p, R[i - 1].net, i - 1)
    BY <1>7
  <2>4. i \in fires /\ Holds(p[i].cond, R[i - 1].ctx) <=>
          Fires(p, base, list, isNew, i, D[i - 1])
    <3>. DEFINE d == D[i - 1]
                y == [Context(d.row) EXCEPT !.series = base.series]
    <3>1. /\ y.tags = d.row.tags /\ y.category = d.row.category
          /\ y.meta = d.row.meta /\ y.series = base.series
      BY DEF Context
    <3>2. /\ R[i - 1].ctx.tags = y.tags /\ R[i - 1].ctx.category = y.category
          /\ R[i - 1].ctx.series = y.series
          /\ \A k \in Key : R[i - 1].ctx.meta[k] = y.meta[k]
      <4>. HIDE DEF y
      <4>. QED BY <2>3, <3>1 DEF Tracks, TracksRow
    <3>3. Holds(p[i].cond, R[i - 1].ctx) <=> Holds(p[i].cond, y)
      <4>. HIDE DEF y
      <4>. QED BY <2>1, <3>2, HoldsOn
    <3>4. i \in fires <=> i \in list /\ TriggerMatches(p[i].on, isNew)
      BY DEF fires, Firing
    <3>. QED BY <3>3, <3>4 DEF Fires
  <2>5. CASE Fires(p, base, list, isNew, i, D[i - 1])
    <3>1. R[i] = Fire(p, "sync", R[i - 1], i, {}) /\ D[i] = DirectFire(p, D[i - 1], i)
      BY <1>2, <1>3, <2>4, <2>5
    <3>. QED BY <2>1, <2>2, <2>3, <3>1, SyncFire
  <2>6. CASE ~ Fires(p, base, list, isNew, i, D[i - 1])
    <3>1. R[i] = R[i - 1] /\ D[i] = D[i - 1]
      BY <1>2, <1>3, <2>4, <2>6
    <3>2. TrailTo(p, R[i].net, i)
      <4>1. 1 .. (i - 1) \subseteq 1 .. i
        OBVIOUS
      <4>. QED BY <2>3, <3>1, <4>1 DEF TrailTo
    <3>. QED BY <2>1, <2>3, <3>1, <3>2
  <2>. QED BY <2>5, <2>6
<1>8. \A i \in 0 .. N : i \in S
  <2>. HIDE DEF S, N
  <2>. QED BY <1>1, <1>6, <1>7, UpTo
<1>9. \A i \in 0 .. N : R[i] \in FoldState /\ D[i] \in DirectState /\ Same(i)
  BY <1>2, <1>3, <1>8
<1>. QED BY <1>9 DEF R, D, s0, fires

LEMMA NetLands ==
  ASSUME NEW s \in FoldState, NEW d \in DirectState, NEW base \in Row,
         base.state # "deleted", Tracks(s, d, base)
  PROVE  LandsLike(d, base, Materialize(base, s.net, s.net.cat))
<1>. DEFINE m == Materialize(base, s.net, s.net.cat)
<1>1. /\ m.tags = (base.tags \cup s.net.add) \ s.net.rem
      /\ m.category = IF s.net.cat = None THEN base.category ELSE s.net.cat
      /\ m.flag = IF s.net.flag = None THEN base.flag ELSE s.net.flag = "flag"
      /\ m.meta = [k \in Key |-> IF s.net.set[k] # None THEN s.net.set[k]
                                 ELSE IF k \in s.net.del THEN None ELSE base.meta[k]]
  BY DEF Materialize, Row
<1>2. d.row.meta \in Meta
  BY DEF DirectState, Row, Meta
<1>. HIDE DEF m
<1>3. m.meta = d.row.meta
  <2>1. \A k \in Key : m.meta[k] = d.row.meta[k]
    BY <1>1 DEF Tracks, TracksColumns
  <2>. QED BY <1>1, <1>2, <2>1 DEF Meta
<1>4. m.category = d.row.category /\ m.flag = d.row.flag
  BY <1>1 DEF Tracks, TracksColumns
<1>5. m.tags = d.row.tags \cup ((d.added \ d.row.tags) \cap base.tags)
  BY <1>1 DEF Tracks, TracksTags
<1>. QED BY <1>3, <1>4, <1>5 DEF LandsLike, m

\* The trail of a finished pass in the words of the property.
LEMMA TrailNames ==
  ASSUME NEW net \in Net, TrailNamed(net), TrailComplete(net)
  PROVE  {<<x.field, x.value>> : x \in {y \in net.src : y.field # "comment"}} =
          {<<"category", c>> : c \in {net.cat} \ {None}}
            \cup {<<"tag", x>> : x \in net.add} \cup {<<"tag_remove", x>> : x \in net.rem}
            \cup {<<"metadata", k>> : k \in {q \in Key : net.set[q] # None}}
            \cup {<<"metadata_remove", k>> : k \in net.del}
            \cup {<<"series", e>> : e \in {net.series} \ {None}}
            \cup {<<f, None>> : f \in {net.flag} \ {None}}
<1>. DEFINE L == {<<x.field, x.value>> : x \in {y \in net.src : y.field # "comment"}}
            R == {<<"category", c>> : c \in {net.cat} \ {None}}
                   \cup {<<"tag", x>> : x \in net.add} \cup {<<"tag_remove", x>> : x \in net.rem}
                   \cup {<<"metadata", k>> : k \in {q \in Key : net.set[q] # None}}
                   \cup {<<"metadata_remove", k>> : k \in net.del}
                   \cup {<<"series", e>> : e \in {net.series} \ {None}}
                   \cup {<<f, None>> : f \in {net.flag} \ {None}}
<1>1. ASSUME NEW f \in Writing, NEW v, Named(net, f, v) PROVE <<f, v>> \in R
  <2>1. CASE f = "category"
    <3>1. v \in {net.cat} \ {None}
      BY <1>1, <2>1 DEF Named
    <3>. QED BY <2>1, <3>1
  <2>2. CASE f = "tag"
    BY <1>1, <2>2 DEF Named
  <2>3. CASE f = "tag_remove"
    BY <1>1, <2>3 DEF Named
  <2>4. CASE f = "metadata"
    <3>1. v \in {q \in Key : net.set[q] # None}
      BY <1>1, <2>4 DEF Named
    <3>. QED BY <2>4, <3>1
  <2>5. CASE f = "metadata_remove"
    BY <1>1, <2>5 DEF Named
  <2>6. CASE f = "series"
    <3>1. v \in {net.series} \ {None}
      BY <1>1, <2>6 DEF Named
    <3>. QED BY <2>6, <3>1
  <2>7. CASE f \in {"flag", "unflag"}
    <3>1. v = None /\ f \in {net.flag} \ {None}
      BY <1>1, <2>7, NoneIsNoValue DEF Named
    <3>. QED BY <3>1
  <2>. QED BY <2>1, <2>2, <2>3, <2>4, <2>5, <2>6, <2>7 DEF Writing, Fields
<1>2. ASSUME NEW q \in R PROVE \E f \in Writing : \E v : q = <<f, v>> /\ Named(net, f, v)
  <2>1. CASE q \in {<<"category", c>> : c \in {net.cat} \ {None}}
    BY <2>1 DEF Named, Writing, Fields
  <2>2. CASE q \in {<<"tag", x>> : x \in net.add}
    BY <2>2 DEF Named, Writing, Fields
  <2>3. CASE q \in {<<"tag_remove", x>> : x \in net.rem}
    BY <2>3 DEF Named, Writing, Fields
  <2>4. CASE q \in {<<"metadata", k>> : k \in {o \in Key : net.set[o] # None}}
    BY <2>4 DEF Named, Writing, Fields
  <2>5. CASE q \in {<<"metadata_remove", k>> : k \in net.del}
    BY <2>5 DEF Named, Writing, Fields
  <2>6. CASE q \in {<<"series", e>> : e \in {net.series} \ {None}}
    BY <2>6 DEF Named, Writing, Fields
  <2>7. CASE q \in {<<f, None>> : f \in {net.flag} \ {None}}
    BY <2>7 DEF Named, Writing, Fields, Net
  <2>. QED BY <2>1, <2>2, <2>3, <2>4, <2>5, <2>6, <2>7
<1>. HIDE DEF R
<1>3. \A x \in net.src : x.field # "comment" <=> x.field \in Writing
  BY DEF Net, Source, Writing, Fields
<1>4. L \subseteq R
  BY <1>1, <1>3 DEF TrailNamed
<1>5. R \subseteq L
  <2>. SUFFICES ASSUME NEW q \in R PROVE q \in L
    OBVIOUS
  <2>1. PICK f \in Writing : \E v : q = <<f, v>> /\ Named(net, f, v)
    BY <1>2
  <2>2. PICK v : q = <<f, v>> /\ Named(net, f, v)
    BY <2>1
  <2>3. PICK x \in net.src : x.field = f /\ x.value = v
    BY <2>2 DEF TrailComplete
  <2>4. x.field # "comment"
    BY <2>3, <1>3
  <2>. QED BY <2>2, <2>3, <2>4
<1>6. L = R
  BY <1>4, <1>5
<1>. QED BY <1>6 DEF R

LEMMA TrailProvenance ==
  ASSUME NEW p, NEW i, NEW net \in Net, TrailTo(p, net, i)
  PROVE  Provenance(p, net)
<1>1. \A x \in net.src : x.field # "comment" <=> x.field \in Writing
  BY DEF Net, Source, Writing, Fields
<1>2. \A x, y \in {z \in net.src : z.field # "comment"} :
        x.field = y.field /\ x.value = y.value => x = y
  BY <1>1 DEF TrailTo, TrailUnique
<1>3. \A x \in {z \in net.src : z.field # "comment"} : x.rule \in net.hit /\ Asks(p, x.rule, x)
  BY <1>1 DEF TrailTo, TrailAsked
<1>4. \A x \in {z \in net.src : z.field # "comment"} : \A j \in net.hit :
        LastWins(x.field) /\ Asks(p, j, x) => j <= x.rule
  BY DEF TrailTo, Settled
<1>5. TrailNamed(net) /\ TrailComplete(net)
  BY DEF TrailTo
<1>. QED BY <1>2, <1>3, <1>4, <1>5, TrailNames DEF Provenance

\* The net intent of a sync pass, for every rule table, every set of rules and
\* every row that is not deleted (ResolveWithContext of rule_resolver.go): it
\* leaves the row as running the matching rules one after the other would, it
\* counts exactly the rules that matched, its audit trail names each write once
\* and credits the rule that made it; and no tag and no metadata key is both
\* written and removed by it.
THEOREM SyncIntent ==
  ASSUME NEW p \in Seq(Rule), NEW list, NEW base \in Row, base.state # "deleted", NEW isNew
  PROVE  LET net == ResolveWithContext(p, list, Context(base), isNew)
             d == Direct(p, list, base, isNew)
         IN  /\ net \in Net /\ net.hit \subseteq 1 .. Len(p)
             /\ LandsLike(d, base, Materialize(base, net, net.cat))
             /\ net.hit = d.hit
             /\ Provenance(p, net)
             /\ net.add \cap net.rem = {}
             /\ \A k \in net.del : net.set[k] = None
<1>. DEFINE R == RuleRun(p, "sync", Start(Context(base)), Firing(p, list, isNew), {})
            D == DirectRules(p, base, list, isNew)
            s == R[Len(p)]
            d == D[Len(p)]
<1>1. /\ s \in FoldState /\ d \in DirectState
      /\ Tracks(s, d, base) /\ TrailTo(p, s.net, Len(p))
  <2>1. Len(p) \in 0 .. Len(p)
    OBVIOUS
  <2>2. \A i \in 0 .. Len(p) : /\ R[i] \in FoldState /\ D[i] \in DirectState
                               /\ Tracks(R[i], D[i], base) /\ TrailTo(p, R[i].net, i)
    BY SyncPass
  <2>. HIDE DEF R, D
  <2>. QED BY <2>1, <2>2
<1>2. ResolveWithContext(p, list, Context(base), isNew) = s.net /\ Direct(p, list, base, isNew) = d
  BY DEF ResolveWithContext, Direct, Firing
<1>. HIDE DEF s, d
<1>3. s.net \in Net /\ s.net.hit \subseteq 1 .. Len(p)
  BY <1>1, FoldStateType DEF TrailTo
<1>4. LandsLike(d, base, Materialize(base, s.net, s.net.cat)) /\ s.net.hit = d.hit
  BY <1>1, NetLands DEF Tracks
<1>5. Provenance(p, s.net)
  BY <1>1, <1>3, TrailProvenance
<1>6. s.net.add \cap s.net.rem = {} /\ \A k \in s.net.del : s.net.set[k] = None
  BY <1>1 DEF Tracks, TracksTags, TracksColumns
<1>. QED BY <1>2, <1>3, <1>4, <1>5, <1>6

-----------------------------------------------------------------------------
(* The other lanes                                                         *)

LEMMA PerformKeeps ==
  ASSUME NEW lane \in Lane, NEW s \in FoldState, NEW a \in Action, NEW i \in Nat, NEW known
  PROVE  Perform(lane, s, a, i, known).net.hit = s.net.hit
             /\ Perform(lane, s, a, i, known).orig = s.orig
<1>1. SyncAct(s, a, i).net.hit = s.net.hit /\ SyncAct(s, a, i).orig = s.orig
  BY ActionCases, SyncActIs, SetCategoryFields, AddTagFields, RemoveTagFields, AddCommentFields,
     AssignSeriesFields, SetMetadataFields, RemoveMetadataFields, SetFlagFields
<1>2. RetroAct(s, a, i, known).net.hit = s.net.hit /\ RetroAct(s, a, i, known).orig = s.orig
  BY ActionCases, RetroActIs, SetCategoryFields, AddTagFields, RemoveTagFields,
     AssignSeriesFields, SetMetadataFields, RetroRemoveMetadataFields, SetFlagFields
  DEF RetroSetCategory
<1>3. CollectAct(s, a, i, known).net.hit = s.net.hit /\ CollectAct(s, a, i, known).orig = s.orig
  <2>1. CASE a.type = "add_tag"
    BY <2>1 DEF CollectAct, FoldState, Net
  <2>2. CASE a.type = "remove_tag"
    BY <2>2 DEF CollectAct, FoldState, Net
  <2>3. CASE a.type \notin {"add_tag", "remove_tag"}
    <3>1. CollectAct(s, a, i, known) = RetroAct(s, a, i, known)
      BY <2>3 DEF CollectAct
    <3>. QED BY <1>2, <3>1
  <2>. QED BY <2>1, <2>2, <2>3
<1>. QED BY <1>1, <1>2, <1>3 DEF Perform, Lane

LEMMA FireKeeps ==
  ASSUME NEW p \in Seq(Rule), NEW i \in 1 .. Len(p), NEW lane \in Lane,
         NEW s \in FoldState, NEW known
  PROVE  /\ Fire(p, lane, s, i, known).net.hit = s.net.hit \cup {i}
         /\ Fire(p, lane, s, i, known).orig = s.orig
<1>. DEFINE s0 == [s EXCEPT !.net.hit = s.net.hit \cup {i}]
            A == ActionRun(p, lane, s0, i, known)
            N == Len(p[i].do)
            S == {n \in 0 .. N : A[n].net.hit = s.net.hit \cup {i} /\ A[n].orig = s.orig}
<1>1. s0 \in FoldState /\ N \in Nat /\ i \in Nat
  <2>1. N \in Nat /\ i \in Nat
    BY TableType
  <2>2. s0 \in FoldState
    BY FireType
  <2>. QED BY <2>1, <2>2
<1>2. s0.net.hit = s.net.hit \cup {i} /\ s0.orig = s.orig
  BY DEF FoldState, Net
<1>. HIDE DEF s0
<1>3. /\ A \in [0 .. N -> FoldState] /\ A[0] = s0
      /\ \A n \in 1 .. N : A[n] = Perform(lane, A[n - 1], p[i].do[n], i, known)
  BY <1>1, ActionRunDef
<1>. HIDE DEF A
<1>4. 0 \in S
  BY <1>1, <1>2, <1>3
<1>5. ASSUME NEW n \in 1 .. N, n - 1 \in S PROVE n \in S
  <2>1. n - 1 \in 0 .. N /\ n \in 0 .. N /\ p[i].do[n] \in Action
    BY <1>1, TableType
  <2>2. A[n - 1] \in FoldState
    BY <1>3, <2>1
  <2>. DEFINE v == A[n - 1]
              a == p[i].do[n]
  <2>3. A[n] = Perform(lane, v, a, i, known) /\ v \in FoldState /\ a \in Action
    BY <1>3, <2>1, <2>2
  <2>. HIDE DEF v, a
  <2>4. A[n].net.hit = v.net.hit /\ A[n].orig = v.orig
    BY <1>1, <2>3, PerformKeeps
  <2>. QED BY <1>5, <2>1, <2>4 DEF v
<1>6. \A n \in 0 .. N : n \in S
  <2>. HIDE DEF S, N
  <2>. QED BY <1>1, <1>4, <1>5, UpTo
<1>7. Fire(p, lane, s, i, known) = A[N] /\ N \in 0 .. N
  BY <1>1 DEF Fire, A, s0
<1>. QED BY <1>6, <1>7

LEMMA RuleRunHit ==
  ASSUME NEW p \in Seq(Rule), NEW lane \in Lane, NEW s \in FoldState, s.net.hit = {},
         NEW set, NEW known
  PROVE  LET r == RuleRun(p, lane, s, set, known)[Len(p)]
         IN  r \in FoldState /\ r.net.hit \subseteq set \cap (1 .. Len(p))
<1>. DEFINE R == RuleRun(p, lane, s, set, known)
            N == Len(p)
            S == {i \in 0 .. N : R[i].net.hit \subseteq set \cap (1 .. N)}
<1>1. /\ R \in [0 .. N -> FoldState] /\ R[0] = s
      /\ \A i \in 1 .. N : R[i] = IF i \in set /\ Holds(p[i].cond, R[i - 1].ctx)
                                  THEN Fire(p, lane, R[i - 1], i, known) ELSE R[i - 1]
  BY RuleRunDef
<1>. HIDE DEF R
<1>2. N \in Nat
  OBVIOUS
<1>3. 0 \in S
  BY <1>1, <1>2
<1>4. ASSUME NEW i \in 1 .. N, i - 1 \in S PROVE i \in S
  <2>1. i - 1 \in 0 .. N /\ i \in 0 .. N
    BY <1>2
  <2>2. R[i - 1] \in FoldState
    BY <1>1, <2>1
  <2>3. Fire(p, lane, R[i - 1], i, known).net.hit = R[i - 1].net.hit \cup {i}
    BY <2>2, FireKeeps
  <2>. QED BY <1>1, <1>4, <2>1, <2>3
<1>5. \A i \in 0 .. N : i \in S
  <2>. HIDE DEF S, N
  <2>. QED BY <1>2, <1>3, <1>4, UpTo
<1>6. N \in 0 .. N
  BY <1>2
<1>. QED BY <1>1, <1>5, <1>6 DEF R

\* The intent of a retroactive apply has the type of an intent, and counts rules of
\* the set that was applied.
LEMMA RetroIntentType ==
  ASSUME NEW p \in Seq(Rule), NEW list, NEW x \in Ctx, NEW known
  PROVE  LET net == BulkIntent(p, list, x, known)
         IN  net \in Net /\ net.hit \subseteq list \cap (1 .. Len(p))
<1>. DEFINE s == Start(x)
            r == RuleRun(p, "bulk", s, list, known)[Len(p)]
<1>1. s \in FoldState /\ s.net.hit = {} /\ "bulk" \in Lane
  BY StartType DEF Lane, Start, NoIntent
<1>2. r \in FoldState /\ r.net.hit \subseteq list \cap (1 .. Len(p))
  <2>. HIDE DEF s
  <2>. QED BY <1>1, RuleRunHit
<1>3. BulkIntent(p, list, x, known) = r.net
  BY DEF BulkIntent
<1>. HIDE DEF r
<1>. QED BY <1>2, <1>3, FoldStateType

LEMMA AbsentType == Absent \in Row /\ Context(Absent) \in Ctx
<1>1. Absent \in Row
  BY DEF Absent, Row
<1>. QED BY <1>1, ContextType

LEMMA SingleIntentType ==
  ASSUME NEW p \in Seq(Rule), NEW i \in 1 .. Len(p), NEW known
  PROVE  SingleIntent(p, i, known) \in Net /\ SingleIntent(p, i, known).hit = {i}
<1>. DEFINE s == Start(Context(Absent))
            r == Fire(p, "one", s, i, known)
<1>1. s \in FoldState /\ s.net.hit = {} /\ "one" \in Lane
  BY StartType, AbsentType DEF Lane, Start, NoIntent
<1>2. r \in FoldState /\ r.net.hit = {i}
  <2>. HIDE DEF s
  <2>1. r \in FoldState
    BY <1>1, FireType
  <2>2. r.net.hit = s.net.hit \cup {i}
    BY <1>1, FireKeeps
  <2>. QED BY <1>1, <2>1, <2>2
<1>3. SingleIntent(p, i, known) = r.net
  BY DEF SingleIntent
<1>. HIDE DEF r
<1>. QED BY <1>2, <1>3, FoldStateType

-----------------------------------------------------------------------------
(* The bulk lane asks for what the sync lane asks for                       *)

\* The folds differ in the category they see, in their sources, and in the deletes
\* of keys the stored blob does not have.
Twins(s, b) ==
  /\ s.orig = b.orig /\ s.ctx.tags = b.ctx.tags /\ s.ctx.series = b.ctx.series
  /\ \A k \in Key : s.ctx.meta[k] = b.ctx.meta[k]
  /\ s.net.cat = b.net.cat /\ s.net.add = b.net.add /\ s.net.rem = b.net.rem
  /\ s.net.series = b.net.series /\ s.net.flag = b.net.flag /\ s.net.hit = b.net.hit
  /\ \A k \in Key : s.net.set[k] = b.net.set[k]
  /\ s.net.del = {k \in b.net.del : s.orig[k] # None}

LEMMA TwinCategory ==
  ASSUME NEW s \in FoldState, NEW b \in FoldState, NEW a \in Action, NEW i \in Nat, NEW known,
         a.type = "set_category", a.arg \in known, Twins(s, b)
  PROVE  Twins(SyncAct(s, a, i), RetroAct(b, a, i, known))
<1>. DEFINE r == SyncAct(s, a, i)
            q == RetroAct(b, a, i, known)
<1>1. r = SetCategory(s, a.arg, i) /\ q = SetCategory(b, a.arg, i) /\ a.arg \in Category
  BY SyncActIs, RetroActIs, ActionCases DEF RetroSetCategory
<1>. HIDE DEF r, q
<1>2. /\ r.orig = s.orig /\ r.ctx.tags = s.ctx.tags /\ r.ctx.meta = s.ctx.meta
      /\ r.ctx.series = s.ctx.series /\ r.net.cat = a.arg /\ r.net.add = s.net.add
      /\ r.net.rem = s.net.rem /\ r.net.set = s.net.set /\ r.net.del = s.net.del
      /\ r.net.series = s.net.series /\ r.net.flag = s.net.flag /\ r.net.hit = s.net.hit
  BY <1>1, SetCategoryFields
<1>3. /\ q.orig = b.orig /\ q.ctx.tags = b.ctx.tags /\ q.ctx.meta = b.ctx.meta
      /\ q.ctx.series = b.ctx.series /\ q.net.cat = a.arg /\ q.net.add = b.net.add
      /\ q.net.rem = b.net.rem /\ q.net.set = b.net.set /\ q.net.del = b.net.del
      /\ q.net.series = b.net.series /\ q.net.flag = b.net.flag /\ q.net.hit = b.net.hit
  BY <1>1, SetCategoryFields
<1>4. Twins(r, q)
  BY <1>1, <1>2, <1>3 DEF Twins, FoldState, Net
<1>. QED BY <1>4 DEF r, q

LEMMA TwinAddTag ==
  ASSUME NEW s \in FoldState, NEW b \in FoldState, NEW a \in Action, NEW i \in Nat, NEW known,
         a.type = "add_tag", Twins(s, b)
  PROVE  Twins(SyncAct(s, a, i), RetroAct(b, a, i, known))
<1>. DEFINE r == SyncAct(s, a, i)
            q == RetroAct(b, a, i, known)
<1>1. r = AddTag(s, a.arg, i) /\ q = AddTag(b, a.arg, i) /\ a.arg \in Tag
  BY SyncActIs, RetroActIs, ActionCases DEF RetroSetCategory
<1>. HIDE DEF r, q
<1>2. /\ r.orig = s.orig /\ r.ctx.tags = s.ctx.tags \cup {a.arg} /\ r.ctx.meta = s.ctx.meta
      /\ r.ctx.series = s.ctx.series /\ r.net.cat = s.net.cat
      /\ r.net.add = s.net.add \cup {a.arg} /\ r.net.rem = s.net.rem \ {a.arg}
      /\ r.net.set = s.net.set /\ r.net.del = s.net.del /\ r.net.series = s.net.series
      /\ r.net.flag = s.net.flag /\ r.net.hit = s.net.hit
  BY <1>1, AddTagFields
<1>3. /\ q.orig = b.orig /\ q.ctx.tags = b.ctx.tags \cup {a.arg} /\ q.ctx.meta = b.ctx.meta
      /\ q.ctx.series = b.ctx.series /\ q.net.cat = b.net.cat
      /\ q.net.add = b.net.add \cup {a.arg} /\ q.net.rem = b.net.rem \ {a.arg}
      /\ q.net.set = b.net.set /\ q.net.del = b.net.del /\ q.net.series = b.net.series
      /\ q.net.flag = b.net.flag /\ q.net.hit = b.net.hit
  BY <1>1, AddTagFields
<1>4. Twins(r, q)
  BY <1>1, <1>2, <1>3 DEF Twins, FoldState, Net
<1>. QED BY <1>4 DEF r, q

LEMMA TwinRemoveTag ==
  ASSUME NEW s \in FoldState, NEW b \in FoldState, NEW a \in Action, NEW i \in Nat, NEW known,
         a.type = "remove_tag", Twins(s, b)
  PROVE  Twins(SyncAct(s, a, i), RetroAct(b, a, i, known))
<1>. DEFINE r == SyncAct(s, a, i)
            q == RetroAct(b, a, i, known)
<1>1. r = RemoveTag(s, a.arg, i) /\ q = RemoveTag(b, a.arg, i) /\ a.arg \in Tag
  BY SyncActIs, RetroActIs, ActionCases DEF RetroSetCategory
<1>. HIDE DEF r, q
<1>2. /\ r.orig = s.orig /\ r.ctx.tags = s.ctx.tags \ {a.arg} /\ r.ctx.meta = s.ctx.meta
      /\ r.ctx.series = s.ctx.series /\ r.net.cat = s.net.cat
      /\ r.net.add = s.net.add \ {a.arg}
      /\ r.net.rem = s.net.rem \cup {y \in {a.arg} : a.arg \notin s.net.add /\ a.arg \in s.ctx.tags}
      /\ r.net.set = s.net.set /\ r.net.del = s.net.del /\ r.net.series = s.net.series
      /\ r.net.flag = s.net.flag /\ r.net.hit = s.net.hit
  BY <1>1, RemoveTagFields
<1>3. /\ q.orig = b.orig /\ q.ctx.tags = b.ctx.tags \ {a.arg} /\ q.ctx.meta = b.ctx.meta
      /\ q.ctx.series = b.ctx.series /\ q.net.cat = b.net.cat
      /\ q.net.add = b.net.add \ {a.arg}
      /\ q.net.rem = b.net.rem \cup {y \in {a.arg} : a.arg \notin b.net.add /\ a.arg \in b.ctx.tags}
      /\ q.net.set = b.net.set /\ q.net.del = b.net.del /\ q.net.series = b.net.series
      /\ q.net.flag = b.net.flag /\ q.net.hit = b.net.hit
  BY <1>1, RemoveTagFields
<1>4. Twins(r, q)
  BY <1>1, <1>2, <1>3 DEF Twins, FoldState, Net
<1>. QED BY <1>4 DEF r, q

LEMMA TwinSetMetadata ==
  ASSUME NEW s \in FoldState, NEW b \in FoldState, NEW a \in Action, NEW i \in Nat, NEW known,
         a.type = "set_metadata", Twins(s, b)
  PROVE  Twins(SyncAct(s, a, i), RetroAct(b, a, i, known))
<1>. DEFINE r == SyncAct(s, a, i)
            q == RetroAct(b, a, i, known)
<1>1. r = SetMetadata(s, a.arg, a.value, i) /\ q = SetMetadata(b, a.arg, a.value, i)
          /\ a.arg \in Key /\ a.value \in Value
  BY SyncActIs, RetroActIs, ActionCases DEF RetroSetCategory
<1>. HIDE DEF r, q
<1>2. /\ r.orig = s.orig /\ r.ctx.tags = s.ctx.tags
      /\ \A z \in Key : r.ctx.meta[z] = IF z = a.arg THEN a.value ELSE s.ctx.meta[z]
      /\ r.ctx.series = s.ctx.series /\ r.net.cat = s.net.cat /\ r.net.add = s.net.add
      /\ r.net.rem = s.net.rem
      /\ \A z \in Key : r.net.set[z] = IF z = a.arg THEN a.value ELSE s.net.set[z]
      /\ r.net.del = s.net.del \ {a.arg} /\ r.net.series = s.net.series
      /\ r.net.flag = s.net.flag /\ r.net.hit = s.net.hit
  BY <1>1, SetMetadataFields
<1>3. /\ q.orig = b.orig /\ q.ctx.tags = b.ctx.tags
      /\ \A k \in Key : q.ctx.meta[k] = IF k = a.arg THEN a.value ELSE b.ctx.meta[k]
      /\ q.ctx.series = b.ctx.series /\ q.net.cat = b.net.cat /\ q.net.add = b.net.add
      /\ q.net.rem = b.net.rem
      /\ \A k \in Key : q.net.set[k] = IF k = a.arg THEN a.value ELSE b.net.set[k]
      /\ q.net.del = b.net.del \ {a.arg} /\ q.net.series = b.net.series
      /\ q.net.flag = b.net.flag /\ q.net.hit = b.net.hit
  BY <1>1, SetMetadataFields
<1>4. Twins(r, q)
  BY <1>1, <1>2, <1>3 DEF Twins, FoldState, Net
<1>. QED BY <1>4 DEF r, q

LEMMA TwinRemoveMetadata ==
  ASSUME NEW s \in FoldState, NEW b \in FoldState, NEW a \in Action, NEW i \in Nat, NEW known,
         a.type = "remove_metadata", Twins(s, b)
  PROVE  Twins(SyncAct(s, a, i), RetroAct(b, a, i, known))
<1>. DEFINE r == SyncAct(s, a, i)
            q == RetroAct(b, a, i, known)
<1>1. r = RemoveMetadata(s, a.arg, i) /\ q = RetroRemoveMetadata(b, a.arg) /\ a.arg \in Key
  BY SyncActIs, RetroActIs, ActionCases DEF RetroSetCategory
<1>. HIDE DEF r, q
<1>2. /\ r.orig = s.orig /\ r.ctx.tags = s.ctx.tags
      /\ \A z \in Key : r.ctx.meta[z] = IF z = a.arg THEN None ELSE s.ctx.meta[z]
      /\ r.ctx.series = s.ctx.series /\ r.net.cat = s.net.cat /\ r.net.add = s.net.add
      /\ r.net.rem = s.net.rem
      /\ \A z \in Key : r.net.set[z] = IF z = a.arg THEN None ELSE s.net.set[z]
      /\ r.net.del = s.net.del \cup {y \in {a.arg} : s.orig[a.arg] # None}
      /\ r.net.series = s.net.series /\ r.net.flag = s.net.flag /\ r.net.hit = s.net.hit
  BY <1>1, RemoveMetadataFields
<1>3. /\ q.orig = b.orig /\ q.ctx.tags = b.ctx.tags
      /\ \A k \in Key : q.ctx.meta[k] = IF k = a.arg THEN None ELSE b.ctx.meta[k]
      /\ q.ctx.series = b.ctx.series /\ q.net.cat = b.net.cat /\ q.net.add = b.net.add
      /\ q.net.rem = b.net.rem
      /\ \A k \in Key : q.net.set[k] = IF k = a.arg THEN None ELSE b.net.set[k]
      /\ q.net.del = b.net.del \cup {a.arg} /\ q.net.series = b.net.series
      /\ q.net.flag = b.net.flag /\ q.net.hit = b.net.hit
  BY <1>1, RetroRemoveMetadataFields
<1>4. Twins(r, q)
  BY <1>1, <1>2, <1>3 DEF Twins, FoldState, Net
<1>. QED BY <1>4 DEF r, q

LEMMA TwinSeries ==
  ASSUME NEW s \in FoldState, NEW b \in FoldState, NEW a \in Action, NEW i \in Nat, NEW known,
         a.type = "assign_series", Twins(s, b)
  PROVE  Twins(SyncAct(s, a, i), RetroAct(b, a, i, known))
<1>. DEFINE r == SyncAct(s, a, i)
            q == RetroAct(b, a, i, known)
<1>1. r = AssignSeries(s, a.arg, i) /\ q = AssignSeries(b, a.arg, i) /\ a.arg \in Series
  BY SyncActIs, RetroActIs, ActionCases DEF RetroSetCategory
<1>. HIDE DEF r, q
<1>2. /\ r.orig = s.orig /\ r.ctx.tags = s.ctx.tags /\ r.ctx.meta = s.ctx.meta
      /\ r.ctx.series = s.ctx.series /\ r.net.cat = s.net.cat /\ r.net.add = s.net.add
      /\ r.net.rem = s.net.rem /\ r.net.set = s.net.set /\ r.net.del = s.net.del
      /\ r.net.series = a.arg /\ r.net.flag = s.net.flag /\ r.net.hit = s.net.hit
  BY <1>1, AssignSeriesFields
<1>3. /\ q.orig = b.orig /\ q.ctx.tags = b.ctx.tags /\ q.ctx.meta = b.ctx.meta
      /\ q.ctx.series = b.ctx.series /\ q.net.cat = b.net.cat /\ q.net.add = b.net.add
      /\ q.net.rem = b.net.rem /\ q.net.set = b.net.set /\ q.net.del = b.net.del
      /\ q.net.series = a.arg /\ q.net.flag = b.net.flag /\ q.net.hit = b.net.hit
  BY <1>1, AssignSeriesFields
<1>4. Twins(r, q)
  BY <1>1, <1>2, <1>3 DEF Twins, FoldState, Net
<1>. QED BY <1>4 DEF r, q

LEMMA TwinComment ==
  ASSUME NEW s \in FoldState, NEW b \in FoldState, NEW a \in Action, NEW i \in Nat, NEW known,
         a.type = "add_comment", Twins(s, b)
  PROVE  Twins(SyncAct(s, a, i), RetroAct(b, a, i, known))
<1>. DEFINE r == SyncAct(s, a, i)
            q == RetroAct(b, a, i, known)
<1>1. r = AddComment(s, a, i) /\ q = b /\ a.arg = None
  BY SyncActIs, RetroActIs, ActionCases DEF RetroSetCategory
<1>. HIDE DEF r, q
<1>2. /\ r.orig = s.orig /\ r.ctx.tags = s.ctx.tags /\ r.ctx.meta = s.ctx.meta
      /\ r.ctx.series = s.ctx.series /\ r.net.cat = s.net.cat /\ r.net.add = s.net.add
      /\ r.net.rem = s.net.rem /\ r.net.set = s.net.set /\ r.net.del = s.net.del
      /\ r.net.series = s.net.series /\ r.net.flag = s.net.flag /\ r.net.hit = s.net.hit
  BY <1>1, AddCommentFields
<1>3. /\ q.orig = b.orig /\ q.ctx.tags = b.ctx.tags /\ q.ctx.meta = b.ctx.meta
      /\ q.ctx.series = b.ctx.series /\ q.net.cat = b.net.cat /\ q.net.add = b.net.add
      /\ q.net.rem = b.net.rem /\ q.net.set = b.net.set /\ q.net.del = b.net.del
      /\ q.net.series = b.net.series /\ q.net.flag = b.net.flag /\ q.net.hit = b.net.hit
  BY <1>1
<1>4. Twins(r, q)
  BY <1>1, <1>2, <1>3 DEF Twins, FoldState, Net
<1>. QED BY <1>4 DEF r, q

LEMMA TwinFlag ==
  ASSUME NEW s \in FoldState, NEW b \in FoldState, NEW a \in Action, NEW i \in Nat, NEW known,
         a.type \in {"flag", "unflag"}, Twins(s, b)
  PROVE  Twins(SyncAct(s, a, i), RetroAct(b, a, i, known))
<1>. DEFINE r == SyncAct(s, a, i)
            q == RetroAct(b, a, i, known)
<1>1. r = SetFlag(s, a.type, i) /\ q = SetFlag(b, a.type, i) /\ a.arg = None
  BY SyncActIs, RetroActIs, ActionCases DEF RetroSetCategory
<1>. HIDE DEF r, q
<1>2. /\ r.orig = s.orig /\ r.ctx.tags = s.ctx.tags /\ r.ctx.meta = s.ctx.meta
      /\ r.ctx.series = s.ctx.series /\ r.net.cat = s.net.cat /\ r.net.add = s.net.add
      /\ r.net.rem = s.net.rem /\ r.net.set = s.net.set /\ r.net.del = s.net.del
      /\ r.net.series = s.net.series /\ r.net.flag = a.type /\ r.net.hit = s.net.hit
  BY <1>1, SetFlagFields
<1>3. /\ q.orig = b.orig /\ q.ctx.tags = b.ctx.tags /\ q.ctx.meta = b.ctx.meta
      /\ q.ctx.series = b.ctx.series /\ q.net.cat = b.net.cat /\ q.net.add = b.net.add
      /\ q.net.rem = b.net.rem /\ q.net.set = b.net.set /\ q.net.del = b.net.del
      /\ q.net.series = b.net.series /\ q.net.flag = a.type /\ q.net.hit = b.net.hit
  BY <1>1, SetFlagFields
<1>4. Twins(r, q)
  BY <1>1, <1>2, <1>3 DEF Twins, FoldState, Net
<1>. QED BY <1>4 DEF r, q

LEMMA TwinAction ==
  ASSUME NEW s \in FoldState, NEW b \in FoldState, NEW a \in Action, NEW i \in Nat, NEW known,
         a.type = "set_category" => a.arg \in known, Twins(s, b)
  PROVE  Twins(SyncAct(s, a, i), RetroAct(b, a, i, known))
BY ActionCases, TwinCategory, TwinAddTag, TwinRemoveTag, TwinSetMetadata, TwinRemoveMetadata,
   TwinSeries, TwinComment, TwinFlag

LEMMA TwinFire ==
  ASSUME NEW p \in Seq(Rule), NEW i \in 1 .. Len(p), NEW known,
         \A n \in 1 .. Len(p[i].do) : p[i].do[n].type = "set_category" => p[i].do[n].arg \in known,
         NEW s \in FoldState, NEW b \in FoldState, Twins(s, b)
  PROVE  Twins(Fire(p, "sync", s, i, {}), Fire(p, "bulk", b, i, known))
<1>. DEFINE s0 == [s EXCEPT !.net.hit = s.net.hit \cup {i}]
            b0 == [b EXCEPT !.net.hit = b.net.hit \cup {i}]
            N == Len(p[i].do)
            A == ActionRun(p, "sync", s0, i, {})
            B == ActionRun(p, "bulk", b0, i, known)
            S == {n \in 0 .. N : Twins(A[n], B[n])}
<1>1. N \in Nat /\ i \in Nat /\ "sync" \in Lane /\ "bulk" \in Lane
  BY TableType DEF Lane
<1>2. s0 \in FoldState /\ b0 \in FoldState
  BY <1>1, FireType
<1>3. Twins(s0, b0)
  BY DEF Twins, FoldState, Net
<1>. HIDE DEF s0, b0
<1>4. /\ A \in [0 .. N -> FoldState] /\ A[0] = s0
      /\ \A n \in 1 .. N : A[n] = SyncAct(A[n - 1], p[i].do[n], i)
  BY <1>1, <1>2, ActionRunDef DEF Perform
<1>5. /\ B \in [0 .. N -> FoldState] /\ B[0] = b0
      /\ \A n \in 1 .. N : B[n] = RetroAct(B[n - 1], p[i].do[n], i, known)
  BY <1>1, <1>2, ActionRunDef DEF Perform
<1>. HIDE DEF A, B
<1>6. 0 \in S
  BY <1>1, <1>3, <1>4, <1>5
<1>7. ASSUME NEW n \in 1 .. N, n - 1 \in S PROVE n \in S
  <2>1. n - 1 \in 0 .. N /\ n \in 0 .. N /\ p[i].do[n] \in Action
    BY <1>1, TableType
  <2>2. A[n - 1] \in FoldState /\ B[n - 1] \in FoldState
    BY <1>4, <1>5, <2>1
  <2>3. Twins(A[n], B[n])
    BY <1>1, <1>4, <1>5, <1>7, <2>1, <2>2, TwinAction
  <2>. QED BY <2>1, <2>3
<1>8. \A n \in 0 .. N : n \in S
  <2>. HIDE DEF S, N
  <2>. QED BY <1>1, <1>6, <1>7, UpTo
<1>9. Fire(p, "sync", s, i, {}) = A[N] /\ Fire(p, "bulk", b, i, known) = B[N] /\ N \in 0 .. N
  BY <1>1 DEF Fire, A, B, s0, b0
<1>. QED BY <1>8, <1>9

LEMMA HoldsOnTwins ==
  ASSUME NEW c \in Condition, c.field # "category", NEW s, NEW b, Twins(s, b)
  PROVE  Holds(c, s.ctx) <=> Holds(c, b.ctx)
BY DEF Holds, Condition, Twins

NewMeta(r, net) ==
  [k \in Key |-> IF net.set[k] # None THEN net.set[k]
                 ELSE IF k \in net.del THEN None ELSE r.meta[k]]
MaterializeBy(r, net, meta) ==
  LET tags == (r.tags \cup net.add) \ net.rem
  IN IF r.state = "deleted" THEN [r EXCEPT !.tags = tags]
     ELSE [r EXCEPT !.tags = tags,
                    !.category = IF net.cat = None THEN r.category ELSE net.cat,
                    !.meta = meta,
                    !.series = IF r.series = None THEN net.series ELSE r.series,
                    !.flag = IF net.flag = None THEN r.flag ELSE net.flag = "flag"]

\* For every rule table, every set of rules and every stored row: if none of the
\* rules waits for a creation or reads the category, and the categories they set
\* are known, the bulk lane (ApplyAllRulesRetroactively of rules.go) asks of the row
\* what a sync of the changed row asks, and counts the same rules.
THEOREM BulkAgrees ==
  ASSUME NEW p \in Seq(Rule), NEW list, NEW base \in Row, NEW known,
         \A i \in list \cap (1 .. Len(p)) :
           /\ TriggerMatches(p[i].on, FALSE) /\ p[i].cond.field # "category"
           /\ \A n \in DOMAIN p[i].do :
                p[i].do[n].type = "set_category" => p[i].do[n].arg \in known
  PROVE  LET s == ResolveWithContext(p, list, Context(base), FALSE)
             b == BulkIntent(p, list, RetroContext(base), known)
         IN  Materialize(base, s, s.cat) = Materialize(base, b, b.cat) /\ s.hit = b.hit
<1>. DEFINE fires == Firing(p, list, FALSE)
            s0 == Start(Context(base))
            b0 == Start(RetroContext(base))
            N == Len(p)
            A == RuleRun(p, "sync", s0, fires, {})
            B == RuleRun(p, "bulk", b0, list, known)
            S == {i \in 0 .. N : Twins(A[i], B[i]) /\ A[i].orig = base.meta}
<1>1. s0 \in FoldState /\ b0 \in FoldState /\ N \in Nat /\ "sync" \in Lane /\ "bulk" \in Lane
  BY StartType, ContextType DEF Lane
<1>2. Twins(s0, b0) /\ s0.orig = base.meta
  <2>1. /\ s0.orig = base.meta /\ b0.orig = base.meta /\ s0.net = NoIntent /\ b0.net = NoIntent
        /\ s0.ctx = Context(base) /\ b0.ctx = RetroContext(base)
    BY DEF Start, Context, RetroContext
  <2>2. /\ s0.ctx.tags = base.tags /\ b0.ctx.tags = base.tags
        /\ s0.ctx.series = base.series /\ b0.ctx.series = base.series
        /\ s0.ctx.meta = base.meta /\ b0.ctx.meta = base.meta
    BY <2>1 DEF Context, RetroContext
  <2>3. NoIntent.del = {}
    BY DEF NoIntent
  <2>. HIDE DEF s0, b0
  <2>. QED BY <2>1, <2>2, <2>3 DEF Twins
<1>. HIDE DEF s0, b0
<1>3. /\ A \in [0 .. N -> FoldState] /\ A[0] = s0
      /\ \A i \in 1 .. N : A[i] = IF i \in fires /\ Holds(p[i].cond, A[i - 1].ctx)
                                  THEN Fire(p, "sync", A[i - 1], i, {}) ELSE A[i - 1]
  <2>. HIDE DEF fires
  <2>. QED BY <1>1, RuleRunDef
<1>4. /\ B \in [0 .. N -> FoldState] /\ B[0] = b0
      /\ \A i \in 1 .. N : B[i] = IF i \in list /\ Holds(p[i].cond, B[i - 1].ctx)
                                  THEN Fire(p, "bulk", B[i - 1], i, known) ELSE B[i - 1]
  BY <1>1, RuleRunDef
<1>. HIDE DEF A, B
<1>5. 0 \in S
  BY <1>1, <1>2, <1>3, <1>4
<1>6. ASSUME NEW i \in 1 .. N, i - 1 \in S PROVE i \in S
  <2>1. i - 1 \in 0 .. N /\ i \in 0 .. N /\ p[i].cond \in Condition
    BY <1>1, TableType
  <2>2. A[i - 1] \in FoldState /\ B[i - 1] \in FoldState /\ Twins(A[i - 1], B[i - 1])
    BY <1>3, <1>4, <1>6, <2>1
  <2>3. CASE i \in list
    <3>1. i \in fires /\ p[i].cond.field # "category"
      BY <2>3 DEF Firing
    <3>2. \A n \in 1 .. Len(p[i].do) : p[i].do[n].type = "set_category" => p[i].do[n].arg \in known
      BY <2>3, TableType
    <3>3. Holds(p[i].cond, A[i - 1].ctx) <=> Holds(p[i].cond, B[i - 1].ctx)
      BY <2>1, <2>2, <3>1, HoldsOnTwins
    <3>4. CASE Holds(p[i].cond, B[i - 1].ctx)
      <4>1. A[i] = Fire(p, "sync", A[i - 1], i, {}) /\ B[i] = Fire(p, "bulk", B[i - 1], i, known)
        BY <1>3, <1>4, <2>3, <3>1, <3>3, <3>4
      <4>2. Twins(A[i], B[i])
        BY <2>2, <3>2, <4>1, TwinFire
      <4>3. A[i].orig = A[i - 1].orig
        BY <2>2, <4>1, <1>1, FireKeeps
      <4>. QED BY <1>6, <2>1, <4>2, <4>3
    <3>5. CASE ~ Holds(p[i].cond, B[i - 1].ctx)
      <4>1. A[i] = A[i - 1] /\ B[i] = B[i - 1]
        BY <1>3, <1>4, <3>3, <3>5
      <4>. QED BY <1>6, <2>1, <4>1
    <3>. QED BY <3>4, <3>5
  <2>4. CASE i \notin list
    <3>1. A[i] = A[i - 1] /\ B[i] = B[i - 1]
      BY <1>3, <1>4, <2>4 DEF Firing
    <3>. QED BY <1>6, <2>1, <3>1
  <2>. QED BY <2>3, <2>4
<1>7. \A i \in 0 .. N : i \in S
  <2>. HIDE DEF S, N
  <2>. QED BY <1>1, <1>5, <1>6, UpTo
<1>8. /\ ResolveWithContext(p, list, Context(base), FALSE) = A[N].net
      /\ BulkIntent(p, list, RetroContext(base), known) = B[N].net
  BY DEF ResolveWithContext, BulkIntent, Firing, A, B, s0, b0
<1>9. Twins(A[N], B[N]) /\ A[N].orig = base.meta /\ A[N] \in FoldState /\ B[N] \in FoldState
  <2>1. N \in 0 .. N
    BY <1>1
  <2>. QED BY <1>3, <1>4, <1>7, <2>1
<1>. DEFINE s == A[N]
            b == B[N]
<1>10. /\ s.net.cat = b.net.cat /\ s.net.add = b.net.add /\ s.net.rem = b.net.rem
       /\ s.net.series = b.net.series /\ s.net.flag = b.net.flag /\ s.net.hit = b.net.hit
       /\ \A k \in Key : s.net.set[k] = b.net.set[k]
       /\ s.net.del = {k \in b.net.del : base.meta[k] # None}
  BY <1>9 DEF Twins
<1>. HIDE DEF s, b
<1>11. \A k \in Key :
         (IF s.net.set[k] # None THEN s.net.set[k]
          ELSE IF k \in s.net.del THEN None ELSE base.meta[k])
           = (IF b.net.set[k] # None THEN b.net.set[k]
              ELSE IF k \in b.net.del THEN None ELSE base.meta[k])
  BY <1>10
<1>12. Materialize(base, s.net, s.net.cat) = Materialize(base, b.net, b.net.cat)
  <2>1. NewMeta(base, s.net) = NewMeta(base, b.net)
    BY <1>11 DEF NewMeta
  <2>2. Materialize(base, s.net, s.net.cat) = MaterializeBy(base, s.net, NewMeta(base, s.net))
    BY DEF Materialize, MaterializeBy, NewMeta
  <2>3. Materialize(base, b.net, b.net.cat) = MaterializeBy(base, b.net, NewMeta(base, b.net))
    BY DEF Materialize, MaterializeBy, NewMeta
  <2>. QED BY <1>10, <2>1, <2>2, <2>3 DEF MaterializeBy
<1>. QED BY <1>8, <1>10, <1>12 DEF s, b
=============================================================================

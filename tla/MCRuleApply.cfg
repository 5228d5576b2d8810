SPECIFICATION Spec
CONSTANTS
  food = food
  rent = rent
  misc = misc
  x = x
  k = k
  v1 = v1
  v2 = v2
  s1 = s1
  None = None
  Txn = {1, 2}
  Tag = {x}
  Category = {food, rent, misc}
  Uncategorized = misc
  Key = {k}
  Value = {v1, v2}
  Series = {s1}
  RuleLists <- Lists
  FirstRows <- Rows
  PageSize = 1
  MaxEdits = 1
INVARIANTS
  TypeOK
  NetIntent
  LanesAgree
  HistoryTruthful
  PassAccounted
CHECK_DEADLOCK FALSE

SPECIFICATION FairSpec
CONSTANTS
  a = a
  b = b
  c = c
  x1 = x1
  x2 = x2
  y1 = y1
  z1 = z1
  Ann = Ann
  Bob = Bob
  Acct = {a, b, c}
  Txn = {x1, x2, y1, z1}
  User = {Ann, Bob}
  NoUser = NoUser
  NoAcct = NoAcct
  NoTxn = NoTxn
  AcctOf <- MCAcctOf
  Amount <- MCAmount
  Date <- MCDate
  Name = {Blank, cafe, corner}
  Blank = Blank
  cafe = cafe
  corner = corner
  Named <- MCNamed
  Merchant <- MCMerchant
  Inside <- MCInside
  Owner <- MCOwner
  Conn <- MCConn
  ByHand <- MCByHand
  Linked <- MCLinked
  Op = {o1, o2}
  Tolerance = {1}
  MaxEvents = 2
INVARIANTS
  TypeOK
  AttributionInv
  DependentMarked
  NoMutualLinks
PROPERTIES
  LonePairsMatched
CHECK_DEADLOCK FALSE

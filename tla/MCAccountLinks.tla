---------------------------- MODULE MCAccountLinks ----------------------------
(* Model-checking instance of AccountLinks: account a of Ann with mirrors b of *)
(* Bob and c of Ann.  The name of y1 points to x1 and leaves x2; z1 can be     *)
(* either of them, and is settled only once y1 has its match.                  *)
EXTENDS AccountLinks

CONSTANTS a, b, c, x1, x2, y1, z1, Ann, Bob, cafe, corner

MCAcctOf == [t \in Txn |-> IF t \in {x1, x2} THEN a ELSE IF t = z1 THEN c ELSE b]
MCAmount == [t \in Txn |-> 1]
MCDate   == [t \in Txn |-> IF t = y1 THEN 2 ELSE 1]
MCNamed  == [t \in Txn |-> IF t = x1 THEN cafe ELSE IF t = y1 THEN corner ELSE Blank]
MCMerchant == [t \in Txn |-> IF t = z1 THEN cafe ELSE Blank]
MCInside == {<<cafe, corner>>}
MCOwner  == [q \in Acct |-> IF q = a THEN Ann ELSE IF q = b THEN Bob ELSE Ann]
MCByHand == {<<x1, y1>>, <<x1, z1>>}
MCLinked == {<<a, b>>, <<a, c>>}
MCConn   == [q \in Acct |-> IF q = a THEN a ELSE b]
=============================================================================

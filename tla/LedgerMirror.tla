---------------------------- MODULE LedgerMirror ----------------------------
(***************************************************************************)
(* What the sync engine promises a linked bank connection, with no lock,   *)
(* no pages, no transaction and no crash in sight.                         *)
(*                                                                         *)
(* The provider publishes successive states of the connection's            *)
(* transactions.  The local ledger holds exactly one of those states, the  *)
(* one the stored cursor names, and only ever jumps forward to a later one *)
(* in a single step.  A step may miss the changes of some rows: they keep  *)
(* what they held and are known as missed until the bank changes them      *)
(* again and that is imported.  Unlinking the connection empties its       *)
(* ledger; after that nothing is promised about it, which is stated by     *)
(* giving an unlinked connection an empty ledger and a null cursor for     *)
(* ever.                                                                   *)
(***************************************************************************)
EXTENDS Naturals, Sequences

CONSTANTS Conn,   \* bank connections
          Txn,    \* provider transaction identifiers
          Value,  \* what a transaction row can hold
          Absent  \* no live row under that identifier

VARIABLES feed,    \* feed[c]: the provider states published so far, in order
          cursor,  \* cursor[c]: how many of them have been imported
          ledger,  \* ledger[c]: the live local rows
          missed,  \* missed[c]: the rows whose last change was not imported
          linked   \* linked[c]: the connection still holds its credentials

vars == <<feed, cursor, ledger, missed, linked>>

Snapshot == [Txn -> Value \cup {Absent}]

Nothing == [t \in Txn |-> Absent]

\* The provider's state of connection c after k publications.
StateAt(c, k) == IF k = 0 THEN Nothing ELSE feed[c][k]

Init == /\ feed = [c \in Conn |-> <<>>]
        /\ cursor = [c \in Conn |-> 0]
        /\ ledger = [c \in Conn |-> Nothing]
        /\ missed = [c \in Conn |-> {}]
        /\ linked = [c \in Conn |-> TRUE]

\* The bank posts, amends or withdraws transactions.
Publish(c) == /\ \E s \in Snapshot : feed' = [feed EXCEPT ![c] = Append(@, s)]
              /\ UNCHANGED <<cursor, ledger, missed, linked>>

\* The changes of connection c between its cursor and state k.
Changed(c, k) == {t \in Txn : StateAt(c, k)[t] # StateAt(c, cursor[c])[t]}

\* One successful sync: the ledger becomes a later published state, but for the
\* changes of S it misses and those missed before and not made up for.
Import(c) == /\ linked[c]
             /\ \E k \in cursor[c] .. Len(feed[c]), S \in SUBSET Txn :
                  LET lost == S \cup (missed[c] \ Changed(c, k)) IN
                  /\ S \subseteq Changed(c, k)
                  /\ cursor' = [cursor EXCEPT ![c] = k]
                  /\ missed' = [missed EXCEPT ![c] = lost]
                  /\ ledger' = [ledger EXCEPT ![c] =
                       [t \in Txn |-> IF t \in lost THEN ledger[c][t]
                                      ELSE StateAt(c, k)[t]]]
             /\ UNCHANGED <<feed, linked>>

Unlink(c) == /\ linked[c]
             /\ linked' = [linked EXCEPT ![c] = FALSE]
             /\ cursor' = [cursor EXCEPT ![c] = 0]
             /\ ledger' = [ledger EXCEPT ![c] = Nothing]
             /\ missed' = [missed EXCEPT ![c] = {}]
             /\ UNCHANGED feed

Next == \E c \in Conn : Publish(c) \/ Import(c) \/ Unlink(c)

Spec == Init /\ [][Next]_vars
=============================================================================

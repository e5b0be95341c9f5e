---------------------------- MODULE SerialStore -----------------------------
(***************************************************************************)
(* What a concurrency control promises: a store of rows whose transactions *)
(* commit one after the other.  db[r] is the version of row r, the number  *)
(* of the transaction that wrote it last (0: nobody did).  A step commits  *)
(* one transaction: it has read versions that are all current at that      *)
(* moment, and its writes replace them.                                    *)
(***************************************************************************)
EXTENDS Integers, Sequences

CONSTANT Rows

VARIABLES
    db,      \* the current version of every row
    history  \* the committed transactions, [reads, writes]

vars == <<db, history>>

Init ==
    /\ db = [r \in Rows |-> 0]
    /\ history = <<>>

Commit(reads, writes) ==
    /\ \A rd \in reads : rd[2] = db[rd[1]]
    /\ history' = Append(history, [reads |-> reads, writes |-> writes])
    /\ db' = [r \in Rows |-> IF r \in writes THEN Len(history) + 1 ELSE db[r]]

\* The transaction that commits is the one the history grows by.
Next ==
    /\ Len(history') = Len(history) + 1
    /\ LET t == history'[Len(history')]
       IN  /\ t.reads \in SUBSET (Rows \X Nat)
           /\ t.writes \in SUBSET Rows
           /\ Commit(t.reads, t.writes)

Spec == Init /\ [][Next]_vars
=============================================================================

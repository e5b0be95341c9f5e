---------------------------- MODULE MCSiloEpochs ----------------------------
EXTENDS SiloEpochs

MCValue == [k \in Keys |-> k]
R(k) == [type |-> "READ", rowid |-> k]
W(k) == [type |-> "WRITE", rowid |-> k]
\* What split makes of "w:0," and "r:0,w:1,".
MCTransactions == {<<W(0)>>, <<R(0), W(1)>>}
=============================================================================

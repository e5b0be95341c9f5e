---------------------------- MODULE MCBPlusTree ----------------------------
EXTENDS BPlusTree

MCKeys == 4 .. 43

One(f) == [n \in DOMAIN f |-> {f[n]}]

\* Any keys, with repetitions; distinct keys that reach a third and a fourth
\* level: ascending, descending, from both ends, and scattered; and ascending
\* keys some of which come late.
Repeated == [n \in 1 .. 11 |-> {4, 5, 6}]
MCInputs ==
    {[n \in 1 .. 9 |-> 4 .. 8], Repeated,
     One([n \in 1 .. 40 |-> n + 3]), One([n \in 1 .. 40 |-> 44 - n]),
     One([n \in 1 .. 40 |-> IF n % 2 = 0 THEN 3 + n \div 2 ELSE 43 - n \div 2]),
     One([n \in 1 .. 40 |-> 3 + ((n * 12) % 41)]),
     One([n \in 1 .. 40 |-> 3 + ((n * 18) % 41)]),
     [n \in 1 .. 20 |-> IF n > 10 THEN {23 + n, 3 * n - 26} ELSE {3 * n + 3}]}

RepeatedInputs == {Repeated}
=============================================================================

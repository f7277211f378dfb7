------------------------------- MODULE MCQuota -------------------------------
(* Finite instances of Quota for TLC.                                      *)
EXTENDS Quota

CONSTANTS r1, r2, r3, r4, r5, k1, k2

Three     == {r1, r2, r3}
Five      == {r1, r2, r3, r4, r5}
OneKey    == {k1}
TwoKeys   == {k1, k2}

\* Requests of one key, all alike.
SameKey   == [r \in Five |-> k1]
UnitSize  == [r \in Five |-> 1]

\* Requests of two keys and of two sizes.
SplitKeys == [r \in Three |-> IF r = r3 THEN k2 ELSE k1]
MixedSize == [r \in Three |-> IF r = r1 THEN 2 ELSE 1]

\* A quota for the first key, none for the second.
FirstKeyOnly == [k \in TwoKeys |-> IF k = k1 THEN 2 ELSE NoLimit]
NoKeyLimit   == [k \in OneKey |-> NoLimit]

Crashes   == {"crash"}
AnyFault  == {"crash", "flush", "scan", "rerun", "report"}

=============================================================================

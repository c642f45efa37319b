----------------------------- MODULE MCLocalTx -----------------------------
(* Instances of LocalTx. A transfer takes its amount of 4 and a fee of 1, and an    *)
(* address starts with 6: it can pay for one transfer and not for two.             *)
EXTENDS LocalTx

TwoSenders == [t \in {"t1", "t2", "s1"} |-> IF t = "s1" THEN "b" ELSE "a"]
Fours == [t \in Txs |-> 4]
Owned(S, a) == 6 - 5 * Cardinality({t \in S : Sender[t] = a})
Six(S, a) == {Owned(S, a)}
PaysFee(t, S) == {Owned(S, Sender[t]) >= 5}
=============================================================================

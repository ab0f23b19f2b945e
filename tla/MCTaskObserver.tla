--------------------------- MODULE MCTaskObserver ----------------------------
(***************************************************************************)
(* Instances of TaskObserver: two tasks in one root.        *)
(***************************************************************************)
EXTENDS TaskObserver

CONSTANTS t1, t2, p, q, r1

TwoTasks == {t1, t2}
OneRoot == {r1}
SameRoot == [t \in Tasks |-> r1]
TwoProcesses == [t \in Tasks |-> IF t = t1 THEN {p, q} ELSE {}]
=============================================================================

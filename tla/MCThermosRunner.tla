--------------------------- MODULE MCThermosRunner ---------------------------
(***************************************************************************)
(* Small tasks for TLC: process names are strings, the functions that a    *)
(* configuration file cannot write are defined here.                       *)
(***************************************************************************)
EXTENDS ThermosRunner

\* order(p, q), and no constraint at all.
DepsChain == [x \in Procs |-> IF x = "q" THEN {"p"} ELSE {}]
DepsNone == [x \in Procs |-> {}]

\* p may fail once and be retried, the others may not fail.
RetryP == [x \in Procs |-> IF x = "p" THEN 2 ELSE 1]

\* No process may fail.
OneTry == [x \in Procs |-> 1]
=============================================================================

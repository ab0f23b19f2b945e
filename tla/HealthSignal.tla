---------------------------- MODULE HealthSignal -----------------------------
(***************************************************************************)
(* What the executor may rely on from a health checker: the status of a    *)
(* task starts as STARTING, becomes RUNNING at most once and never goes    *)
(* back, FAILED is final, and until the checker is stopped it does not     *)
(* stay undecided for ever.                                                *)
(***************************************************************************)

VARIABLES signal, stopped

vars == <<signal, stopped>>

TypeOK == signal \in {"STARTING", "RUNNING", "FAILED"} /\ stopped \in BOOLEAN

Init == signal = "STARTING" /\ stopped = FALSE

Decide == /\ signal = "STARTING"
          /\ signal' \in {"RUNNING", "FAILED"}
          /\ UNCHANGED stopped

Fail == /\ signal = "RUNNING"
        /\ signal' = "FAILED"
        /\ UNCHANGED stopped

Stop == /\ ~stopped
        /\ stopped' = TRUE
        /\ UNCHANGED signal

Next == Decide \/ Fail \/ Stop

Safety == Init /\ [][Next]_vars

(***************************************************************************)
(* A checker that nobody stops has to decide.                              *)
(***************************************************************************)
Spec == Safety /\ WF_vars(~stopped /\ Decide)
=============================================================================

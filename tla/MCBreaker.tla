------------------------------ MODULE MCBreaker ------------------------------
(***************************************************************************)
(* Breaker for TLC.                                                        *)
(***************************************************************************)
EXTENDS Breaker

CONSTANTS t1, t2, t3

TwoTasks == {t1, t2}
ThreeTasks == {t1, t2, t3}
=============================================================================

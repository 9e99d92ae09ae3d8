------------------------ MODULE MCSchedulePublication ------------------------
(* SchedulePublication on a small instance: two employees, one open day.     *)
EXTENDS SchedulePublication, TLC

CONSTANTS e1, e2, h1, h2

MCSymmetry == Permutations({e1, e2}) \union Permutations({h1, h2})
=============================================================================

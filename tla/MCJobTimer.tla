------------------------------ MODULE MCJobTimer ------------------------------
(* The constants of the run of JobTimer: all jobs are reserved by one queue. *)
EXTENDS JobTimer

CONSTANT q1

MCOwner == [j \in Jobs |-> q1]
==============================================================================

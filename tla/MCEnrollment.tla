---------------------------- MODULE MCEnrollment ----------------------------
(***************************************************************************)
(* Instances of Enrollment for TLC: two phones, d1 and d2, that choose     *)
(* from two names, in a table without users.                               *)
(***************************************************************************)
EXTENDS Enrollment

CONSTANTS d1, d2, u1, u2, joe, sally, r1, r2, t1, t2

Own == [p \in Phones |-> p]

Sender == [r \in Reqs |-> IF r = r2 THEN d2 ELSE d1]

Nobody == [u \in Users |-> NoRow]

============================================================================

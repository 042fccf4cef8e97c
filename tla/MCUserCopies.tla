---------------------------- MODULE MCUserCopies ----------------------------
(***************************************************************************)
(* An instance of UserCopies for TLC: one phone, of user p, and another    *)
(* user, w.                                                                *)
(***************************************************************************)
EXTENDS UserCopies

CONSTANTS d1, p, w, q1, q2

Enrolled == [d \in Phones |-> p]

Puller == [q \in Pulls |-> d1]

============================================================================

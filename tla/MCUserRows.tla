----------------------------- MODULE MCUserRows -----------------------------
(***************************************************************************)
(* Instances of UserRows for TLC: phones d1 and d2, which enroll as bob or *)
(* joe, and a web user who is called bob already; ann is a web user to be. *)
(***************************************************************************)
EXTENDS UserRows, TLC

CONSTANTS d1, d2, u1, u2, u3, bob, joe, ann, r1, r2, t1, t2, m1, m2, w1, w2, s1, s2

Phone == [r \in Reqs |-> IF r = r1 THEN d1 ELSE d2]

Bob == [u \in Users |->
          IF u = u1 THEN [NoRow EXCEPT !.name = bob, !.type = "web"] ELSE NoRow]

\* No constant tells these apart, and the runs that use it check invariants only.
Alike ==
  UNION {Permutations(S) : S \in {Users \ {u1}, Tokens, Msgs, Writers, Sessions}}

============================================================================

----------------------------- MODULE MCWalSync -----------------------------
(***************************************************************************)
(* Instances of WalSync for TLC: a phone p with two requests going on at   *)
(* once, r1 and r2, a phone q that stays away, and a web user w.           *)
(*                                                                         *)
(* c1, c2 and c5 are sent to p and c3 to q.  With a word of 3, the LSNs 1, *)
(* 2, 3 and 5 lie on both sides of a carry; with Limit = 1 the two         *)
(* requests can be two answers apart.                                      *)
(***************************************************************************)
EXTENDS WalSync

CONSTANTS p, q, w, c1, c2, c3, c5, r1, r2

Place == [c \in Changes |-> CASE c = c1 -> 1 [] c = c2 -> 2 [] c = c3 -> 3 [] c = c5 -> 5]

Author == [c \in Changes |-> IF c = c3 THEN p ELSE w]

Addressee == [c \in Changes |-> IF c = c3 THEN q ELSE p]

\* Users and phones of the same name; a web user has none.
Phone == [u \in Users |-> IF u = w THEN NoDevice ELSE u]

OnP == [r \in Runs |-> p]

============================================================================

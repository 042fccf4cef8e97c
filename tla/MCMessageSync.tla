--------------------------- MODULE MCMessageSync ---------------------------
(***************************************************************************)
(* Instances of MessageSync for TLC: the phone p has two overlapping syncs *)
(* r1 and r2, the phone q stays away; w is a web user.                     *)
(*                                                                         *)
(* p writes a to q and b to w, and w writes x and, later, y to p.  Two     *)
(* syncs and two replies are the least for which one sync uploads what     *)
(* another has already uploaded together with something new; two messages  *)
(* to p and Limit = 1 are the least for which a pull leaves some behind.   *)
(***************************************************************************)
EXTENDS MessageSync

CONSTANTS p, q, w, a, b, x, y, r1, r2

Author == [m \in Msgs |-> IF m \in {a, b} THEN p ELSE w]

Addressee ==
  [m \in Msgs |-> CASE m = a -> q [] m = b -> w [] m \in {x, y} -> p]

\* b carries the earlier time stamp although it may well be written last.
Clock == [m \in Msgs |-> IF m \in {b, x} THEN 1 ELSE 2]

Phone == [r \in Runs |-> p]

============================================================================

------------------------- MODULE EnrollmentContract -------------------------
(***************************************************************************)
(* What enrollment promises, with the requests, the transactions and the   *)
(* failures left out: a token makes one device one user, once and for all; *)
(* a phone takes itself for a user only if a token made its device that    *)
(* user; and it takes itself for another one only after having forgotten   *)
(* who it was.                                                             *)
(***************************************************************************)
CONSTANTS Tokens, Users, NoUser, Devices, NoDevice, Phones, DeviceId

VARIABLES
  grant,  \* the device and the user of each token that has been used
  known   \* who each phone is for itself

vars == <<grant, known>>

NoGrant == [device |-> NoDevice, user |-> NoUser]

Init ==
  /\ grant = [t \in Tokens |-> NoGrant]
  /\ known = [p \in Phones |-> NoUser]

Grant(t, d, u) ==
  /\ grant[t] = NoGrant
  /\ grant' = [grant EXCEPT ![t] = [device |-> d, user |-> u]]
  /\ UNCHANGED known

Learn(p, t) ==
  /\ known[p] = NoUser
  /\ grant[t].device = DeviceId[p]
  /\ known' = [known EXCEPT ![p] = grant[t].user]
  /\ UNCHANGED grant

Forget(p) ==
  /\ known' = [known EXCEPT ![p] = NoUser]
  /\ UNCHANGED grant

Next ==
  \/ \E t \in Tokens, d \in Devices, u \in Users : Grant(t, d, u)
  \/ \E p \in Phones, t \in Tokens : Learn(p, t)
  \/ \E p \in Phones : Forget(p)

Spec == Init /\ [][Next]_vars

----------------------------------------------------------------------------
(* What the contract amounts to *)

\* A phone takes itself only for a user that some token made its device.
TrueToGrants ==
  \A p \in Phones : known[p] # NoUser =>
    \E t \in Tokens : grant[t] = [device |-> DeviceId[p], user |-> known[p]]

\* A token serves once: what it was used for never changes.
Stand == \A t \in Tokens : grant[t] # NoGrant => grant'[t] = grant[t]
GrantsStand == [][Stand]_vars

============================================================================

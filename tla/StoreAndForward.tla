-------------------------- MODULE StoreAndForward --------------------------
(***************************************************************************)
(* What the sync path promises, with the protocol left out: a message is   *)
(* written once, at its author's store; it moves from a device to the      *)
(* backend and from the backend to the device it is addressed to; it never *)
(* disappears from a place it has reached; and the author's device counts  *)
(* a message as synced only once the backend has it.                       *)
(*                                                                         *)
(* `at[m]' is the set of places that hold m.  `acked' is the set of        *)
(* messages their authoring device has stopped uploading.                  *)
(***************************************************************************)
CONSTANTS
  Msgs,      \* the messages that can be written
  Devices,   \* the users on an enrolled mobile device; other users are web users
  From, To   \* the author and the addressee of each message

VARIABLES at, acked

vars == <<at, acked>>

Places == {"sender", "server", "recipient"}

TypeOK == /\ at \in [Msgs -> SUBSET Places]
          /\ acked \in SUBSET Msgs

Init == /\ at = [m \in Msgs |-> {}]
        /\ acked = {}

\* A device writes to its own database, a web user to the backend's.
Write(m) ==
  /\ at[m] = {}
  /\ at' = [at EXCEPT ![m] = IF From[m] \in Devices THEN {"sender"} ELSE {"server"}]
  /\ UNCHANGED acked

Upload(m) ==
  /\ "sender" \in at[m]
  /\ "server" \notin at[m]
  /\ at' = [at EXCEPT ![m] = @ \cup {"server"}]
  /\ UNCHANGED acked

Acknowledge(m) ==
  /\ {"sender", "server"} \subseteq at[m]
  /\ acked' = acked \cup {m}
  /\ UNCHANGED at

Deliver(m) ==
  /\ To[m] \in Devices
  /\ "server" \in at[m]
  /\ at' = [at EXCEPT ![m] = @ \cup {"recipient"}]
  /\ UNCHANGED acked

Next == \E m \in Msgs : Write(m) \/ Upload(m) \/ Acknowledge(m) \/ Deliver(m)

SafeSpec == Init /\ [][Next]_vars

\* Where messages are, with acknowledgements left out.
CustodyInit == at = [m \in Msgs |-> {}]
Move == \E m \in Msgs : Write(m) \/ Upload(m) \/ Deliver(m)
CustodySpec == CustodyInit /\ [][Move]_at

\* With a network and a backend that work, a written reply is uploaded.
Spec == SafeSpec /\ \A m \in Msgs : WF_vars(Upload(m))

----------------------------------------------------------------------------
(* What the contract amounts to *)

\* A copy further on has copies behind it: no addressee has what the backend does not, and no
\* backend what the author's device does not.
Chained ==
  \A m \in Msgs :
    /\ "recipient" \in at[m] => "server" \in at[m]
    /\ "server" \in at[m] /\ From[m] \in Devices => "sender" \in at[m]

\* A place that has a message keeps it.
Kept == [][\A m \in Msgs : at[m] \subseteq at'[m]]_at

============================================================================

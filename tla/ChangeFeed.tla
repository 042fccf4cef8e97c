----------------------------- MODULE ChangeFeed -----------------------------
(***************************************************************************)
(* What the WAL mode promises, with the queues, the sync_metadata rows and *)
(* the requests left out: the log is read from the front, the changes      *)
(* addressed to a device are settled for it in the order of the log and    *)
(* without leaving one out, and its phone receives nothing else.  Answers  *)
(* may overtake each other on their way, so what a phone holds may have    *)
(* gaps that what was settled for it never has.                            *)
(***************************************************************************)
EXTENDS Naturals

CONSTANTS
  Changes, Devices,
  Lsn,        \* the place of each change in the log
  Addressees  \* the devices each change is addressed to

VARIABLES
  log,      \* the changes read
  settled,  \* the changes settled for each device
  held      \* the changes that reached it

vars == <<log, settled, held>>

UpTo(d, c) == {k \in log : d \in Addressees[k] /\ Lsn[k] <= Lsn[c]}

Init ==
  /\ log = {}
  /\ settled = [d \in Devices |-> {}]
  /\ held = [d \in Devices |-> {}]

Append(c) ==
  /\ c \notin log
  /\ {k \in Changes : Lsn[k] < Lsn[c]} \subseteq log
  /\ log' = log \cup {c}
  /\ UNCHANGED <<settled, held>>

Settle(d, c) ==
  /\ c \in UpTo(d, c) \ settled[d]
  /\ settled' = [settled EXCEPT ![d] = UpTo(d, c)]
  /\ UNCHANGED <<log, held>>

Deliver(d, S) ==
  /\ held' = [held EXCEPT ![d] = @ \cup S]
  /\ UNCHANGED <<log, settled>>

Next ==
  \/ \E c \in Changes : Append(c)
  \/ \E d \in Devices, c \in Changes : Settle(d, c)
  \/ \E d \in Devices : \E S \in SUBSET settled[d] : Deliver(d, S)

Spec == Init /\ [][Next]_vars

============================================================================

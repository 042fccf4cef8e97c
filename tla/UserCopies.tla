----------------------------- MODULE UserCopies -----------------------------
(***************************************************************************)
(* The users table of the backend and the copies of it that phones keep:   *)
(* GET /api/sync/incoming answers with all rows, the phone replaces its    *)
(* own by them, and it changes the row of its own user when a message is   *)
(* sent.  UserRows has what the backend's writers do to a row.             *)
(*                                                                         *)
(* A row is its updated_at here: every write sets it, and no two writes    *)
(* are at the same time.  The phones' clocks and the backend's agree,      *)
(* which is the best case for a rule that compares their stamps.           *)
(***************************************************************************)
EXTENDS Naturals

CONSTANTS
  Users,     \* users.id
  Phones,
  Self,      \* the user each phone is enrolled as
  Pulls,     \* the pulls that may be going on at once
  PullerOf,  \* the phone of each
  MaxTime    \* bound: how many writes there are

VARIABLES
  now,   \* the time of the last write
  row,   \* updated_at of each row of the backend
  copy,  \* each phone's table: updated_at of the rows it has
  pull   \* what the reply of each pull has, NoReply where there is none

vars == <<now, row, copy, pull>>

----------------------------------------------------------------------------

NoRows == [u \in {} |-> 0]

\* A reply without users is stored like no reply: insertUsers is not called.
NoReply == NoRows

Init ==
  /\ now = 0
  /\ row = [u \in Users |-> 0]
  /\ copy = [d \in Phones |-> NoRows]
  /\ pull = [q \in Pulls |-> NoReply]

Tick == now < MaxTime /\ now' = now + 1

\* INSERT's trigger, UpdateUser, an enrollment: any UPDATE of a row fires the trigger that
\* stamps it.
WriteRow(u) ==
  /\ Tick
  /\ row' = [row EXCEPT ![u] = now']
  /\ UNCHANGED <<copy, pull>>

\* GetUsers, without a filter.
PullUsers(q) ==
  /\ pull[q] = NoReply
  /\ pull' = [pull EXCEPT ![q] = row]
  /\ UNCHANGED <<now, row, copy>>

Merged(new, old) ==
  [u \in DOMAIN new \cup DOMAIN old |-> IF u \in DOMAIN new THEN new[u] ELSE old[u]]

\* insertUsers replaces the copies by what the reply has, without a look at their updated_at.
StoreUsers(q) ==
  /\ pull[q] # NoReply
  /\ copy' = [copy EXCEPT ![PullerOf[q]] = Merged(pull[q], @)]
  /\ pull' = [pull EXCEPT ![q] = NoReply]
  /\ UNCHANGED <<now, row>>

\* A reply that is lost, or whose messages the phone's database refuses first.
LoseUsers(q) ==
  /\ pull[q] # NoReply
  /\ pull' = [pull EXCEPT ![q] = NoReply]
  /\ UNCHANGED <<now, row, copy>>

\* _sendMessage: the new last_message_sent of the phone's own row, before the message is
\* uploaded.
SetOwnCopy(d) ==
  /\ Tick
  /\ Self[d] \in DOMAIN copy[d]
  /\ copy' = [copy EXCEPT ![d][Self[d]] = now']
  /\ UNCHANGED <<row, pull>>

Next ==
  \/ \E u \in Users : WriteRow(u)
  \/ \E q \in Pulls : PullUsers(q) \/ StoreUsers(q) \/ LoseUsers(q)
  \/ \E d \in Phones : SetOwnCopy(d)

Spec == Init /\ [][Next]_vars

----------------------------------------------------------------------------
(* Properties *)

\* LastWriteWins: "Uses last-write-wins (compares `updated_at` timestamps)"
\* (sync-engine/README.md:108), "Sync users with last_message_sent (last-write-wins)"
\* (sync_service.dart:52): no step replaces a phone's copy of a row by an older one.
LastWriteWins ==
  [][\A d \in Phones : \A u \in DOMAIN copy[d] :
       u \in DOMAIN copy'[d] /\ copy'[d][u] >= copy[d][u]]_vars

============================================================================

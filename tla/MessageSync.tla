---------------------------- MODULE MessageSync ----------------------------
(***************************************************************************)
(* The two-way message sync of posduif with status polling (sync.wal       *)
(* disabled): the phone's SyncService and drift database, the sync         *)
(* engine's handlers for GET /api/sync/incoming and POST                   *)
(* /api/sync/outgoing, and the `messages' table they share with the web    *)
(* users' handlers.                                                        *)
(*                                                                         *)
(* performSync() is started without being awaited and takes no lock, so    *)
(* several syncs of one device overlap; each is a member of Runs.  A       *)
(* handler keeps working after its client stopped listening, so a run has  *)
(* a client half (cl) and one slot for each of its two requests (inq and   *)
(* out).  User rows (last_message_sent, the users part of the reply) are   *)
(* not part of this module.                                                *)
(***************************************************************************)
EXTENDS Naturals, FiniteSets

CONSTANTS
  Msgs,       \* every message somebody may write
  Users,      \* the rows of the users table
  Devices,    \* the users enrolled on a phone, one phone each; the others use the web
  From, To,   \* sender_id and recipient_id of each message
  CreatedAt,  \* created_at of each message, from its author's clock
  Runs,       \* the calls of performSync that may be going on at once
  DeviceOf,   \* the phone each of them runs on
  Limit,      \* LIMIT of the pull query (100 for the shipped client)
  Faults,     \* the kinds of failure that can happen
  ZonedTimestamps  \* whether the uploaded created_at carries a zone, as RFC 3339 wants

FaultKinds == {"offline",   \* checkConnectivity() answers none
               "lost",      \* a request or a reply never arrives
               "slow",      \* no reply within the client's 30 s
               "db",        \* a statement of the pull handler fails
               "insert",    \* an INSERT of the upload handler fails for a passing reason
               "phonedb",   \* a statement on the phone's own database fails
               "appcrash",  \* the phone kills the app
               "restart"}   \* the sync engine process dies

ASSUME PartiesAssumption ==
  /\ IsFiniteSet(Msgs)
  /\ Devices \subseteq Users
  /\ From \in [Msgs -> Users]
  /\ To \in [Msgs -> Users]
  /\ \A m \in Msgs : From[m] # To[m]   \* new_message_dialog hides the current user
ASSUME SyncAssumption ==
  /\ CreatedAt \in [Msgs -> Nat]
  /\ DeviceOf \in [Runs -> Devices]
  /\ Limit \in Nat \ {0}
  /\ Faults \subseteq FaultKinds
  /\ ZonedTimestamps \in BOOLEAN

VARIABLES
  srv,     \* messages.status on the backend, or "absent"
  local,   \* Messages.status in each phone's database, or "absent"
  rowid,   \* the order in which a phone inserted its own messages
  cl,      \* the client half of each run: [pc, todo]
  inq,     \* its GET /api/sync/incoming: [pc, batch, todo]
  out      \* its POST /api/sync/outgoing: [pc, todo, n]

vars == <<srv, local, rowid, cl, inq, out>>

----------------------------------------------------------------------------
(* State *)

SrvStatus   == {"absent", "pending_sync", "synced", "read"}
LocalStatus == {"absent", "pending_sync", "synced"}

\* `todo' holds the messages left to store ("store"), the uploaded snapshot
\* ("push") or the messages left to mark as synced ("ack").
Client == [pc : {"idle", "begin", "pull", "store", "read", "push", "ack"},
           todo : SUBSET Msgs]
PullRequest == [pc : {"none", "req", "mark", "done", "err"},
                batch : SUBSET Msgs, todo : SUBSET Msgs]
PushRequest == [pc : {"none", "req", "insert", "done", "err"},
                todo : SUBSET Msgs, n : Nat]

NoClient == [pc |-> "idle", todo |-> {}]
NoPull   == [pc |-> "none", batch |-> {}, todo |-> {}]
NoPush   == [pc |-> "none", todo |-> {}, n |-> 0]

TypeOK ==
  /\ srv \in [Msgs -> SrvStatus]
  /\ local \in [Devices -> [Msgs -> LocalStatus]]
  /\ rowid \in [Msgs -> Nat]
  /\ cl \in [Runs -> Client]
  /\ inq \in [Runs -> PullRequest]
  /\ out \in [Runs -> PushRequest]

Init ==
  /\ srv = [m \in Msgs |-> "absent"]
  /\ local = [d \in Devices |-> [m \in Msgs |-> "absent"]]
  /\ rowid = [m \in Msgs |-> 0]
  /\ cl = [r \in Runs |-> NoClient]
  /\ inq = [r \in Runs |-> NoPull]
  /\ out = [r \in Runs |-> NoPush]

Free(r) == cl[r] = NoClient /\ inq[r] = NoPull /\ out[r] = NoPush

\* The members of S that come first under key.
First(S, key) == {m \in S : \A k \in S : key[m] <= key[k]}

ClientGoes(r, pc, todo) == cl' = [cl EXCEPT ![r] = [pc |-> pc, todo |-> todo]]

----------------------------------------------------------------------------
(* The users: web users write to the backend, phone users to their phone. *)

WebSend(m) ==
  /\ From[m] \notin Devices
  /\ srv[m] = "absent"
  /\ srv' = [srv EXCEPT ![m] = "pending_sync"]
  /\ UNCHANGED <<local, rowid, cl, inq, out>>

\* Mutant: a status the CHECK constraint of the table does not know.
MarkAsSeen(m) ==
  /\ srv[m] # "absent"
  /\ srv' = [srv EXCEPT ![m] = "seen"]
  /\ UNCHANGED <<local, rowid, cl, inq, out>>

\* PUT /api/messages/{id}/read: no look at the status it overwrites.
MarkAsRead(m) ==
  /\ srv[m] # "absent"
  /\ srv' = [srv EXCEPT ![m] = "read"]
  /\ UNCHANGED <<local, rowid, cl, inq, out>>

Own(d) == {m \in Msgs : From[m] = d /\ local[d][m] # "absent"}

\* _sendMessage: the row is written, then a sync is started and not awaited.
SendMessage(r, m) ==
  /\ Free(r)
  /\ From[m] = DeviceOf[r]
  /\ local[DeviceOf[r]][m] = "absent"
  /\ local' = [local EXCEPT ![DeviceOf[r]][m] = "pending_sync"]
  /\ rowid' = [rowid EXCEPT ![m] = Cardinality(Own(DeviceOf[r])) + 1]
  /\ ClientGoes(r, "begin", {})
  /\ UNCHANGED <<srv, inq, out>>

\* The app bar's sync button.  A press before APIClient has loaded its configuration finds
\* isConfigured false and changes nothing: a stuttering step.
SyncButton(r) ==
  /\ Free(r)
  /\ ClientGoes(r, "begin", {})
  /\ UNCHANGED <<srv, local, rowid, inq, out>>

----------------------------------------------------------------------------
(* performSync and _syncIncoming on the phone *)

\* performSync, on an enrolled phone.
PerformSync(r) ==
  /\ cl[r].pc = "begin"
  /\ \/ /\ ClientGoes(r, "pull", {})
        /\ inq' = [inq EXCEPT ![r] = [pc |-> "req", batch |-> {}, todo |-> {}]]
     \/ /\ "offline" \in Faults
        /\ ClientGoes(r, "idle", {})
        /\ UNCHANGED inq
  /\ UNCHANGED <<srv, local, rowid, out>>

\* Mutant: a pull without messages ends the sync.
StopAfterEmptyPull(r, S) == ClientGoes(r, IF S = {} THEN "idle" ELSE "store", S)

\* What follows a pull with the messages S still to be stored.
AfterPull(r, S) == ClientGoes(r, IF S = {} THEN "read" ELSE "store", S)

PullAnswered(r) ==
  /\ cl[r].pc = "pull"
  /\ inq[r].pc \in {"done", "err"}
  /\ AfterPull(r, IF inq[r].pc = "done" THEN inq[r].batch ELSE {})
  /\ inq' = [inq EXCEPT ![r] = NoPull]
  /\ UNCHANGED <<srv, local, rowid, out>>

\* Mutant: no receiveTimeout.
NoPullTimeout(r) == FALSE

\* Mutant: the sync starts over.
RetryPull(r) ==
  /\ cl[r].pc = "pull"
  /\ inq[r] = NoPull \/ "slow" \in Faults
  /\ ClientGoes(r, "begin", {})
  /\ UNCHANGED <<srv, local, rowid, inq, out>>

\* receiveTimeout: the exception is swallowed and the upload goes ahead.
PullTimesOut(r) ==
  /\ cl[r].pc = "pull"
  /\ inq[r] = NoPull \/ "slow" \in Faults
  /\ AfterPull(r, {})
  /\ UNCHANGED <<srv, local, rowid, inq, out>>

\* Mutant: the status of the reply's row is kept.
StoreAsReceived(r) ==
  /\ cl[r].pc = "store"
  /\ \E m \in First(cl[r].todo, CreatedAt) :
       /\ local' = [local EXCEPT ![DeviceOf[r]][m] = "pending_sync"]
       /\ AfterPull(r, cl[r].todo \ {m})
  /\ UNCHANGED <<srv, rowid, inq, out>>

\* insertMessage, which replaces a row of the same id.
StoreMessage(r) ==
  /\ cl[r].pc = "store"
  /\ \E m \in First(cl[r].todo, CreatedAt) :
       /\ local' = [local EXCEPT ![DeviceOf[r]][m] = "synced"]
       /\ AfterPull(r, cl[r].todo \ {m})
  /\ UNCHANGED <<srv, rowid, inq, out>>

----------------------------------------------------------------------------
(* GET /api/sync/incoming: syncIncomingPolling *)

Pending(d) == {m \in Msgs : To[m] = d /\ srv[m] = "pending_sync"}

\* Mutant: ORDER BY created_at DESC, as GetMessages has it.
NewestBatches(d) ==
  {B \in SUBSET Pending(d) :
     /\ Cardinality(B) <= Limit
     /\ B = Pending(d) \/ Cardinality(B) = Limit
     /\ \A m \in B, k \in Pending(d) \ B : CreatedAt[m] >= CreatedAt[k]}

\* GetPendingMessagesForDevice: the oldest Limit pending messages of d.
Batches(d) ==
  {B \in SUBSET Pending(d) :
     /\ Cardinality(B) <= Limit
     /\ B = Pending(d) \/ Cardinality(B) = Limit
     /\ \A m \in B, k \in Pending(d) \ B : CreatedAt[m] <= CreatedAt[k]}

HandlerHas(r, batch, todo) ==
  inq' = [inq EXCEPT ![r] = [pc |-> IF todo = {} THEN "done" ELSE "mark",
                             batch |-> batch, todo |-> todo]]

\* Mutant: one UPDATE of all pending rows, without the LIMIT of the SELECT.
MarkBeyondLimit(r) ==
  /\ inq[r].pc = "req"
  /\ \E B \in Batches(DeviceOf[r]) : HandlerHas(r, B, Pending(DeviceOf[r]))
  /\ UNCHANGED <<srv, local, rowid, cl, out>>

SelectPending(r) ==
  /\ inq[r].pc = "req"
  /\ \E B \in Batches(DeviceOf[r]) : HandlerHas(r, B, B)
  /\ UNCHANGED <<srv, local, rowid, cl, out>>

\* UpdateMessageStatus(id, "synced"), one statement per message.
MarkSynced(r) ==
  /\ inq[r].pc = "mark"
  /\ \E m \in First(inq[r].todo, CreatedAt) :
       /\ srv' = [srv EXCEPT ![m] = "synced"]
       /\ HandlerHas(r, inq[r].batch, inq[r].todo \ {m})
  /\ UNCHANGED <<local, rowid, cl, out>>

\* A statement fails, or the request's context ended with the client's wait.
PullFails(r) ==
  /\ inq[r].pc \in {"req", "mark"}
  /\ "db" \in Faults \/ cl[r].pc # "pull"
  /\ inq' = [inq EXCEPT ![r] = [pc |-> "err", batch |-> {}, todo |-> {}]]
  /\ UNCHANGED <<srv, local, rowid, cl, out>>

\* The request or the reply is lost, or nobody waits for the reply any more.
PullDropped(r) ==
  /\ \/ inq[r].pc \in {"req", "done", "err"} /\ "lost" \in Faults
     \/ inq[r].pc \in {"done", "err"} /\ cl[r].pc # "pull"
  /\ inq' = [inq EXCEPT ![r] = NoPull]
  /\ UNCHANGED <<srv, local, rowid, cl, out>>

----------------------------------------------------------------------------
(* _syncOutgoing on the phone *)

Unsynced(d) == {m \in Msgs : local[d][m] = "pending_sync"}

\* Mutant: the snapshot counts as synced as soon as it is on its way.
AckOnSend(r) ==
  /\ cl[r].pc = "read"
  /\ LET d == DeviceOf[r]
         sent == Unsynced(d) IN
       /\ ClientGoes(r, IF sent = {} THEN "idle" ELSE "push", sent)
       /\ out' = [out EXCEPT ![r] = IF sent = {} THEN @
                                    ELSE [pc |-> "req", todo |-> sent, n |-> 0]]
       /\ local' = [local EXCEPT ![d] = [m \in Msgs |->
                                          IF m \in sent THEN "synced" ELSE @[m]]]
  /\ UNCHANGED <<srv, rowid, inq>>

ReadPending(r) ==
  /\ cl[r].pc = "read"
  /\ LET sent == Unsynced(DeviceOf[r]) IN
       IF sent = {}
       THEN ClientGoes(r, "idle", {}) /\ UNCHANGED out
       ELSE /\ ClientGoes(r, "push", sent)
            /\ out' = [out EXCEPT ![r] = [pc |-> "req", todo |-> sent, n |-> 0]]
  /\ UNCHANGED <<srv, local, rowid, inq>>

\* pendingMessages.take(syncedCount): the first n in row order.
Taken(S, n) == {m \in S : Cardinality({k \in S : rowid[k] < rowid[m]}) < n}

\* What is left of a run that has the messages S still to mark.
AfterPush(r, S) == ClientGoes(r, IF S = {} THEN "idle" ELSE "ack", S)

PushAnswered(r) ==
  /\ cl[r].pc = "push"
  /\ out[r].pc \in {"done", "err"}
  /\ AfterPush(r, IF out[r].pc = "done" THEN Taken(cl[r].todo, out[r].n) ELSE {})
  /\ out' = [out EXCEPT ![r] = NoPush]
  /\ UNCHANGED <<srv, local, rowid, inq>>

\* Mutant: a timeout is taken for success.
TimeoutIsSuccess(r) ==
  /\ cl[r].pc = "push"
  /\ out[r] = NoPush \/ "slow" \in Faults
  /\ AfterPush(r, cl[r].todo)
  /\ UNCHANGED <<srv, local, rowid, inq, out>>

PushTimesOut(r) ==
  /\ cl[r].pc = "push"
  /\ out[r] = NoPush \/ "slow" \in Faults
  /\ AfterPush(r, {})
  /\ UNCHANGED <<srv, local, rowid, inq, out>>

\* updateMessageStatus(id, 'synced') on the phone.
Acknowledge(r) ==
  /\ cl[r].pc = "ack"
  /\ \E m \in First(cl[r].todo, rowid) :
       /\ local' = [local EXCEPT ![DeviceOf[r]][m] = "synced"]
       /\ AfterPush(r, cl[r].todo \ {m})
  /\ UNCHANGED <<srv, rowid, inq, out>>

\* insertMessage, getPendingMessages or updateMessageStatus throws: each half of a sync has one
\* catch around all of it, so what is left of a reply is not stored, the upload is given up,
\* or what is left of a count is not marked.
PhoneDbFails(r) ==
  /\ "phonedb" \in Faults
  /\ \/ cl[r].pc = "store" /\ AfterPull(r, {})
     \/ cl[r].pc \in {"read", "ack"} /\ ClientGoes(r, "idle", {})
  /\ UNCHANGED <<srv, local, rowid, inq, out>>

----------------------------------------------------------------------------
(* POST /api/sync/outgoing: UploadOutgoing *)

\* time.Time only decodes from RFC 3339: without a zone the whole body is a 400.
DecodeUpload(r) ==
  /\ out[r].pc = "req"
  /\ out' = [out EXCEPT ![r] = [pc |-> IF ZonedTimestamps THEN "insert" ELSE "err",
                                todo |-> out[r].todo, n |-> 0]]
  /\ UNCHANGED <<srv, local, rowid, cl, inq>>

HandlerInserted(r, m, count) ==
  LET rest == out[r].todo \ {m} IN
    out' = [out EXCEPT ![r] = [pc |-> IF rest = {} THEN "done" ELSE "insert",
                               todo |-> rest, n |-> @.n + count]]

\* Mutant: INSERT ... ON CONFLICT (id) DO UPDATE.
UpsertMessage(r) ==
  /\ out[r].pc = "insert"
  /\ \E m \in First(out[r].todo, rowid) :
       /\ srv' = [srv EXCEPT ![m] = "pending_sync"]
       /\ HandlerInserted(r, m, 1)
  /\ UNCHANGED <<local, rowid, cl, inq>>

\* CreateMessage is a plain INSERT: an id the table already has is a failure,
\* and a failure is counted and skipped.
InsertMessage(r) ==
  /\ out[r].pc = "insert"
  /\ \E m \in First(out[r].todo, rowid) :
       \/ /\ srv[m] = "absent"
          /\ srv' = [srv EXCEPT ![m] = "pending_sync"]
          /\ HandlerInserted(r, m, 1)
       \/ /\ srv[m] # "absent" \/ "insert" \in Faults
          /\ HandlerInserted(r, m, 0)
          /\ UNCHANGED srv
  /\ UNCHANGED <<local, rowid, cl, inq>>

\* The context ended with the client's wait: every further INSERT fails.
PushCancelled(r) ==
  /\ out[r].pc \in {"req", "insert"}
  /\ cl[r].pc # "push"
  /\ out' = [out EXCEPT ![r] = NoPush]
  /\ UNCHANGED <<srv, local, rowid, cl, inq>>

PushDropped(r) ==
  /\ \/ out[r].pc \in {"req", "done", "err"} /\ "lost" \in Faults
     \/ out[r].pc \in {"done", "err"} /\ cl[r].pc # "push"
  /\ out' = [out EXCEPT ![r] = NoPush]
  /\ UNCHANGED <<srv, local, rowid, cl, inq>>

----------------------------------------------------------------------------
(* Crashes *)

\* Mutant: the database lives in memory.
ForgetfulCrash(d) ==
  /\ "appcrash" \in Faults
  /\ cl' = [r \in Runs |-> IF DeviceOf[r] = d THEN NoClient ELSE cl[r]]
  /\ local' = [local EXCEPT ![d] = [m \in Msgs |-> "absent"]]
  /\ UNCHANGED <<srv, rowid, inq, out>>

\* The app dies with its syncs; its database and the handlers stay.
AppCrash(d) ==
  /\ "appcrash" \in Faults
  /\ cl' = [r \in Runs |-> IF DeviceOf[r] = d THEN NoClient ELSE cl[r]]
  /\ UNCHANGED <<srv, local, rowid, inq, out>>

\* The engine dies: connections break, and the clients see an error.
EngineRestart ==
  /\ "restart" \in Faults
  /\ inq' = [r \in Runs |-> IF inq[r] = NoPull THEN NoPull
                            ELSE [pc |-> "err", batch |-> {}, todo |-> {}]]
  /\ out' = [r \in Runs |-> IF out[r] = NoPush THEN NoPush
                            ELSE [pc |-> "err", todo |-> {}, n |-> 0]]
  /\ UNCHANGED <<srv, local, rowid, cl>>

----------------------------------------------------------------------------

UserStep ==
  \/ \E m \in Msgs : WebSend(m) \/ MarkAsRead(m)
  \/ \E r \in Runs : SyncButton(r) \/ \E m \in Msgs : SendMessage(r, m)

ClientStep(r) ==
  \/ PerformSync(r) \/ PullAnswered(r) \/ PullTimesOut(r) \/ StoreMessage(r)
  \/ ReadPending(r) \/ PushAnswered(r) \/ PushTimesOut(r) \/ Acknowledge(r)
  \/ PhoneDbFails(r)

PullStep(r) == SelectPending(r) \/ MarkSynced(r) \/ PullFails(r) \/ PullDropped(r)

PushStep(r) ==
  DecodeUpload(r) \/ InsertMessage(r) \/ PushCancelled(r) \/ PushDropped(r)

Crash == EngineRestart \/ \E d \in Devices : AppCrash(d)

Next ==
  \/ UserStep
  \/ \E r \in Runs : ClientStep(r) \/ PullStep(r) \/ PushStep(r)
  \/ Crash

Spec == Init /\ [][Next]_vars

\* The phone's event loop and the engine's goroutines run; the users owe nothing.
Fairness ==
  \A r \in Runs : WF_vars(ClientStep(r)) /\ WF_vars(PullStep(r)) /\ WF_vars(PushStep(r))

FairSpec == Spec /\ Fairness

----------------------------------------------------------------------------
(* Properties *)

\* A pull of the addressee's phone that still has m on its way to the phone's database.
Carries(r, m) ==
  /\ DeviceOf[r] = To[m]
  /\ \/ cl[r].pc = "store" /\ m \in cl[r].todo
     \/ cl[r].pc = "pull" /\ inq[r].pc \in {"mark", "done"} /\ m \in inq[r].batch

\* The pull handler marks messages as synced before anybody has received them
\* (manager.go:127-132).  As long as nothing fails, a message marked as synced is in the
\* addressee's database or on its way there, however the syncs of a phone overlap.
SyncedIsHeld ==
  \A m \in Msgs :
    To[m] \in Devices /\ srv[m] = "synced" =>
      local[To[m]][m] = "synced" \/ \E r \in Runs : Carries(r, m)

\* The same promise as the documents give it, for any network: once no sync is in
\* progress, a message the backend calls synced is on the phone (specs/bdd-mapping.md:308
\* "Messages remain in `pending_sync` until fully synced").
DeliveredWhenQuiet ==
  (\A r \in Runs : Free(r)) =>
    \A m \in Msgs : To[m] \in Devices /\ srv[m] = "synced" => local[To[m]][m] = "synced"

\* A phone that counts its own message as synced never uploads it again
\* (database.dart:60-62), so the backend must have it: the positional take(syncedCount)
\* of sync_service.dart:98 must not reach a message that was not stored.
AckedIsStored ==
  \A m \in Msgs :
    From[m] \in Devices /\ local[From[m]][m] = "synced" => srv[m] # "absent"

Acked(d)  == {m \in Msgs : From[m] = d /\ local[d][m] = "synced"}
Stored(d) == {m \in Msgs : From[m] = d /\ srv[m] # "absent"}

\* A failed INSERT makes take(syncedCount) acknowledge the wrong reply, but never more of
\* them than the backend has: as many as were acknowledged too early are still waiting for
\* upload although they are stored (synced_count of handlers/sync.go:99 counts each stored
\* message once, however often it is uploaded).
NeverOveracked == \A d \in Devices : Cardinality(Acked(d)) <= Cardinality(Stored(d))

\* A reply that reached the backend becomes "synced" on the phone (BDD_SCENARIOS.md:91):
\* once no sync is in progress, no stored reply is still waiting for upload.
RepliesSettle ==
  (\A r \in Runs : Free(r)) =>
    \A m \in Msgs :
      From[m] \in Devices /\ srv[m] # "absent" => local[From[m]][m] = "synced"

\* A phone's database holds only messages the phone wrote or that the backend has for it,
\* and never a foreign message waiting for upload (queries.go:379-381).
NoStrays ==
  \A d \in Devices, m \in Msgs :
    /\ local[d][m] # "absent" => d \in {From[m], To[m]}
    /\ d = To[m] /\ local[d][m] # "absent" => srv[m] # "absent" /\ local[d][m] = "synced"

\* An upload that is repeated after its first attempt got through never puts a message
\* that was already delivered or read back into the queue (queries.go:157-159: a plain
\* INSERT, not the upsert of specs/data-flow-diagrams.md).
NeverRequeued ==
  [][\A m \in Msgs : srv[m] \in {"synced", "read"} => srv'[m] \in {"synced", "read"}]_vars

\* Every sync a user starts comes to an end, whatever is lost on the way: the client's
\* timeouts and catch-alls cover each wait (sync_service.dart:31-105).
SyncEnds == \A r \in Runs : cl[r].pc # "idle" ~> cl[r].pc = "idle"

\* The stages of a sync, of a pull and of an upload, in the order they come in.
ClientStage == [begin |-> 1, pull |-> 2, store |-> 3, read |-> 4, push |-> 5, ack |-> 6,
                idle |-> 7]
PullStage   == [req |-> 1, mark |-> 2, done |-> 3, err |-> 4, none |-> 5]
PushStage   == [req |-> 1, insert |-> 2, done |-> 3, err |-> 4, none |-> 5]

\* From s to t something got done: a later stage, or the same one with less to do.
Later(s, t, stage) ==
  \/ stage[s.pc] < stage[t.pc]
  \/ t.pc = s.pc /\ t.todo \subseteq s.todo /\ t.todo # s.todo

AdvancesOnly(s, t, stage) == t = s \/ Later(s, t, stage)

Advances(r) ==
  /\ cl[r].pc # "idle" => AdvancesOnly(cl[r], cl'[r], ClientStage)
  /\ inq[r] # NoPull => AdvancesOnly(inq[r], inq'[r], PullStage)
  /\ out[r] # NoPush => AdvancesOnly(out[r], out'[r], PushStage)
  /\ inq[r] = NoPull /\ inq'[r] # NoPull => cl[r].pc = "begin"
  /\ out[r] = NoPush /\ out'[r] # NoPush => cl[r].pc = "read"

\* No part of a sync ever does again what it has done: neither the client, whatever times
\* out, nor the handlers, whatever fails, and a request is sent once
\* (sync_service.dart:31-105 retries nothing; manager.go:127 and handlers/sync.go:81 go
\* through their lists once).
SyncAdvances == [][\A r \in Runs : Advances(r)]_vars

\* A reply written on a phone gets to the backend with the sync that sending it starts
\* (BDD_SCENARIOS.md:72 and :90), also when an earlier sync is still under way.
RepliesArrive ==
  \A m \in Msgs :
    From[m] \in Devices =>
      (local[From[m]][m] = "pending_sync" ~> srv[m] # "absent")

\* Whether m is among the Limit oldest messages ever addressed to a phone.
AlwaysInBatch(m) ==
  Cardinality({k \in Msgs : To[k] = To[m] /\ CreatedAt[k] <= CreatedAt[m]}) <= Limit

\* With nothing failing, a sync brings the Limit oldest pending messages to the phone, also
\* when another sync of the phone selected some of them first, unless a web user marks one
\* as read before (queries.go:376-383 and manager.go:121-135).
PullDrains ==
  \A r \in Runs, m \in Msgs :
    DeviceOf[r] = To[m] /\ AlwaysInBatch(m) =>
      (cl[r].pc = "begin" /\ srv[m] = "pending_sync"
         ~> local[To[m]][m] = "synced" \/ srv[m] = "read")

(* Strengthenings that make the invariants above inductive *)

\* What a pull selected was addressed to its phone and is on the backend.
PullsAddressed ==
  \A r \in Runs, m \in Msgs :
    \/ m \in inq[r].batch \cup inq[r].todo
    \/ cl[r].pc = "store" /\ m \in cl[r].todo
    => To[m] = DeviceOf[r] /\ srv[m] # "absent"

\* What an upload carries was written on its phone and is still there.
PushesOwn ==
  \A r \in Runs, m \in Msgs :
    \/ m \in out[r].todo
    \/ cl[r].pc \in {"push", "ack"} /\ m \in cl[r].todo
    => From[m] = DeviceOf[r] /\ local[DeviceOf[r]][m] # "absent"

\* A phone keeps what it uploaded.
SenderKeeps ==
  \A m \in Msgs :
    From[m] \in Devices /\ srv[m] # "absent" => local[From[m]][m] # "absent"

PlaceInv == NoStrays /\ PullsAddressed /\ PushesOwn /\ SenderKeeps

\* While a client waits for the answer to its upload, every message of the snapshot is
\* stored or still ahead of the handler.
UploadCovers ==
  \A r \in Runs :
    cl[r].pc = "push" /\ out[r].pc \in {"req", "insert", "done"} =>
      \A m \in cl[r].todo :
        (out[r].pc # "done" /\ m \in out[r].todo) \/ srv[m] # "absent"

AcksStored ==
  \A r \in Runs : cl[r].pc = "ack" => \A m \in cl[r].todo : srv[m] # "absent"

AckInv == AckedIsStored /\ UploadCovers /\ AcksStored

\* With nothing failing, a pull is in a handler exactly while its client waits for it, and
\* the handler marks only what it will answer.
PullsAttended ==
  \A r \in Runs :
    /\ cl[r].pc = "pull" <=> inq[r].pc # "none"
    /\ inq[r].pc # "err"
    /\ inq[r].todo \subseteq inq[r].batch

HeldInv == SyncedIsHeld /\ PullsAttended

\* An upload is in a handler exactly while its client waits for it.
PushesAttended == \A r \in Runs : cl[r].pc = "push" <=> out[r].pc # "none"

\* With one sync at a time on a phone, an upload carries no message the backend has, so that
\* the handler counts every one.
CountsAll ==
  \A r \in Runs :
    /\ out[r].pc \in {"req", "insert"} =>
         /\ out[r].todo \subseteq cl[r].todo
         /\ out[r].n + Cardinality(out[r].todo) = Cardinality(cl[r].todo)
         /\ \A m \in out[r].todo : srv[m] = "absent"
    /\ out[r].pc = "req" => out[r].n = 0
    /\ out[r].pc = "done" => out[r].n = Cardinality(cl[r].todo)

\* A run that has uploaded m and not yet marked it.
Settles(r, m) ==
  /\ DeviceOf[r] = From[m]
  /\ m \in cl[r].todo
  /\ \/ cl[r].pc = "ack"
     \/ out[r].pc = "insert" /\ m \notin out[r].todo
     \/ out[r].pc = "done"

RepliesSettling ==
  \A m \in Msgs :
    From[m] \in Devices /\ srv[m] # "absent" =>
      local[From[m]][m] = "synced" \/ \E r \in Runs : Settles(r, m)

SettleInv == PushesAttended /\ CountsAll /\ RepliesSettling

\* The rows a phone wrote come in the order it wrote them.
RowsOrdered ==
  \A d \in Devices : \A m, k \in Own(d) :
    rowid[m] <= Cardinality(Own(d)) /\ (rowid[m] = rowid[k] => m = k)

\* Each count stands for messages that the run itself has stored (credit), and each
\* acknowledgement for one that was stored (spent).
Backed(credit, spent) ==
  /\ \A r, k \in Runs : r # k => credit[r] \cap credit[k] = {}
  /\ \A r \in Runs :
       /\ credit[r] \subseteq Stored(DeviceOf[r]) \ spent[DeviceOf[r]]
       /\ out[r].n <= Cardinality(credit[r])
       /\ cl[r].pc = "ack" => out[r] = NoPush /\ Cardinality(cl[r].todo) <= Cardinality(credit[r])
  /\ \A d \in Devices :
       spent[d] \subseteq Stored(d) /\ Cardinality(Acked(d)) <= Cardinality(spent[d])

CountInv ==
  /\ RowsOrdered
  /\ \E credit \in [Runs -> SUBSET Msgs], spent \in [Devices -> SUBSET Msgs] :
       Backed(credit, spent)

\* Nobody goes through an empty list, a slot that is not in use is clean, and a sync does not
\* come to its requests before their slots are free.
WorkOf(r) ==
  /\ cl[r].pc \in {"store", "ack"} => cl[r].todo # {}
  /\ inq[r].pc = "mark" => inq[r].todo # {}
  /\ out[r].pc \in {"req", "insert"} => out[r].todo # {}
  /\ inq[r].pc = "none" => inq[r] = NoPull
  /\ inq[r].pc = "err" => inq[r].batch = {} /\ inq[r].todo = {}
  /\ out[r].pc = "none" => out[r] = NoPush
  /\ out[r].pc = "err" => out[r].n = 0
  /\ cl[r].pc = "begin" => inq[r] = NoPull
  /\ cl[r].pc \in {"begin", "pull", "store", "read"} => out[r] = NoPush

WorkInv == \A r \in Runs : WorkOf(r)

(* The contract: MessageSync implements StoreAndForward. *)

\* The places that hold a message.
heldAt ==
  [m \in Msgs |->
     {place \in {"sender", "server", "recipient"} :
        \/ place = "sender" /\ From[m] \in Devices /\ local[From[m]][m] # "absent"
        \/ place = "server" /\ srv[m] # "absent"
        \/ place = "recipient" /\ To[m] \in Devices /\ local[To[m]][m] # "absent"}]

ackedOnPhone == {m \in Msgs : From[m] \in Devices /\ local[From[m]][m] = "synced"}

Contract == INSTANCE StoreAndForward WITH at <- heldAt, acked <- ackedOnPhone

\* While nothing fails, every step of the sync is a step of the contract and every reply
\* is eventually uploaded.
ImplementsContract == Contract!Spec

\* With every failure but a failed INSERT, the safety part of the contract still holds.
ImplementsContractSafely == Contract!SafeSpec

\* With every failure, messages still move only as the contract has it.
ImplementsCustody == Contract!CustodySpec

============================================================================

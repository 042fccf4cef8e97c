------------------------------ MODULE WalSync ------------------------------
(***************************************************************************)
(* Pulls with sync.wal enabled: the ChangeTracker's queues in the engine's *)
(* memory, last_synced_lsn in the sync_metadata table, and                 *)
(* GET /api/sync/incoming and GET /api/sync/status, which use both from    *)
(* any number of requests at once.                                         *)
(*                                                                         *)
(* The write-ahead log and its reader are external: logical decoding hands *)
(* over changes in the order of their commits, and Lsn is the place of a   *)
(* change's commit in the log.  The shipped reader is a placeholder that   *)
(* reads nothing (Feed = FALSE).  What the phone does with an answer is    *)
(* the business of MessageSync; here it stores the whole answer at once.   *)
(***************************************************************************)
EXTENDS Naturals, FiniteSets

CONSTANTS
  Changes,   \* the INSERTs and UPDATEs of the messages table
  Users, Devices, NoDevice,
  From, To,  \* sender_id and recipient_id of the row each of them wrote
  DeviceId,  \* users.device_id
  Lsn,       \* where the commit of each change stands in the log
  Word,      \* 2^32: an LSN is stored as two words
  Runs,      \* the requests that may be going on at once
  DeviceOf,  \* X-Device-ID of each of them
  Limit,     \* the limit of a pull
  Feed,      \* whether the WAL reader reads anything
  Faults     \* the kinds of failure that can happen

FaultKinds == {"db",       \* a statement on sync_metadata fails
                 "lost",     \* the reply of a pull does not arrive
               "restart"}  \* the sync engine process dies

ASSUME ChangesAssumption ==
  /\ IsFiniteSet(Changes)
  /\ NoDevice \notin Devices
  /\ From \in [Changes -> Users]
  /\ To \in [Changes -> Users]
  /\ DeviceId \in [Users -> Devices \cup {NoDevice}]
ASSUME LsnAssumption ==
  /\ Word \in Nat \ {0}
  /\ Lsn \in [Changes -> 1 .. (Word * Word - 1)]
  /\ \A c, k \in Changes : Lsn[c] = Lsn[k] => c = k
ASSUME PullAssumption ==
  /\ DeviceOf \in [Runs -> Devices]
  /\ Limit \in Nat \ {0}
  /\ Feed \in BOOLEAN
  /\ Faults \subseteq FaultKinds

VARIABLES
  wal,      \* what became of each change: "none", "committed" or "read"
  changes,  \* ChangeTracker.changes: the queue of each device, in the order of Lsn
  meta,     \* the sync_metadata row of each device: [row, lsn]
  req,      \* each request: [pc, lsn, batch]
  held      \* the changes each phone has received

vars == <<wal, changes, meta, req, held>>

----------------------------------------------------------------------------
(* LSNs are compared as integers and travel as text to and from a pg_lsn column *)

\* Mutant: the low word is not cut to 32 bits.
UncutText(l) == <<l \div Word, l>>

\* LSN.String: "%X/%08X" of the high and the low word.
LsnText(l) == <<l \div Word, l % Word>>

ParseLSN(text) == text[1] * Word + text[2]

\* No LSN yet.  Every change lies above it, so it selects what NULL selects.
NoLsn == LsnText(0)

Text == (0 .. Word - 1) \X (0 .. Word - 1)

----------------------------------------------------------------------------
(* State *)

Request == [pc : {"idle", "lookup", "filter", "write", "clear", "done", "err",
                  "status", "default"},
            lsn : Text,
            batch : SUBSET Changes]

Idle == [pc |-> "idle", lsn |-> NoLsn, batch |-> {}]

TypeOK ==
  /\ wal \in [Changes -> {"none", "committed", "read"}]
  /\ changes \in [Devices -> SUBSET Changes]
  /\ meta \in [Devices -> [row : BOOLEAN, lsn : Text]]
  /\ req \in [Runs -> Request]
  /\ held \in [Devices -> SUBSET Changes]

Init ==
  /\ wal = [c \in Changes |-> "none"]
  /\ changes = [d \in Devices |-> {}]
  /\ meta = [d \in Devices |-> [row |-> FALSE, lsn |-> NoLsn]]
  /\ req = [r \in Runs |-> Idle]
  /\ held = [d \in Devices |-> {}]

Goto(r, pc, lsn, batch) ==
  req' = [req EXCEPT ![r] = [pc |-> pc, lsn |-> lsn, batch |-> batch]]

----------------------------------------------------------------------------
(* The write-ahead log and ChangeTracker.AddChange *)

\* The changes whose place in the log is before c's.
Before(c) == {k \in Changes : Lsn[k] < Lsn[c]}

Read == {c \in Changes : wal[c] = "read"}

Commit(c) ==
  /\ wal[c] = "none"
  /\ \A k \in Before(c) : wal[k] # "none"
  /\ wal' = [wal EXCEPT ![c] = "committed"]
  /\ UNCHANGED <<changes, meta, req, held>>

\* A phone has one device, a web user none.
DevicesOf(u) == {DeviceId[u]} \ {NoDevice}

\* The recipient's device, unless it is the sender's device too.
Targets(c) == DevicesOf(To[c]) \ DevicesOf(From[c])

\* When the users cannot be looked up the queues stay as they are and the change is not
\* read yet: a stuttering step.
AddChange(c) ==
  /\ Feed
  /\ wal[c] = "committed"
  /\ Before(c) \subseteq Read
  /\ wal' = [wal EXCEPT ![c] = "read"]
  /\ changes' = [d \in Devices |->
                   IF d \in Targets(c) THEN changes[d] \cup {c} ELSE changes[d]]
  /\ UNCHANGED <<meta, req, held>>

----------------------------------------------------------------------------
(* GET /api/sync/incoming: syncIncomingWAL *)

StartPull(r) ==
  /\ req[r] = Idle
  /\ Goto(r, "lookup", NoLsn, {})
  /\ UNCHANGED <<wal, changes, meta, held>>

\* GetChangesForDevice reads the row first; no row is an error like any other.
LookUp(r) ==
  /\ req[r].pc = "lookup"
  /\ \/ meta[DeviceOf[r]].row /\ Goto(r, "filter", meta[DeviceOf[r]].lsn, {})
     \/ ~ meta[DeviceOf[r]].row /\ Goto(r, "err", NoLsn, {})
     \/ "db" \in Faults /\ Goto(r, "err", NoLsn, {})
  /\ UNCHANGED <<wal, changes, meta, held>>

\* Mutant: the last n of S.
TakenLast(S, n) == {c \in S : Cardinality({k \in S : Lsn[k] > Lsn[c]}) < n}

\* The first n of S in the order of the queue.
Taken(S, n) == {c \in S : Cardinality({k \in S : Lsn[k] < Lsn[c]}) < n}

\* The changes of d's queue above an LSN.
Above(d, lsn) == {c \in changes[d] : Lsn[c] > ParseLSN(lsn)}

\* Under the read lock: the first Limit changes of the queue above the LSN read before.
\* An empty answer touches neither the row nor the queue.
Filter(r) ==
  /\ req[r].pc = "filter"
  /\ LET batch == Taken(Above(DeviceOf[r], req[r].lsn), Limit) IN
       Goto(r, IF batch = {} THEN "done" ELSE "write", NoLsn, batch)
  /\ UNCHANGED <<wal, changes, meta, held>>

\* The changes that carry maxLSN.
Last(S) == {c \in S : \A k \in S : Lsn[k] <= Lsn[c]}

WriteLSN(r, c) ==
  /\ meta' = [meta EXCEPT ![DeviceOf[r]] = [row |-> TRUE, lsn |-> LsnText(Lsn[c])]]
  /\ Goto(r, "clear", NoLsn, req[r].batch)

\* Mutant: the LSN of the last change of the queue instead of the last of the answer.
WriteLatest(r) ==
  /\ req[r].pc = "write"
  /\ \E c \in Last(changes[DeviceOf[r]] \cup req[r].batch) : WriteLSN(r, c)
  /\ UNCHANGED <<wal, changes, held>>

\* The row is read again and written back; the LSN in it is overwritten, whatever it was.
WriteMeta(r) ==
  /\ req[r].pc = "write"
  /\ \/ \E c \in Last(req[r].batch) : WriteLSN(r, c)
     \/ "db" \in Faults /\ Goto(r, "err", NoLsn, {}) /\ UNCHANGED meta
  /\ UNCHANGED <<wal, changes, held>>

\* Mutant: the whole queue is dropped.
ClearQueue(r) ==
  /\ req[r].pc = "clear"
  /\ changes' = [changes EXCEPT ![DeviceOf[r]] = {}]
  /\ Goto(r, "done", NoLsn, req[r].batch)
  /\ UNCHANGED <<wal, meta, held>>

\* Mutant: the change at the synced LSN is kept.
KeepLast(r) ==
  /\ req[r].pc = "clear"
  /\ changes' = [changes EXCEPT ![DeviceOf[r]] =
                   {c \in @ : \A k \in Last(req[r].batch) : Lsn[c] >= Lsn[k]}]
  /\ Goto(r, "done", NoLsn, req[r].batch)
  /\ UNCHANGED <<wal, meta, held>>

ClearChangesForDevice(r) ==
  /\ req[r].pc = "clear"
  /\ changes' = [changes EXCEPT ![DeviceOf[r]] =
                   {c \in @ : \A k \in Last(req[r].batch) : Lsn[c] > Lsn[k]}]
  /\ Goto(r, "done", NoLsn, req[r].batch)
  /\ UNCHANGED <<wal, meta, held>>

Answer(r) ==
  /\ req[r].pc = "done"
  /\ \/ held' = [held EXCEPT ![DeviceOf[r]] = @ \cup req[r].batch]
     \/ "lost" \in Faults /\ UNCHANGED held
  /\ req' = [req EXCEPT ![r] = Idle]
  /\ UNCHANGED <<wal, changes, meta>>

AnswerError(r) ==
  /\ req[r].pc = "err"
  /\ req' = [req EXCEPT ![r] = Idle]
  /\ UNCHANGED <<wal, changes, meta, held>>

----------------------------------------------------------------------------
(* GET /api/sync/status, which makes the row a pull needs *)

StartStatus(r) ==
  /\ req[r] = Idle
  /\ Goto(r, "status", NoLsn, {})
  /\ UNCHANGED <<wal, changes, meta, held>>

\* Every error counts as a missing row.
GetSyncStatus(r) ==
  /\ req[r].pc = "status"
  /\ \/ meta[DeviceOf[r]].row /\ req' = [req EXCEPT ![r] = Idle]
     \/ ~ meta[DeviceOf[r]].row /\ Goto(r, "default", NoLsn, {})
     \/ "db" \in Faults /\ Goto(r, "default", NoLsn, {})
  /\ UNCHANGED <<wal, changes, meta, held>>

\* The default row replaces a row made in the meantime, with its LSN.
WriteDefault(r) ==
  /\ req[r].pc = "default"
  /\ \/ meta' = [meta EXCEPT ![DeviceOf[r]] = [row |-> TRUE, lsn |-> NoLsn]]
     \/ "db" \in Faults /\ UNCHANGED meta
  /\ req' = [req EXCEPT ![r] = Idle]
  /\ UNCHANGED <<wal, changes, held>>

----------------------------------------------------------------------------

\* The queues go with the process, and the requests under way fail.
EngineRestart ==
  /\ "restart" \in Faults
  /\ changes' = [d \in Devices |-> {}]
  /\ req' = [r \in Runs |-> Idle]
  /\ UNCHANGED <<wal, meta, held>>

Log == \E c \in Changes : AddChange(c)

Handler(r) ==
  \/ LookUp(r) \/ Filter(r) \/ WriteMeta(r) \/ ClearChangesForDevice(r)
  \/ Answer(r) \/ AnswerError(r) \/ GetSyncStatus(r) \/ WriteDefault(r)

Next ==
  \/ Log
  \/ EngineRestart
  \/ \E c \in Changes : Commit(c)
  \/ \E r \in Runs : StartPull(r) \/ StartStatus(r) \/ Handler(r)

Spec == Init /\ [][Next]_vars

\* The reader's ticker and the handlers' goroutines run.
FairSpec == Spec /\ WF_vars(Log) /\ \A r \in Runs : WF_vars(Handler(r))

----------------------------------------------------------------------------
(* Properties *)

Pulls(d) == {r \in Runs : DeviceOf[r] = d}

\* A change is with the phone, or in an answer that has been settled on and is on its way.
HandedOut(d, c) ==
  \/ c \in held[d]
  \/ \E r \in Pulls(d) : req[r].pc \in {"clear", "done"} /\ c \in req[r].batch

\* NoGap: unless replies get lost or the engine stops, each change read for a phone has been
\* handed out to it or waits in its queue above the LSN of its row, however its pulls and
\* status requests overlap (GetChangesForDevice filters by a row read before the queue, and
\* each pull overwrites the row and clears the queue on its own).
NoGap ==
  \A d \in Devices, c \in Read :
    d \in Targets(c) =>
      HandedOut(d, c) \/ (c \in changes[d] /\ Lsn[c] > ParseLSN(meta[d].lsn))

\* NothingHidden: whatever fails, what is left in a queue is above the LSN of the row, so that
\* a later pull answers it, or a pull that is about to clear it has settled on it
\* (ClearChangesForDevice must drop exactly what the row covers).
NothingHidden ==
  \A d \in Devices : \A c \in changes[d] :
    \/ Lsn[c] > ParseLSN(meta[d].lsn)
    \/ \E r \in Pulls(d) : req[r].pc = "clear" /\ \E k \in Last(req[r].batch) : Lsn[c] <= Lsn[k]

\* PullsDrain: a phone that goes on pulling gets every change read for it, if its pulls find
\* the row and only finitely many of them fail (Limit cuts an answer; the rest must follow).
PullsDrain ==
  \A d \in Devices, c \in Changes :
    d \in Targets(c) =>
      (/\ <>(wal[c] = "read")
       /\ []<>(\E r \in Pulls(d) : req[r].pc = "filter")
       /\ <>[](\A r \in Pulls(d) : req[r].pc # "err")
       => <>(c \in held[d]))

\* PollingFallback: "return nil to allow the system to work with polling fallback"
\* (wal_service.go:121): a phone that goes on pulling gets a committed message even though
\* the reader reads nothing.
PollingFallback ==
  \A d \in Devices, c \in Changes :
    d \in Targets(c) =>
      (<>(wal[c] = "committed") /\ []<>(\E r \in Pulls(d) : req[r].pc = "filter")
       => <>(c \in held[d]))

\* The changes handed out to each phone.
handed == [d \in Devices |-> {c \in Changes : HandedOut(d, c)}]

Contract == INSTANCE ChangeFeed WITH
  Addressees <- [c \in Changes |-> Targets(c)], log <- Read, settled <- handed

\* ImplementsFeed: unless replies get lost or the engine stops, what is settled on for a phone
\* is always the front of what was addressed to it, however its pulls overlap, and the phone
\* receives nothing else (three steps of each pull, on two pieces of state, no lock across).
ImplementsFeed == Contract!Spec

(* Strengthenings that make the invariants above inductive *)

\* The log is read from the front, and queues and answers hold what was read.
ReadInOrder ==
  /\ \A c \in Read : Before(c) \subseteq Read
  /\ \A d \in Devices : changes[d] \subseteq Read
  /\ \A r \in Runs : req[r].batch \subseteq Read

\* An LSN below which nothing will be read any more.
Passed(lsn) == ParseLSN(lsn) = 0 \/ \E k \in Read : Lsn[k] = ParseLSN(lsn)

LsnsPassed ==
  /\ \A d \in Devices : Passed(meta[d].lsn)
  /\ \A r \in Runs : Passed(req[r].lsn)

QueueInv == ReadInOrder /\ LsnsPassed /\ NothingHidden

\* What lies at or below the LSN a pull read from the row has been handed out.
LookedUpCovers ==
  \A r \in Runs : req[r].pc = "filter" =>
    \A c \in Read : DeviceOf[r] \in Targets(c) /\ Lsn[c] <= ParseLSN(req[r].lsn) =>
      HandedOut(DeviceOf[r], c)

\* What lies below the end of an answer is in the answer or has been handed out.
BatchCovers ==
  \A r \in Runs : req[r].pc \in {"write", "clear"} =>
    \A k \in req[r].batch, c \in Read :
      DeviceOf[r] \in Targets(c) /\ Lsn[c] <= Lsn[k] =>
        c \in req[r].batch \/ HandedOut(DeviceOf[r], c)

GapInv == NoGap /\ LookedUpCovers /\ BatchCovers

\* Queues, answers and phones hold what was addressed to them.
AddressedInv ==
  /\ \A d \in Devices : changes[d] \cup held[d] \subseteq {c \in Read : d \in Targets(c)}
  /\ \A r \in Runs : req[r].batch \subseteq {c \in Read : DeviceOf[r] \in Targets(c)}

\* What was handed out has no gap.
HandedInOrder ==
  \A d \in Devices : \A c, k \in Read :
    d \in Targets(c) /\ Lsn[c] <= Lsn[k] /\ HandedOut(d, k) => HandedOut(d, c)

============================================================================

---------------------------- MODULE SettleProofs ----------------------------
(***************************************************************************)
(* What the documents promise once a phone has come to rest, and under     *)
(* which circumstances MessageSync keeps it: the runs sync_lost_reply and  *)
(* sync_overlap show that without them it does not.  Last, what remains    *)
(* true of take(syncedCount) when INSERTs fail.                            *)
(***************************************************************************)
EXTENDS MessageSyncProofs

\* Each phone has one sync at a time.
OneSync == \A r, k \in Runs : DeviceOf[r] = DeviceOf[k] => r = k

----------------------------------------------------------------------------
(* Counting *)

\* take(syncedCount) takes everything if everything was counted.
LEMMA TakenAll ==
  ASSUME TypeOK, NEW S \in SUBSET Msgs
  PROVE  Taken(S, Cardinality(S)) = S
<1> SUFFICES ASSUME NEW m \in S
             PROVE  Cardinality({k \in S : rowid[k] < rowid[m]}) < Cardinality(S)
  BY DEF Taken
<1> DEFINE before == {k \in S : rowid[k] < rowid[m]}
<1>1. m \notin before BY DEF TypeOK
<1>2. before \subseteq S \ {m} BY <1>1
<1>3. S \ {m} \in SUBSET Msgs OBVIOUS
<1>4. Cardinality(before) <= Cardinality(S \ {m}) BY <1>2, <1>3, MessagesCount, FS_Subset
<1>5. Cardinality(before) \in Nat BY <1>2, <1>3, MessagesCount
<1> HIDE DEF before
<1>6. Cardinality(before) < Cardinality(S) BY <1>3, <1>4, <1>5, OneLess, MessagesCount
<1> QED BY <1>6 DEF before

----------------------------------------------------------------------------
(* Replies settle *)

LEMMA SettleInit == Init => SettleInv
BY DEF Init, SettleInv, PushesAttended, CountsAll, RepliesSettling, NoClient, NoPush

\* Steps that touch neither an upload nor a reply that was stored.
LEMMA SettleFrame ==
  ASSUME TypeOK, SettleInv,
         \A m \in Msgs : From[m] \in Devices => (srv'[m] = "absent" <=> srv[m] = "absent"),
         \A m \in Msgs : From[m] \in Devices /\ local[From[m]][m] = "synced" =>
                           local'[From[m]][m] = "synced",
         \A r \in Runs, m \in Msgs : m \in out[r].todo => From[m] \in Devices,
         UNCHANGED out,
         \A i \in Runs : \/ cl'[i] = cl[i]
                         \/ cl[i].pc \notin {"push", "ack"} /\ cl'[i].pc \notin {"push", "ack"}
  PROVE  SettleInv'
<1> USE DEF SettleInv
<1>1. PushesAttended' BY DEF PushesAttended
<1>2. \A r \in Runs : out[r].pc # "none" => cl'[r] = cl[r] BY DEF PushesAttended
<1>3. CountsAll' BY <1>2 DEF CountsAll, TypeOK, PushRequest
<1>4. \A m \in Msgs, r \in Runs : Settles(r, m) => Settles(r, m)'
  BY <1>2 DEF Settles
<1>5. RepliesSettling' BY <1>4 DEF RepliesSettling
<1> QED BY <1>1, <1>3, <1>5

\* What an upload carries was written on a phone.
LEMMA UploadsFromPhones ==
  ASSUME TypeOK, PlaceInv
  PROVE  \A r \in Runs, m \in Msgs : m \in out[r].todo => From[m] \in Devices
BY SyncAssumption DEF PlaceInv, PushesOwn

LEMMA SettleUser == ASSUME TypeOK, PlaceInv, SettleInv, UserStep PROVE SettleInv'
<1> USE UploadsFromPhones DEF TypeOK
<1>1. ASSUME NEW m \in Msgs, WebSend(m) \/ MarkAsRead(m) PROVE SettleInv'
  <2>1. UNCHANGED <<local, cl, out>> BY <1>1 DEF WebSend, MarkAsRead
  <2>2. \A k \in Msgs : From[k] \in Devices => (srv'[k] = "absent" <=> srv[k] = "absent")
    BY <1>1 DEF WebSend, MarkAsRead
  <2> QED BY <2>1, <2>2, SettleFrame
<1>2. ASSUME NEW r \in Runs, SyncButton(r) \/ \E m \in Msgs : SendMessage(r, m)
      PROVE  SettleInv'
  <2>1. UNCHANGED <<srv, out>> BY <1>2 DEF SyncButton, SendMessage
  <2>2. Free(r) /\ ClientGoes(r, "begin", {}) BY <1>2 DEF SyncButton, SendMessage
  <2>3. \A k \in Msgs, d \in Devices : local[d][k] = "synced" => local'[d][k] = "synced"
    <3>1. CASE SyncButton(r) BY <3>1 DEF SyncButton
    <3>2. ASSUME NEW m \in Msgs, SendMessage(r, m)
          PROVE  \A k \in Msgs, d \in Devices :
                   local[d][k] = "synced" => local'[d][k] = "synced"
      BY <3>2, SyncAssumption DEF SendMessage
    <3> QED BY <1>2, <3>1, <3>2
  <2>4. \A i \in Runs : \/ cl'[i] = cl[i]
                        \/ cl[i].pc \notin {"push", "ack"} /\ cl'[i].pc \notin {"push", "ack"}
    BY <2>2 DEF Free, NoClient, ClientGoes
  <2> QED BY <2>1, <2>3, <2>4, SettleFrame
<1> QED BY <1>1, <1>2 DEF UserStep

\* The client's part of the pull leaves replies alone.
LEMMA SettleReceive ==
  ASSUME TypeOK, PlaceInv, SettleInv, NEW r \in Runs,
         PerformSync(r) \/ PullAnswered(r) \/ PullTimesOut(r) \/ StoreMessage(r)
  PROVE  SettleInv'
<1> USE UploadsFromPhones DEF TypeOK
<1>1. UNCHANGED <<srv, out>>
  BY DEF PerformSync, PullAnswered, PullTimesOut, StoreMessage
<1>2. cl[r].pc \in {"begin", "pull", "store"}
  BY DEF PerformSync, PullAnswered, PullTimesOut, StoreMessage
<1>3. PICK pc \in {"idle", "pull", "read", "store"} : \E S : ClientGoes(r, pc, S)
  BY DEF PerformSync, PullAnswered, PullTimesOut, StoreMessage, AfterPull
<1>4. PICK S : ClientGoes(r, pc, S) BY <1>3
<1>5. \A i \in Runs : \/ cl'[i] = cl[i]
                      \/ cl[i].pc \notin {"push", "ack"} /\ cl'[i].pc \notin {"push", "ack"}
  BY <1>2, <1>4 DEF ClientGoes
<1>6. \A m \in Msgs, d \in Devices : local[d][m] = "synced" => local'[d][m] = "synced"
  <2>1. CASE StoreMessage(r) BY <2>1, FirstSubset DEF StoreMessage, Client
  <2>2. CASE UNCHANGED local BY <2>2
  <2> QED BY <2>1, <2>2 DEF PerformSync, PullAnswered, PullTimesOut
<1> QED BY <1>1, <1>5, <1>6, SettleFrame

\* The snapshot of a phone's only sync holds nothing that the backend has.
LEMMA SnapshotIsNew ==
  ASSUME TypeOK, PlaceInv, SettleInv, OneSync, NEW r \in Runs, ReadPending(r),
         NEW m \in Unsynced(DeviceOf[r])
  PROVE  m \in Msgs /\ srv[m] = "absent"
<1> USE SyncAssumption, PartiesAssumption DEF TypeOK
<1>1. m \in Msgs /\ DeviceOf[r] \in Devices /\ local[DeviceOf[r]][m] = "pending_sync"
  BY DEF Unsynced
<1>2. From[m] = DeviceOf[r] BY <1>1 DEF PlaceInv, NoStrays
<1>3. ASSUME NEW k \in Runs, Settles(k, m) PROVE FALSE
  <2>1. k = r BY <1>2, <1>3 DEF Settles, OneSync
  <2>2. cl[r].pc = "read" /\ out[r].pc = "none"
    BY DEF ReadPending, SettleInv, PushesAttended, PushRequest
  <2> QED BY <1>3, <2>1, <2>2 DEF Settles
<1> QED BY <1>1, <1>2, <1>3 DEF SettleInv, RepliesSettling

LEMMA SettleRead ==
  ASSUME TypeOK, PlaceInv, SettleInv, OneSync, NEW r \in Runs, ReadPending(r)
  PROVE  SettleInv'
<1> USE DEF TypeOK
<1> DEFINE sent == Unsynced(DeviceOf[r])
<1>1. UNCHANGED <<srv, local>> /\ cl[r].pc = "read" BY DEF ReadPending
<1>2. CASE sent = {}
  <2>1. UNCHANGED out BY <1>2 DEF ReadPending
  <2>2. \A i \in Runs : \/ cl'[i] = cl[i]
                        \/ cl[i].pc \notin {"push", "ack"} /\ cl'[i].pc \notin {"push", "ack"}
    BY <1>1, <1>2 DEF ReadPending, ClientGoes
  <2> QED BY <1>1, <2>1, <2>2, UploadsFromPhones, SettleFrame
<1>3. CASE sent # {}
  <2>1. sent \in SUBSET Msgs /\ \A m \in sent : srv[m] = "absent"
    BY SnapshotIsNew
  <2>2. /\ cl' = [cl EXCEPT ![r] = [pc |-> "push", todo |-> sent]]
        /\ out' = [out EXCEPT ![r] = [pc |-> "req", todo |-> sent, n |-> 0]]
    BY <1>3 DEF ReadPending, ClientGoes
  <2> HIDE DEF sent
  <2>3. /\ cl'[r] = [pc |-> "push", todo |-> sent]
        /\ out'[r] = [pc |-> "req", todo |-> sent, n |-> 0]
        /\ \A i \in Runs \ {r} : cl'[i] = cl[i] /\ out'[i] = out[i]
    BY <2>2
  <2>4. PushesAttended' BY <2>3 DEF SettleInv, PushesAttended
  <2>5. CountsAll' BY <1>1, <2>1, <2>3, MessagesCount DEF SettleInv, CountsAll
  <2>6. out[r].pc = "none" BY <1>1 DEF SettleInv, PushesAttended
  <2>7. \A m \in Msgs, i \in Runs : Settles(i, m) => Settles(i, m)'
    BY <1>1, <2>3, <2>6 DEF Settles
  <2>8. RepliesSettling' BY <1>1, <2>7 DEF SettleInv, RepliesSettling
  <2> QED BY <2>4, <2>5, <2>8 DEF SettleInv
<1> QED BY <1>2, <1>3

\* An answer that counts every message lets the client mark every message.
LEMMA SettleAnswer ==
  ASSUME TypeOK, PlaceInv, SettleInv, NEW r \in Runs, PushAnswered(r)
  PROVE  SettleInv'
<1> USE DEF TypeOK
<1> DEFINE snapshot == cl[r].todo
           marked == IF out[r].pc = "done" THEN snapshot ELSE {}
<1>1. UNCHANGED <<srv, local>> /\ cl[r].pc = "push" /\ out[r].pc \in {"done", "err"}
  BY DEF PushAnswered
<1>2. snapshot \in SUBSET Msgs BY DEF Client
<1>3. out[r].pc = "done" => Taken(snapshot, out[r].n) = snapshot
  BY <1>2, TakenAll DEF SettleInv, CountsAll
<1>4. ClientGoes(r, IF marked = {} THEN "idle" ELSE "ack", marked)
  BY <1>3 DEF PushAnswered, AfterPush
<1>5. /\ cl'[r] = [pc |-> IF marked = {} THEN "idle" ELSE "ack", todo |-> marked]
      /\ out'[r].pc = "none"
      /\ \A i \in Runs \ {r} : cl'[i] = cl[i] /\ out'[i] = out[i]
  BY <1>4 DEF PushAnswered, ClientGoes, NoPush
<1>6. PushesAttended' BY <1>5 DEF SettleInv, PushesAttended
<1>7. CountsAll' BY <1>1, <1>5 DEF SettleInv, CountsAll
<1>8. ASSUME NEW m \in Msgs, NEW i \in Runs, Settles(i, m) PROVE Settles(i, m)'
  <2>1. CASE i # r BY <1>5, <1>8, <2>1 DEF Settles
  <2>2. CASE i = r
    <3>1. out[r].pc = "done" /\ m \in marked BY <1>1, <1>8, <2>2 DEF Settles
    <3> QED BY <1>5, <1>8, <2>2, <3>1 DEF Settles
  <2> QED BY <2>1, <2>2
<1>9. RepliesSettling' BY <1>1, <1>8 DEF SettleInv, RepliesSettling
<1> QED BY <1>6, <1>7, <1>9 DEF SettleInv

LEMMA SettleAck ==
  ASSUME TypeOK, PlaceInv, SettleInv, NEW r \in Runs, Acknowledge(r)
  PROVE  SettleInv'
<1> USE SyncAssumption DEF TypeOK
<1>1. PICK k \in cl[r].todo : /\ local' = [local EXCEPT ![DeviceOf[r]][k] = "synced"]
                              /\ AfterPush(r, cl[r].todo \ {k})
  BY FirstSubset DEF Acknowledge
<1>2. cl[r].pc = "ack" /\ k \in Msgs /\ UNCHANGED <<srv, out>>
  BY <1>1 DEF Acknowledge, Client
<1>3. From[k] = DeviceOf[r] BY <1>1, <1>2 DEF PlaceInv, PushesOwn
<1>4. /\ cl'[r].todo = cl[r].todo \ {k}
      /\ cl'[r].pc = IF cl[r].todo \ {k} = {} THEN "idle" ELSE "ack"
      /\ \A i \in Runs \ {r} : cl'[i] = cl[i]
  BY <1>1 DEF AfterPush, ClientGoes
<1>5. PushesAttended' BY <1>2, <1>4 DEF SettleInv, PushesAttended
<1>6. out[r].pc = "none" BY <1>2 DEF SettleInv, PushesAttended, PushRequest
<1>7. CountsAll' BY <1>2, <1>4, <1>6 DEF SettleInv, CountsAll
<1>8. \A m \in Msgs, d \in Devices : local[d][m] = "synced" => local'[d][m] = "synced"
  BY <1>1
<1>9. local'[From[k]][k] = "synced" BY <1>1, <1>2, <1>3
<1>10. \A m \in Msgs, i \in Runs : Settles(i, m) => m = k \/ Settles(i, m)'
  BY <1>2, <1>4, <1>6 DEF Settles
<1>11. RepliesSettling' BY <1>2, <1>8, <1>9, <1>10 DEF SettleInv, RepliesSettling
<1> QED BY <1>5, <1>7, <1>11 DEF SettleInv

\* The pull handler marks messages that are there.
LEMMA SettlePull ==
  ASSUME TypeOK, PlaceInv, SettleInv, NEW r \in Runs, PullStep(r)
  PROVE  SettleInv'
<1> USE DEF TypeOK
<1>1. UNCHANGED <<local, cl, out>>
  BY DEF PullStep, SelectPending, MarkSynced, PullFails, PullDropped
<1>2. \A m \in Msgs : srv'[m] = "absent" <=> srv[m] = "absent"
  <2>1. CASE MarkSynced(r)
    BY <2>1, FirstSubset DEF MarkSynced, PlaceInv, PullsAddressed, PullRequest
  <2>2. CASE UNCHANGED srv BY <2>2
  <2> QED BY <2>1, <2>2 DEF PullStep, SelectPending, PullFails, PullDropped
<1> QED BY <1>1, <1>2, UploadsFromPhones, SettleFrame

LEMMA SettleInsert ==
  ASSUME TypeOK, PlaceInv, SettleInv, OneSync, "insert" \notin Faults,
         NEW r \in Runs, InsertMessage(r)
  PROVE  SettleInv'
<1> USE DEF TypeOK
<1>1. out[r].pc = "insert" /\ UNCHANGED <<local, cl>> BY DEF InsertMessage
<1>2. \A m \in out[r].todo : m \in Msgs /\ srv[m] = "absent"
  BY <1>1 DEF SettleInv, CountsAll, PushRequest
<1>3. PICK k \in out[r].todo : /\ srv' = [srv EXCEPT ![k] = "pending_sync"]
                               /\ HandlerInserted(r, k, 1)
  BY <1>2, FirstSubset DEF InsertMessage
<1>4. k \in Msgs /\ From[k] = DeviceOf[r] BY <1>2 DEF PlaceInv, PushesOwn
<1> DEFINE rest == out[r].todo \ {k}
<1>5. /\ out'[r] = [pc |-> IF rest = {} THEN "done" ELSE "insert",
                    todo |-> rest, n |-> out[r].n + 1]
      /\ \A i \in Runs \ {r} : out'[i] = out[i]
  BY <1>3 DEF HandlerInserted, PushRequest
<1>6. cl[r].pc = "push" BY <1>1 DEF SettleInv, PushesAttended
<1>7. PushesAttended' BY <1>1, <1>5, <1>6 DEF SettleInv, PushesAttended
<1>8. CountsAll'
  <2>1. out[r].todo \in SUBSET Msgs /\ out[r].n \in Nat BY DEF PushRequest
  <2>2. Cardinality(rest) + 1 = Cardinality(out[r].todo) /\ Cardinality(rest) \in Nat
    <3>1. rest \in SUBSET Msgs BY <2>1
    <3> QED BY <2>1, <3>1, OneLess, MessagesCount
  <2>3. out[r].n + Cardinality(out[r].todo) = Cardinality(cl[r].todo)
    BY <1>1 DEF SettleInv, CountsAll
  <2>4. out[r].n + 1 + Cardinality(rest) = Cardinality(cl[r].todo)
    BY <2>1, <2>2, <2>3
  <2>6. rest \subseteq cl[r].todo /\ \A m \in rest : srv'[m] = "absent"
    BY <1>1, <1>2, <1>3 DEF SettleInv, CountsAll
  <2>7. ASSUME NEW i \in Runs \ {r}, NEW m \in out[i].todo, srv[m] = "absent"
        PROVE  srv'[m] = "absent"
    <3>1. m \in Msgs /\ From[m] = DeviceOf[i] BY <2>7 DEF PlaceInv, PushesOwn, PushRequest
    <3>2. m # k BY <1>4, <3>1 DEF OneSync
    <3> QED BY <1>3, <2>7, <3>1, <3>2
  <2> HIDE DEF rest
  <2>5. rest = {} => out[r].n + 1 = Cardinality(cl[r].todo)
    BY <2>1, <2>2, <2>4, FS_EmptySet
  <2>8. ASSUME NEW i \in Runs
        PROVE  /\ out'[i].pc \in {"req", "insert"} =>
                    /\ out'[i].todo \subseteq cl[i].todo
                    /\ out'[i].n + Cardinality(out'[i].todo) = Cardinality(cl[i].todo)
                    /\ \A m \in out'[i].todo : srv'[m] = "absent"
               /\ out'[i].pc = "req" => out'[i].n = 0
               /\ out'[i].pc = "done" => out'[i].n = Cardinality(cl[i].todo)
    <3>1. CASE i = r BY <1>5, <2>4, <2>5, <2>6, <3>1
    <3>2. CASE i # r BY <1>5, <2>7, <3>2 DEF SettleInv, CountsAll
    <3> QED BY <3>1, <3>2
  <2> QED BY <1>1, <2>8 DEF CountsAll
<1>9. Settles(r, k)'
  <2>1. k \in cl[r].todo BY <1>1 DEF SettleInv, CountsAll
  <2> QED BY <1>1, <1>4, <1>5, <2>1 DEF Settles
<1>10. \A m \in Msgs, i \in Runs : Settles(i, m) => Settles(i, m)'
  BY <1>1, <1>5 DEF Settles
<1>11. \A m \in Msgs : srv'[m] # "absent" => srv[m] # "absent" \/ m = k
  BY <1>3
<1>12. RepliesSettling' BY <1>1, <1>9, <1>10, <1>11 DEF SettleInv, RepliesSettling
<1> QED BY <1>7, <1>8, <1>12 DEF SettleInv

\* Decoding keeps the upload whole or refuses it whole.
LEMMA SettleDecode ==
  ASSUME TypeOK, SettleInv, NEW r \in Runs, DecodeUpload(r)
  PROVE  SettleInv'
<1> USE DEF TypeOK
<1>1. out[r].pc = "req" /\ UNCHANGED <<srv, local, cl>> BY DEF DecodeUpload
<1>2. /\ out'[r].pc \in {"insert", "err"}
      /\ out'[r].todo = out[r].todo /\ out'[r].n = out[r].n
      /\ \A i \in Runs \ {r} : out'[i] = out[i]
  BY <1>1 DEF DecodeUpload, SettleInv, CountsAll
<1>3. PushesAttended' BY <1>1, <1>2 DEF SettleInv, PushesAttended
<1>4. CountsAll' BY <1>1, <1>2 DEF SettleInv, CountsAll
<1>5. cl[r].pc = "push" BY <1>1 DEF SettleInv, PushesAttended
<1>6. ASSUME NEW m \in Msgs, NEW i \in Runs, Settles(i, m) PROVE Settles(i, m)'
  <2>1. i # r BY <1>1, <1>5, <1>6 DEF Settles
  <2> QED BY <1>1, <1>2, <1>6, <2>1 DEF Settles
<1>7. RepliesSettling' BY <1>1, <1>6 DEF SettleInv, RepliesSettling
<1> QED BY <1>3, <1>4, <1>7 DEF SettleInv

LEMMA SettleStep ==
  ASSUME TypeOK, PlaceInv, SettleInv, OneSync, Faults \subseteq {"offline", "db"},
         [Next]_vars
  PROVE  SettleInv'
<1>1. CASE UNCHANGED vars
  BY <1>1 DEF vars, SettleInv, PushesAttended, CountsAll, RepliesSettling, Settles
<1>2. ASSUME NEW r \in Runs, ClientStep(r) PROVE SettleInv'
  <2>1. ~ PushTimesOut(r)
    BY DEF PushTimesOut, SettleInv, PushesAttended, NoPush
  <2>2. ~ PhoneDbFails(r) BY DEF PhoneDbFails
  <2> QED BY <1>2, <2>1, <2>2, SettleReceive, SettleRead, SettleAnswer, SettleAck DEF ClientStep
<1>3. ASSUME NEW r \in Runs, PushStep(r) PROVE SettleInv'
  <2>1. ~ PushCancelled(r) /\ ~ PushDropped(r)
    BY DEF PushCancelled, PushDropped, SettleInv, PushesAttended
  <2> QED BY <1>3, <2>1, SettleInsert, SettleDecode DEF PushStep
<1>4. ~ Crash BY DEF Crash, EngineRestart, AppCrash
<1> QED BY <1>1, <1>2, <1>3, <1>4, SettleUser, SettlePull DEF Next

\* With one sync at a time on each phone, no failure but a missing connection or a failing
\* pull, and uploads the handler can read or not: once a phone is at rest, each of its
\* replies that the backend has counts as synced on the phone (UploadOutgoing's counter and
\* take(syncedCount) agree).
THEOREM RepliesSettleHolds ==
  ASSUME OneSync, Faults \subseteq {"offline", "db"} PROVE Spec => []RepliesSettle
<1>1. TypeOK /\ PlaceInv /\ SettleInv /\ [Next]_vars => SettleInv'
  BY SettleStep
<1>2. SettleInv => RepliesSettle
  BY DEF SettleInv, RepliesSettling, RepliesSettle, Settles, Free, NoClient, NoPush
<1> QED BY SettleInit, <1>1, <1>2, TypeCorrect, PlaceInvariant, PTL DEF Spec

----------------------------------------------------------------------------
(* Deliveries *)

\* While requests, replies, the app and the engine survive, a phone at rest has every
\* message that the backend calls synced, for any number of overlapping syncs.
THEOREM DeliveredWhenQuietHolds ==
  ASSUME Faults \subseteq {"offline", "insert"} PROVE Spec => []DeliveredWhenQuiet
<1>1. SyncedIsHeld => DeliveredWhenQuiet
  BY DEF SyncedIsHeld, DeliveredWhenQuiet, Carries, Free, NoClient
<1> QED BY <1>1, SyncedIsHeldHolds, PTL

----------------------------------------------------------------------------
(* take(syncedCount) when not everything was counted *)

\* One of them comes last.
LEMMA LargestElement ==
  ASSUME NEW S \in SUBSET Msgs, S # {}, NEW key \in [Msgs -> Nat]
  PROVE  \E m \in S : \A k \in S : key[k] <= key[m]
<1> DEFINE below(m) == {k \in S : key[m] < key[k]}
           F == {below(m) : m \in S}
<1>1. PICK B \in F : \A C \in F : C \subseteq B => C = B
  <2>1. PICK m \in S : TRUE OBVIOUS
  <2>2. below(m) \in F OBVIOUS
  <2>3. \A k \in S : below(k) \in SUBSET Msgs OBVIOUS
  <2>4. F \subseteq SUBSET Msgs BY <2>3
  <2> HIDE DEF F
  <2> QED BY <2>2, <2>4, SmallestExists
<1>2. PICK m \in S : B = below(m) OBVIOUS
<1>3. ASSUME NEW k \in S, ~ (key[k] <= key[m]) PROVE FALSE
  <2>1. key[m] < key[k] BY <1>3
  <2>2. below(k) \subseteq below(m) BY <2>1
  <2>3. k \in below(m) /\ k \notin below(k) BY <2>1
  <2>4. below(k) \in F OBVIOUS
  <2>5. below(k) # below(m) BY <2>3
  <2> HIDE DEF below, F
  <2> QED BY <1>1, <1>2, <2>2, <2>4, <2>5
<1> QED BY <1>3

\* take(n) takes at most n.
LEMMA TakenFew ==
  ASSUME TypeOK, NEW S \in SUBSET Msgs, NEW n \in Nat,
         \A m, k \in S : rowid[m] = rowid[k] => m = k
  PROVE  Cardinality(Taken(S, n)) <= n
<1> DEFINE T == Taken(S, n)
<1> SUFFICES Cardinality(T) <= n OBVIOUS
<1>1. T \in SUBSET S BY DEF Taken
<1>2. CASE T = {} BY <1>2, FS_EmptySet
<1>3. CASE T # {}
  <2>1. PICK m \in T : \A k \in T : rowid[k] <= rowid[m]
    BY <1>1, <1>3, LargestElement DEF TypeOK
  <2> DEFINE before == {k \in S : rowid[k] < rowid[m]}
  <2>2. T \ {m} \subseteq before
    <3>1. \A k \in T \ {m} : rowid[k] \in Nat /\ rowid[m] \in Nat /\ rowid[k] # rowid[m]
      BY <1>1 DEF TypeOK
    <3> QED BY <1>1, <2>1, <3>1
  <2>3. Cardinality(before) < n BY <1>1 DEF Taken
  <2>4. /\ IsFiniteSet(before) /\ Cardinality(before) \in Nat
        /\ T \in SUBSET Msgs /\ T \ {m} \in SUBSET Msgs
    BY <1>1, MessagesCount
  <2>5. Cardinality(T \ {m}) <= Cardinality(before) BY <2>2, <2>4, FS_Subset
  <2>6. Cardinality(T \ {m}) + 1 = Cardinality(T) BY <2>4, OneLess
  <2>7. Cardinality(T) \in Nat /\ Cardinality(T \ {m}) \in Nat BY <2>4, MessagesCount
  <2> HIDE DEF before, T
  <2> QED BY <2>3, <2>4, <2>5, <2>6, <2>7
<1> QED BY <1>2, <1>3

----------------------------------------------------------------------------
(* The order of rows *)

LEMMA RowsFrame ==
  ASSUME RowsOrdered, UNCHANGED rowid, \A d \in Devices : Own(d)' = Own(d)
  PROVE  RowsOrdered'
BY DEF RowsOrdered

LEMMA RowsInsert ==
  ASSUME TypeOK, RowsOrdered, NEW r \in Runs, NEW m \in Msgs, SendMessage(r, m)
  PROVE  RowsOrdered'
<1> USE SyncAssumption DEF TypeOK
<1> DEFINE d0 == DeviceOf[r]
           n  == Cardinality(Own(d0))
<1>1. d0 \in Devices /\ m \notin Own(d0) BY DEF SendMessage, Own
<1>2. \A d \in Devices \ {d0} : Own(d)' = Own(d) /\ m \notin Own(d)
  BY DEF SendMessage, Own
<1>3. Own(d0)' = Own(d0) \cup {m} BY DEF SendMessage, Own
<1>4. n \in Nat BY OwnCount
<1>5. Own(d0) \in SUBSET Msgs BY DEF Own
<1>6. Cardinality(Own(d0)') = n + 1 BY <1>1, <1>3, <1>5, OneMore
<1>7. rowid' = [rowid EXCEPT ![m] = n + 1] BY DEF SendMessage
<1>8. \A k \in Own(d0) : k \in Msgs /\ k # m /\ rowid[k] \in Nat /\ rowid[k] <= n
  BY <1>1, <1>5 DEF RowsOrdered
<1> HIDE DEF n, d0
<1>9. ASSUME NEW d \in Devices, NEW i \in Own(d)', NEW k \in Own(d)'
      PROVE  rowid'[i] <= Cardinality(Own(d))' /\ (rowid'[i] = rowid'[k] => i = k)
  <2>1. CASE d # d0
    <3>1. i \in Own(d) /\ k \in Own(d) /\ i # m /\ k # m /\ Own(d)' = Own(d) BY <1>2, <1>9, <2>1
    <3>2. rowid'[i] = rowid[i] /\ rowid'[k] = rowid[k] BY <1>7, <3>1 DEF Own
    <3> QED BY <3>1, <3>2 DEF RowsOrdered
  <2>2. CASE d = d0
    <3>1. rowid'[m] = n + 1 /\ \A j \in Own(d0) : rowid'[j] = rowid[j] BY <1>7, <1>8
    <3>2. \A j \in Own(d0)' : rowid'[j] <= n + 1 BY <1>3, <1>4, <1>8, <3>1
    <3>3. rowid'[i] = rowid'[k] => i = k
      BY <1>1, <1>3, <1>4, <1>8, <1>9, <2>2, <3>1 DEF RowsOrdered
    <3> QED BY <1>6, <1>9, <2>2, <3>2, <3>3
  <2> QED BY <2>1, <2>2
<1> QED BY <1>9 DEF RowsOrdered

----------------------------------------------------------------------------
(* Counting what is acknowledged *)

LEMMA CreditFrame ==
  ASSUME TypeOK, NEW credit \in [Runs -> SUBSET Msgs], NEW spent \in [Devices -> SUBSET Msgs],
         Backed(credit, spent),
         \A d \in Devices : Stored(d) \subseteq Stored(d)' /\ Acked(d)' \subseteq Acked(d),
         \A r \in Runs : out'[r].n \in {0, out[r].n},
         \A r \in Runs : cl'[r].pc = "ack" => cl'[r] = cl[r] /\ out'[r] = out[r]
  PROVE  Backed(credit, spent)'
<1> USE SyncAssumption DEF TypeOK
<1>1. ASSUME NEW r \in Runs
      PROVE  /\ credit[r] \subseteq Stored(DeviceOf[r])' \ spent[DeviceOf[r]]
             /\ out'[r].n <= Cardinality(credit[r])
             /\ cl'[r].pc = "ack" => out'[r] = NoPush
                                     /\ Cardinality(cl'[r].todo) <= Cardinality(credit[r])
  <2>1. credit[r] \in SUBSET Msgs OBVIOUS
  <2>2. Cardinality(credit[r]) \in Nat BY <2>1, MessagesCount
  <2>3. DeviceOf[r] \in Devices OBVIOUS
  <2> QED BY <2>2, <2>3 DEF Backed
<1>2. ASSUME NEW d \in Devices
      PROVE  spent[d] \subseteq Stored(d)' /\ Cardinality(Acked(d))' <= Cardinality(spent[d])
  <2>1. Acked(d) \in SUBSET Msgs /\ Acked(d)' \in SUBSET Acked(d) /\ spent[d] \in SUBSET Msgs
    BY DEF Acked
  <2>2. Acked(d)' \in SUBSET Msgs BY <2>1
  <2>3. /\ Cardinality(Acked(d)) \in Nat
        /\ Cardinality(Acked(d)') \in Nat
        /\ Cardinality(spent[d]) \in Nat
    BY <2>1, <2>2, MessagesCount
  <2>4. Cardinality(Acked(d)') <= Cardinality(Acked(d)) BY <2>1, FewerMessages
  <2>5. Cardinality(Acked(d)) <= Cardinality(spent[d]) BY DEF Backed
  <2>6. spent[d] \subseteq Stored(d)' BY DEF Backed
  <2> QED BY <2>3, <2>4, <2>5, <2>6
<1> QED BY <1>1, <1>2 DEF Backed

\* An INSERT that works earns the run a credit.
LEMMA CreditEarned ==
  ASSUME TypeOK, PlaceInv,
         NEW credit \in [Runs -> SUBSET Msgs], NEW spent \in [Devices -> SUBSET Msgs],
         Backed(credit, spent),
         NEW r \in Runs, out[r].pc = "insert", NEW m \in out[r].todo,
         srv[m] = "absent", srv' = [srv EXCEPT ![m] = "pending_sync"], HandlerInserted(r, m, 1),
         UNCHANGED <<local, cl>>
  PROVE  Backed([credit EXCEPT ![r] = @ \cup {m}], spent)'
<1> USE SyncAssumption DEF TypeOK
<1> DEFINE more == [credit EXCEPT ![r] = @ \cup {m}]
<1>1. m \in Msgs /\ From[m] = DeviceOf[r] BY DEF PlaceInv, PushesOwn, PushRequest
<1>2. \A d \in Devices : Stored(d) \subseteq Stored(d)' /\ m \notin Stored(d)
  BY <1>1 DEF Stored
<1>3. m \in Stored(DeviceOf[r])' BY <1>1 DEF Stored
<1>4. \A k \in Runs : m \notin credit[k] BY <1>2 DEF Backed
<1>5. \A d \in Devices : m \notin spent[d] BY <1>2 DEF Backed
<1>6. more[r] = credit[r] \cup {m} /\ \A k \in Runs : k # r => more[k] = credit[k] OBVIOUS
<1>7. Cardinality(more[r]) = Cardinality(credit[r]) + 1 /\ Cardinality(credit[r]) \in Nat
  <2>1. credit[r] \in SUBSET Msgs OBVIOUS
  <2> QED BY <1>1, <1>4, <1>6, <2>1, OneMore, MessagesCount
<1>8. out'[r].n = out[r].n + 1 /\ \A k \in Runs : k # r => out'[k] = out[k]
  BY DEF HandlerInserted
<1>9. out[r].n \in Nat BY DEF PushRequest
<1>10. \A i, k \in Runs : i # k => more[i] \cap more[k] = {}
  <2>1. \A i, k \in Runs : i # k => credit[i] \cap credit[k] = {} BY DEF Backed
  <2> HIDE DEF more
  <2> QED BY <1>4, <1>6, <2>1
<1> HIDE DEF more
<1>11. ASSUME NEW k \in Runs
       PROVE  /\ more[k] \subseteq Stored(DeviceOf[k])' \ spent[DeviceOf[k]]
              /\ out'[k].n <= Cardinality(more[k])
              /\ cl'[k].pc = "ack" => out'[k] = NoPush
                                      /\ Cardinality(cl'[k].todo) <= Cardinality(more[k])
  <2>1. DeviceOf[k] \in Devices OBVIOUS
  <2>2. CASE k # r BY <1>2, <1>6, <1>8, <2>1, <2>2 DEF Backed
  <2>3. CASE k = r
    <3>1. cl[r].pc # "ack" BY DEF Backed, NoPush
    <3>2. credit[r] \subseteq Stored(DeviceOf[r]) \ spent[DeviceOf[r]]
          /\ out[r].n <= Cardinality(credit[r])
      BY DEF Backed
    <3>3. out'[r].n <= Cardinality(more[r]) BY <1>7, <1>8, <1>9, <3>2
    <3>4. more[r] \subseteq Stored(DeviceOf[r])' \ spent[DeviceOf[r]]
      BY <1>2, <1>3, <1>5, <1>6, <2>1, <2>3, <3>2
    <3> QED BY <2>3, <3>1, <3>3, <3>4
  <2> QED BY <2>2, <2>3
<1>12. \A d \in Devices : Acked(d)' = Acked(d) BY DEF Acked
<1>13. \A d \in Devices : spent[d] \subseteq Stored(d)' /\ Cardinality(Acked(d))' <= Cardinality(spent[d])
  BY <1>2, <1>12 DEF Backed
<1> QED BY <1>10, <1>11, <1>13 DEF Backed, more

\* An acknowledgement spends one.
LEMMA CreditSpent ==
  ASSUME TypeOK, PlaceInv,
         NEW credit \in [Runs -> SUBSET Msgs], NEW spent \in [Devices -> SUBSET Msgs],
         Backed(credit, spent), NEW r \in Runs, Acknowledge(r)
  PROVE  \E c \in credit[r] :
           Backed([credit EXCEPT ![r] = @ \ {c}], [spent EXCEPT ![DeviceOf[r]] = @ \cup {c}])'
<1> USE SyncAssumption DEF TypeOK
<1>1. PICK m \in cl[r].todo : /\ local' = [local EXCEPT ![DeviceOf[r]][m] = "synced"]
                              /\ AfterPush(r, cl[r].todo \ {m})
  BY FirstSubset DEF Acknowledge
<1>2. cl[r].pc = "ack" /\ UNCHANGED <<srv, out>> BY DEF Acknowledge
<1>3. cl[r].todo \in SUBSET Msgs /\ m \in Msgs /\ From[m] = DeviceOf[r]
  BY <1>1, <1>2 DEF PlaceInv, PushesOwn, Client
<1>4. credit[r] \in SUBSET Msgs /\ Cardinality(credit[r]) \in Nat
  <2>1. credit[r] \in SUBSET Msgs OBVIOUS
  <2> QED BY <2>1, MessagesCount
<1>5. Cardinality(cl[r].todo) <= Cardinality(credit[r]) /\ out[r] = NoPush BY <1>2 DEF Backed
<1>6. Cardinality(cl[r].todo \ {m}) + 1 = Cardinality(cl[r].todo)
      /\ Cardinality(cl[r].todo) \in Nat /\ Cardinality(cl[r].todo \ {m}) \in Nat
  <2>1. cl[r].todo \ {m} \in SUBSET Msgs BY <1>3
  <2> QED BY <1>1, <1>3, <2>1, OneLess, MessagesCount
<1>7. PICK c : c \in credit[r]
  <2>1. Cardinality(credit[r]) # 0 BY <1>4, <1>5, <1>6
  <2>2. credit[r] # {} BY <2>1, FS_EmptySet
  <2> QED BY <2>2
<1> DEFINE d0 == DeviceOf[r]
           less == [credit EXCEPT ![r] = @ \ {c}]
           gone == [spent EXCEPT ![d0] = @ \cup {c}]
<1>8. c \in Msgs /\ d0 \in Devices /\ c \in Stored(d0) /\ c \notin spent[d0]
  BY <1>4, <1>7 DEF Backed
<1>9. \A d \in Devices : Stored(d)' = Stored(d) BY <1>2 DEF Stored
<1>10. less[r] = credit[r] \ {c} /\ \A k \in Runs : k # r => less[k] = credit[k] /\ c \notin credit[k]
  <2>1. \A k \in Runs : k # r => credit[r] \cap credit[k] = {} BY DEF Backed
  <2> QED BY <1>7, <2>1
<1>11. gone[d0] = spent[d0] \cup {c} /\ \A d \in Devices : d # d0 => gone[d] = spent[d]
  BY <1>8
<1>12. Cardinality(less[r]) + 1 = Cardinality(credit[r]) /\ Cardinality(less[r]) \in Nat
  <2>1. less[r] \in SUBSET Msgs BY <1>4, <1>10
  <2> QED BY <1>4, <1>7, <1>10, <2>1, OneLess, MessagesCount
<1>13. Cardinality(gone[d0]) = Cardinality(spent[d0]) + 1 /\ Cardinality(spent[d0]) \in Nat
  <2>1. spent[d0] \in SUBSET Msgs BY <1>8
  <2> QED BY <1>8, <1>11, <2>1, OneMore, MessagesCount
<1>14. cl'[r] = [pc |-> IF cl[r].todo \ {m} = {} THEN "idle" ELSE "ack", todo |-> cl[r].todo \ {m}]
       /\ \A k \in Runs : k # r => cl'[k] = cl[k]
  BY <1>1 DEF AfterPush, ClientGoes
<1>15. Acked(d0)' \in SUBSET (Acked(d0) \cup {m}) /\ \A d \in Devices : d # d0 => Acked(d)' = Acked(d)
  BY <1>1, <1>3, <1>8 DEF Acked
<1> HIDE DEF less, gone, d0
<1>16. ASSUME NEW k \in Runs, NEW i \in Runs, i # k PROVE less[i] \cap less[k] = {}
  <2>1. credit[i] \cap credit[k] = {} BY <1>16 DEF Backed
  <2>2. less[i] \subseteq credit[i] /\ less[k] \subseteq credit[k] BY <1>10
  <2> QED BY <2>1, <2>2
<1>17. ASSUME NEW k \in Runs
       PROVE  /\ less[k] \subseteq Stored(DeviceOf[k])' \ gone[DeviceOf[k]]
              /\ out'[k].n <= Cardinality(less[k])
              /\ cl'[k].pc = "ack" => out'[k] = NoPush
                                      /\ Cardinality(cl'[k].todo) <= Cardinality(less[k])
  <2>1. DeviceOf[k] \in Devices OBVIOUS
  <2>2. credit[k] \subseteq Stored(DeviceOf[k]) \ spent[DeviceOf[k]] BY DEF Backed
  <2>3. less[k] \subseteq credit[k] /\ c \notin less[k] BY <1>10
  <2>4. gone[DeviceOf[k]] \subseteq spent[DeviceOf[k]] \cup {c} BY <1>11, <2>1
  <2>5. less[k] \subseteq Stored(DeviceOf[k])' \ gone[DeviceOf[k]]
    BY <1>9, <2>1, <2>2, <2>3, <2>4
  <2>6. CASE k # r BY <1>2, <1>10, <1>14, <2>5, <2>6 DEF Backed
  <2>7. CASE k = r
    <3>1. out'[r] = NoPush /\ out'[r].n = 0 BY <1>2, <1>5 DEF NoPush
    <3>2. Cardinality(cl'[r].todo) <= Cardinality(less[r])
      BY <1>4, <1>5, <1>6, <1>12, <1>14
    <3> QED BY <1>12, <2>5, <2>7, <3>1, <3>2
  <2> QED BY <2>6, <2>7
<1>18. ASSUME NEW d \in Devices
       PROVE  gone[d] \subseteq Stored(d)' /\ Cardinality(Acked(d))' <= Cardinality(gone[d])
  <2>1. spent[d] \subseteq Stored(d) /\ Cardinality(Acked(d)) <= Cardinality(spent[d])
    BY DEF Backed
  <2>2. CASE d # d0 BY <1>9, <1>11, <1>15, <2>1, <2>2
  <2>3. CASE d = d0
    <3>1. Acked(d0) \in SUBSET Msgs /\ Acked(d0) \cup {m} \in SUBSET Msgs BY <1>3 DEF Acked
    <3>2. Cardinality(Acked(d0) \cup {m}) <= Cardinality(Acked(d0)) + 1
          /\ Cardinality(Acked(d0)) \in Nat
      BY <1>3, <3>1, AtMostOneMore, MessagesCount
    <3>3. Cardinality(Acked(d0)') <= Cardinality(Acked(d0) \cup {m})
      BY <1>15, <3>1, FewerMessages
    <3>4. Cardinality(Acked(d0)') \in Nat /\ Cardinality(Acked(d0) \cup {m}) \in Nat
      <4>1. Acked(d0)' \in SUBSET Msgs BY <1>15, <3>1
      <4> QED BY <3>1, <4>1, MessagesCount
    <3>5. Cardinality(Acked(d0)') <= Cardinality(gone[d0])
      BY <1>13, <2>1, <2>3, <3>2, <3>3, <3>4
    <3> QED BY <1>8, <1>9, <1>11, <2>1, <2>3, <3>5
  <2> QED BY <2>2, <2>3
<1>19. Backed(less, gone)' BY <1>16, <1>17, <1>18 DEF Backed
<1> QED BY <1>7, <1>19 DEF less, gone, d0

----------------------------------------------------------------------------
(* The steps of the sync *)

LEMMA CountInit == Init => CountInv
<1> SUFFICES ASSUME Init PROVE CountInv OBVIOUS
<1> DEFINE credit == [r \in Runs |-> {}]
           spent  == [d \in Devices |-> {}]
<1>1. RowsOrdered BY DEF Init, RowsOrdered, Own
<1>2. credit \in [Runs -> SUBSET Msgs] /\ spent \in [Devices -> SUBSET Msgs] OBVIOUS
<1>3. \A d \in Devices : Acked(d) = {} BY DEF Init, Acked
<1>4. \A r \in Runs : out[r].n = 0 /\ cl[r].pc = "idle" BY DEF Init, NoPush, NoClient
<1>5. Cardinality({}) = 0 BY FS_EmptySet
<1>6. Backed(credit, spent) BY <1>3, <1>4, <1>5 DEF Backed
<1> QED BY <1>1, <1>2, <1>6 DEF CountInv

\* Steps that neither count nor acknowledge a reply.
LEMMA CountFrame ==
  ASSUME TypeOK, CountInv, RowsOrdered',
         \A m \in Msgs : From[m] \in Devices => (srv[m] # "absent" => srv'[m] # "absent"),
         \A m \in Msgs : From[m] \in Devices =>
                           (local'[From[m]][m] = "synced" => local[From[m]][m] = "synced"),
         \A r \in Runs : out'[r].n \in {0, out[r].n},
         \A r \in Runs : cl'[r].pc = "ack" => cl'[r] = cl[r] /\ out'[r] = out[r]
  PROVE  CountInv'
<1>1. PICK credit \in [Runs -> SUBSET Msgs], spent \in [Devices -> SUBSET Msgs] :
        Backed(credit, spent)
  BY DEF CountInv
<1>2. \A d \in Devices : Stored(d) \subseteq Stored(d)' /\ Acked(d)' \subseteq Acked(d)
  BY DEF Stored, Acked
<1>3. Backed(credit, spent)' BY <1>1, <1>2, CreditFrame
<1> QED BY <1>1, <1>3 DEF CountInv

LEMMA CountUser == ASSUME TypeOK, CountInv, UserStep PROVE CountInv'
<1> USE PartiesAssumption, SyncAssumption DEF TypeOK
<1>1. ASSUME NEW m \in Msgs, WebSend(m) \/ MarkAsRead(m) PROVE CountInv'
  <2>1. RowsOrdered' BY <1>1, RowsFrame DEF WebSend, MarkAsRead, CountInv, Own
  <2> QED BY <1>1, <2>1, CountFrame DEF WebSend, MarkAsRead
<1>2. ASSUME NEW r \in Runs, SyncButton(r) PROVE CountInv'
  <2>1. RowsOrdered' BY <1>2, RowsFrame DEF SyncButton, CountInv, Own
  <2> QED BY <1>2, <2>1, CountFrame DEF SyncButton, ClientGoes
<1>3. ASSUME NEW r \in Runs, NEW m \in Msgs, SendMessage(r, m) PROVE CountInv'
  <2>1. RowsOrdered' BY <1>3, RowsInsert DEF CountInv
  <2> QED BY <1>3, <2>1, CountFrame DEF SendMessage, ClientGoes
<1> QED BY <1>1, <1>2, <1>3 DEF UserStep

LEMMA CountClient ==
  ASSUME TypeOK, PlaceInv, CountInv, NEW r \in Runs, ClientStep(r) PROVE CountInv'
<1> USE PartiesAssumption, SyncAssumption DEF TypeOK
<1>1. ASSUME UNCHANGED <<srv, local, rowid>>, \A k \in Runs : out'[k].n \in {0, out[k].n},
             \A k \in Runs : cl'[k].pc = "ack" => cl'[k] = cl[k] /\ out'[k] = out[k]
      PROVE  CountInv'
  <2>1. RowsOrdered' BY <1>1, RowsFrame DEF CountInv, Own
  <2> QED BY <1>1, <2>1, CountFrame
<1>2. CASE PerformSync(r) BY <1>1, <1>2 DEF PerformSync, ClientGoes
<1>3. CASE PullAnswered(r) BY <1>1, <1>3 DEF PullAnswered, AfterPull, ClientGoes
<1>4. CASE PullTimesOut(r) BY <1>1, <1>4 DEF PullTimesOut, AfterPull, ClientGoes
<1>5. CASE StoreMessage(r)
  <2>1. PICK m \in cl[r].todo : /\ local' = [local EXCEPT ![DeviceOf[r]][m] = "synced"]
                                /\ AfterPull(r, cl[r].todo \ {m})
    BY <1>5, FirstSubset DEF StoreMessage
  <2>2. m \in Msgs /\ To[m] = DeviceOf[r] BY <1>5, <2>1 DEF StoreMessage, PlaceInv, PullsAddressed, Client
  <2>3. \A k \in Msgs : From[k] \in Devices => local'[From[k]][k] = local[From[k]][k]
    BY <2>1, <2>2
  <2>4. RowsOrdered'
    <3>1. \A d \in Devices : Own(d)' = Own(d) BY <2>3 DEF Own
    <3> QED BY <1>5, <3>1, RowsFrame DEF StoreMessage, CountInv
  <2>5. \A k \in Runs : cl'[k].pc = "ack" => cl'[k] = cl[k]
    BY <2>1 DEF AfterPull, ClientGoes
  <2> QED BY <1>5, <2>3, <2>4, <2>5, CountFrame DEF StoreMessage
<1>6. CASE ReadPending(r) BY <1>1, <1>6 DEF ReadPending, ClientGoes
<1>7. CASE PushTimesOut(r) BY <1>1, <1>7 DEF PushTimesOut, AfterPush, ClientGoes
<1>8. CASE PushAnswered(r)
  <2>1. PICK credit \in [Runs -> SUBSET Msgs], spent \in [Devices -> SUBSET Msgs] :
          Backed(credit, spent)
    BY DEF CountInv
  <2> DEFINE todo == IF out[r].pc = "done" THEN Taken(cl[r].todo, out[r].n) ELSE {}
  <2>2. /\ UNCHANGED <<srv, local, rowid, inq>>
        /\ AfterPush(r, todo)
        /\ out' = [out EXCEPT ![r] = NoPush]
        /\ cl[r].pc = "push"
    BY <1>8 DEF PushAnswered
  <2>3. /\ cl[r].todo \in SUBSET Msgs
        /\ out[r].n \in Nat
        /\ \A m \in cl[r].todo : m \in Own(DeviceOf[r])
    BY <2>2 DEF PlaceInv, PushesOwn, Client, PushRequest, Own
  <2>4. \A m, k \in cl[r].todo : rowid[m] = rowid[k] => m = k
    BY <2>3 DEF CountInv, RowsOrdered
  <2>5. Cardinality(todo) <= out[r].n
    BY <2>3, <2>4, TakenFew, FS_EmptySet
  <2>6. Cardinality(todo) <= Cardinality(credit[r])
    <3>1. todo \in SUBSET Msgs /\ credit[r] \in SUBSET Msgs BY <2>3 DEF Taken
    <3>2. Cardinality(todo) \in Nat /\ Cardinality(credit[r]) \in Nat BY <3>1, MessagesCount
    <3>3. out[r].n <= Cardinality(credit[r]) BY <2>1 DEF Backed
    <3> HIDE DEF todo
    <3> QED BY <2>3, <2>5, <3>2, <3>3
  <2> HIDE DEF todo
  <2>7. ASSUME NEW k \in Runs
        PROVE  /\ credit[k] \subseteq Stored(DeviceOf[k])' \ spent[DeviceOf[k]]
               /\ out'[k].n <= Cardinality(credit[k])
               /\ cl'[k].pc = "ack" => out'[k] = NoPush
                                       /\ Cardinality(cl'[k].todo) <= Cardinality(credit[k])
    <3>1. Stored(DeviceOf[k])' = Stored(DeviceOf[k]) BY <2>2 DEF Stored
    <3>2. CASE k # r BY <2>1, <2>2, <3>1, <3>2 DEF Backed, AfterPush, ClientGoes
    <3>3. CASE k = r
      <4>1. out'[r] = NoPush /\ NoPush.n = 0 BY <2>2 DEF NoPush
      <4>2. cl'[r].todo = todo BY <2>2 DEF AfterPush, ClientGoes
      <4>3. credit[r] \in SUBSET Msgs OBVIOUS
      <4>4. Cardinality(credit[r]) \in Nat BY <4>3, MessagesCount
      <4> QED BY <2>1, <2>6, <3>1, <3>3, <4>1, <4>2, <4>4 DEF Backed
    <3> QED BY <3>2, <3>3
  <2>8. \A d \in Devices : Stored(d)' = Stored(d) /\ Acked(d)' = Acked(d)
    BY <2>2 DEF Stored, Acked
  <2>9. Backed(credit, spent)' BY <2>1, <2>7, <2>8 DEF Backed
  <2>10. RowsOrdered' BY <2>2, RowsFrame DEF CountInv, Own
  <2> QED BY <2>1, <2>9, <2>10 DEF CountInv
<1>9. CASE Acknowledge(r)
  <2>1. PICK credit \in [Runs -> SUBSET Msgs], spent \in [Devices -> SUBSET Msgs] :
          Backed(credit, spent)
    BY DEF CountInv
  <2>2. PICK c \in credit[r] :
          Backed([credit EXCEPT ![r] = @ \ {c}], [spent EXCEPT ![DeviceOf[r]] = @ \cup {c}])'
    BY <1>9, <2>1, CreditSpent
  <2>3. /\ [credit EXCEPT ![r] = @ \ {c}] \in [Runs -> SUBSET Msgs]
        /\ [spent EXCEPT ![DeviceOf[r]] = @ \cup {c}] \in [Devices -> SUBSET Msgs]
    BY <2>2
  <2>4. RowsOrdered'
    <3>1. PICK m \in cl[r].todo : local' = [local EXCEPT ![DeviceOf[r]][m] = "synced"]
      BY <1>9, FirstSubset DEF Acknowledge
    <3>2. m \in Own(DeviceOf[r])
      BY <1>9, <3>1 DEF Acknowledge, PlaceInv, PushesOwn, Client, Own
    <3>3. \A d \in Devices : Own(d)' = Own(d) BY <3>1, <3>2 DEF Own
    <3> QED BY <1>9, <3>3, RowsFrame DEF Acknowledge, CountInv
  <2> QED BY <2>2, <2>3, <2>4 DEF CountInv
<1>10. CASE PhoneDbFails(r)
  BY <1>1, <1>10 DEF PhoneDbFails, AfterPull, ClientGoes
<1> QED BY <1>2, <1>3, <1>4, <1>5, <1>6, <1>7, <1>8, <1>9, <1>10 DEF ClientStep

LEMMA CountPull == ASSUME TypeOK, CountInv, NEW r \in Runs, PullStep(r) PROVE CountInv'
<1> USE DEF TypeOK
<1>1. UNCHANGED <<local, rowid, cl, out>>
  BY DEF PullStep, SelectPending, MarkSynced, PullFails, PullDropped
<1>2. RowsOrdered' BY <1>1, RowsFrame DEF CountInv, Own
<1>3. \A m \in Msgs : srv[m] # "absent" => srv'[m] # "absent"
  BY DEF PullStep, SelectPending, MarkSynced, PullFails, PullDropped
<1> QED BY <1>1, <1>2, <1>3, CountFrame

LEMMA CountPush ==
  ASSUME TypeOK, PlaceInv, CountInv, NEW r \in Runs, PushStep(r) PROVE CountInv'
<1> USE DEF TypeOK
<1>1. UNCHANGED <<local, rowid, cl>>
  BY DEF PushStep, DecodeUpload, InsertMessage, PushCancelled, PushDropped
<1>2. RowsOrdered' BY <1>1, RowsFrame DEF CountInv, Own
<1>3. ASSUME UNCHANGED srv, \A k \in Runs : out'[k].n \in {0, out[k].n},
             out[r] # NoPush, \A k \in Runs : k # r => out'[k] = out[k]
      PROVE  CountInv'
  <2>1. cl[r].pc # "ack" BY <1>3 DEF CountInv, Backed
  <2> QED BY <1>1, <1>2, <1>3, <2>1, CountFrame
<1>4. CASE DecodeUpload(r) BY <1>3, <1>4 DEF DecodeUpload, NoPush
<1>5. CASE PushCancelled(r) BY <1>3, <1>5 DEF PushCancelled, NoPush
<1>6. CASE PushDropped(r) BY <1>3, <1>6 DEF PushDropped, NoPush
<1>7. CASE InsertMessage(r)
  <2>1. PICK m \in out[r].todo :
          \/ srv[m] = "absent" /\ srv' = [srv EXCEPT ![m] = "pending_sync"]
             /\ HandlerInserted(r, m, 1)
          \/ UNCHANGED srv /\ HandlerInserted(r, m, 0)
    BY <1>7, FirstSubset DEF InsertMessage
  <2>2. out[r].pc = "insert" /\ out[r].n \in Nat BY <1>7 DEF InsertMessage, PushRequest
  <2>3. CASE UNCHANGED srv /\ HandlerInserted(r, m, 0)
    <3>1. \A k \in Runs : out'[k].n = out[k].n /\ (k # r => out'[k] = out[k])
      BY <2>2, <2>3 DEF HandlerInserted
    <3> QED BY <1>3, <2>2, <2>3, <3>1 DEF NoPush
  <2>4. CASE /\ srv[m] = "absent" /\ srv' = [srv EXCEPT ![m] = "pending_sync"]
             /\ HandlerInserted(r, m, 1)
    <3>1. PICK credit \in [Runs -> SUBSET Msgs], spent \in [Devices -> SUBSET Msgs] :
            Backed(credit, spent)
      BY DEF CountInv
    <3>2. Backed([credit EXCEPT ![r] = @ \cup {m}], spent)'
      BY <1>1, <2>2, <2>4, <3>1, CreditEarned
    <3>3. [credit EXCEPT ![r] = @ \cup {m}] \in [Runs -> SUBSET Msgs]
      <4>1. m \in Msgs BY DEF PushRequest
      <4> QED BY <4>1
    <3> QED BY <1>2, <3>1, <3>2, <3>3 DEF CountInv
  <2> QED BY <2>1, <2>3, <2>4
<1> QED BY <1>4, <1>5, <1>6, <1>7 DEF PushStep

LEMMA CountCrash == ASSUME TypeOK, CountInv, Crash PROVE CountInv'
<1> USE DEF TypeOK
<1>1. CASE EngineRestart
  <2>1. RowsOrdered' BY <1>1, RowsFrame DEF EngineRestart, CountInv, Own
  <2>2. \A k \in Runs : cl[k].pc = "ack" => out[k] = NoPush BY DEF CountInv, Backed
  <2>3. \A k \in Runs : out'[k].n = 0 /\ (out[k] = NoPush => out'[k] = out[k])
    BY <1>1 DEF EngineRestart, NoPush
  <2> QED BY <1>1, <2>1, <2>2, <2>3, CountFrame DEF EngineRestart
<1>2. ASSUME NEW d \in Devices, AppCrash(d) PROVE CountInv'
  <2>1. RowsOrdered' BY <1>2, RowsFrame DEF AppCrash, CountInv, Own
  <2>2. \A k \in Runs : cl'[k].pc = "ack" => cl'[k] = cl[k]
    BY <1>2 DEF AppCrash, NoClient
  <2> QED BY <1>2, <2>1, <2>2, CountFrame DEF AppCrash
<1> QED BY <1>1, <1>2 DEF Crash

\* Under every failure, also of single INSERTs: a phone never acknowledges more of its replies
\* than the backend has (NeverOveracked).  Which ones it acknowledges may be wrong.
THEOREM NeverOverackedHolds == Spec => []NeverOveracked
<1>1. TypeOK /\ PlaceInv /\ CountInv /\ [Next]_vars => CountInv'
  <2> SUFFICES ASSUME TypeOK, PlaceInv, CountInv, [Next]_vars PROVE CountInv' OBVIOUS
  <2>1. CASE UNCHANGED vars
    <3>1. RowsOrdered' BY <2>1, RowsFrame DEF vars, CountInv, Own
    <3> QED BY <2>1, <3>1, CountFrame DEF vars
  <2> QED BY <2>1, CountUser, CountClient, CountPull, CountPush, CountCrash DEF Next
<1>2. TypeOK /\ CountInv => NeverOveracked
  <2> SUFFICES ASSUME TypeOK, CountInv, NEW d \in Devices
               PROVE  Cardinality(Acked(d)) <= Cardinality(Stored(d))
    BY DEF NeverOveracked
  <2>1. PICK credit \in [Runs -> SUBSET Msgs], spent \in [Devices -> SUBSET Msgs] :
          Backed(credit, spent)
    BY DEF CountInv
  <2>2. spent[d] \in SUBSET Stored(d) /\ Cardinality(Acked(d)) <= Cardinality(spent[d])
    BY <2>1 DEF Backed
  <2>3. Stored(d) \in SUBSET Msgs /\ Acked(d) \in SUBSET Msgs /\ spent[d] \in SUBSET Msgs
    BY DEF Stored, Acked
  <2>4. Cardinality(spent[d]) <= Cardinality(Stored(d)) BY <2>2, <2>3, FewerMessages
  <2>5. /\ Cardinality(Stored(d)) \in Nat
        /\ Cardinality(Acked(d)) \in Nat
        /\ Cardinality(spent[d]) \in Nat
    BY <2>3, MessagesCount
  <2> QED BY <2>2, <2>4, <2>5
<1> QED BY CountInit, TypeCorrect, PlaceInvariant, <1>1, <1>2, PTL DEF Spec

============================================================================

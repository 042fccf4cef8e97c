------------------------- MODULE MessageSyncProofs -------------------------
(***************************************************************************)
(* Proofs about MessageSync, for any number of users, phones, messages and *)
(* overlapping syncs.                                                      *)
(***************************************************************************)
EXTENDS MessageSync, FiniteSetTheorems, TLAPS

----------------------------------------------------------------------------
(* Sets of messages *)

\* Among sets of messages there is one that no other is a proper part of.
LEMMA SmallestExists ==
  ASSUME NEW F \in SUBSET SUBSET Msgs, F # {}
  PROVE  \E B \in F : \A C \in F : C \subseteq B => C = B
<1>1. FiniteSubsetsOf(Msgs) = SUBSET Msgs BY PartiesAssumption, FS_FiniteSubsetsOfFinite
<1>2. IsWellFoundedOn(StrictSubsetOrdering(Msgs), SUBSET Msgs)
  BY <1>1, FS_StrictSubsetOrderingWellFounded
<1>3. PICK B \in F : \A C \in F : ~ (<<C, B>> \in StrictSubsetOrdering(Msgs))
  BY <1>2, WFMin
<1>4. ASSUME NEW C \in F, C \subseteq B PROVE C = B
  BY <1>3, <1>4 DEF StrictSubsetOrdering
<1> QED BY <1>4

LEMMA MessagesCount ==
  ASSUME NEW S \in SUBSET Msgs
  PROVE  IsFiniteSet(S) /\ Cardinality(S) \in Nat
<1>1. IsFiniteSet(S) BY PartiesAssumption, FS_Subset
<1> QED BY <1>1, FS_CardinalityType

LEMMA OneLess ==
  ASSUME NEW S \in SUBSET Msgs, NEW m \in S
  PROVE  Cardinality(S \ {m}) + 1 = Cardinality(S)
<1>1. Cardinality(S \ {m}) = Cardinality(S) - 1 BY MessagesCount, FS_RemoveElement
<1> QED BY <1>1, MessagesCount

LEMMA OneMore ==
  ASSUME NEW S \in SUBSET Msgs, NEW m \in Msgs, m \notin S
  PROVE  Cardinality(S \cup {m}) = Cardinality(S) + 1
BY MessagesCount, FS_AddElement

LEMMA AtMostOneMore ==
  ASSUME NEW S \in SUBSET Msgs, NEW m \in Msgs
  PROVE  Cardinality(S \cup {m}) <= Cardinality(S) + 1
<1>1. Cardinality(S) \in Nat BY MessagesCount
<1>2. CASE m \notin S BY <1>1, <1>2, OneMore
<1>3. CASE m \in S
  <2>1. S \cup {m} = S BY <1>3
  <2> QED BY <1>1, <2>1
<1> QED BY <1>2, <1>3

LEMMA FewerMessages ==
  ASSUME NEW S \in SUBSET Msgs, NEW R \in SUBSET S
  PROVE  Cardinality(R) <= Cardinality(S)
BY MessagesCount, FS_Subset

----------------------------------------------------------------------------
(* Type correctness *)

LEMMA FirstSubset == ASSUME NEW S, NEW key PROVE First(S, key) \subseteq S
BY DEF First

LEMMA OwnCount == ASSUME NEW d PROVE Cardinality(Own(d)) \in Nat
<1>1. Own(d) \subseteq Msgs BY DEF Own
<1>2. IsFiniteSet(Own(d)) BY <1>1, PartiesAssumption, FS_Subset
<1>3. QED BY <1>2, FS_CardinalityType

LEMMA TypeInit == Init => TypeOK
BY DEF Init, TypeOK, SrvStatus, LocalStatus, Client, PullRequest, PushRequest,
       NoClient, NoPull, NoPush

LEMMA UserTypes == ASSUME TypeOK, UserStep PROVE TypeOK'
<1> USE DEF TypeOK, SrvStatus, LocalStatus
<1>1. CASE \E m \in Msgs : WebSend(m) \/ MarkAsRead(m)
  BY <1>1 DEF WebSend, MarkAsRead
<1>2. CASE \E r \in Runs : SyncButton(r)
  BY <1>2 DEF SyncButton, ClientGoes, Client
<1>3. ASSUME NEW r \in Runs, NEW m \in Msgs, SendMessage(r, m) PROVE TypeOK'
  <2>1. srv' \in [Msgs -> SrvStatus] /\ inq' \in [Runs -> PullRequest]
        /\ out' \in [Runs -> PushRequest]
    BY <1>3 DEF SendMessage
  <2>2. local' \in [Devices -> [Msgs -> LocalStatus]]
    BY <1>3, SyncAssumption DEF SendMessage
  <2>3. rowid' \in [Msgs -> Nat] BY <1>3, OwnCount DEF SendMessage
  <2>4. cl' \in [Runs -> Client] BY <1>3 DEF SendMessage, ClientGoes, Client
  <2>5. QED BY <2>1, <2>2, <2>3, <2>4
<1>4. QED BY <1>1, <1>2, <1>3 DEF UserStep

LEMMA ClientTypes == ASSUME TypeOK, NEW r \in Runs, ClientStep(r) PROVE TypeOK'
<1> USE SyncAssumption DEF TypeOK, LocalStatus, ClientGoes, AfterPull, AfterPush
<1>1. CASE PerformSync(r)
  <2>1. cl' \in [Runs -> Client] BY <1>1 DEF PerformSync, Client
  <2>2. [pc |-> "req", batch |-> {}, todo |-> {}] \in PullRequest BY DEF PullRequest
  <2>3. inq' \in [Runs -> PullRequest] BY <1>1, <2>2 DEF PerformSync
  <2>4. QED BY <1>1, <2>1, <2>3 DEF PerformSync
<1>2. CASE PullAnswered(r) BY <1>2 DEF PullAnswered, Client, PullRequest, NoPull
<1>3. CASE PullTimesOut(r) BY <1>3 DEF PullTimesOut, Client
<1>4. CASE StoreMessage(r) BY <1>4, FirstSubset DEF StoreMessage, Client
<1>5. CASE ReadPending(r)
  <2>1. Unsynced(DeviceOf[r]) \in SUBSET Msgs BY DEF Unsynced
  <2>2. cl' \in [Runs -> Client]
    <3>1. PICK pc \in {"idle", "push"}, S \in {{}, Unsynced(DeviceOf[r])} : ClientGoes(r, pc, S)
      BY <1>5 DEF ReadPending
    <3>2. [pc |-> pc, todo |-> S] \in Client BY <2>1 DEF Client
    <3>3. QED BY <3>1, <3>2
  <2>3. [pc |-> "req", todo |-> Unsynced(DeviceOf[r]), n |-> 0] \in PushRequest
    BY <2>1 DEF PushRequest
  <2>4. out' \in [Runs -> PushRequest]
    <3>1. CASE out' = out BY <3>1
    <3>2. CASE out' = [out EXCEPT ![r] =
                         [pc |-> "req", todo |-> Unsynced(DeviceOf[r]), n |-> 0]]
      BY <3>2, <2>3
    <3>3. QED BY <1>5, <3>1, <3>2 DEF ReadPending
  <2>5. QED BY <1>5, <2>2, <2>4 DEF ReadPending
<1>6. CASE PushAnswered(r)
  BY <1>6 DEF PushAnswered, Taken, Client, PushRequest, NoPush
<1>7. CASE PushTimesOut(r) BY <1>7 DEF PushTimesOut, Client
<1>8. CASE Acknowledge(r) BY <1>8, FirstSubset DEF Acknowledge, Client
<1>9. CASE PhoneDbFails(r) BY <1>9 DEF PhoneDbFails, Client
<1>10. QED
  BY <1>1, <1>2, <1>3, <1>4, <1>5, <1>6, <1>7, <1>8, <1>9 DEF ClientStep

LEMMA PullTypes == ASSUME TypeOK, NEW r \in Runs, PullStep(r) PROVE TypeOK'
<1> USE DEF TypeOK, PullRequest, HandlerHas
<1>1. CASE SelectPending(r) BY <1>1 DEF SelectPending, Batches, Pending
<1>2. CASE MarkSynced(r) BY <1>2, FirstSubset DEF MarkSynced, SrvStatus
<1>3. CASE PullFails(r) BY <1>3 DEF PullFails
<1>4. CASE PullDropped(r) BY <1>4 DEF PullDropped, NoPull
<1>5. QED BY <1>1, <1>2, <1>3, <1>4 DEF PullStep

LEMMA PushTypes == ASSUME TypeOK, NEW r \in Runs, PushStep(r) PROVE TypeOK'
<1> USE DEF TypeOK, PushRequest
<1>1. CASE DecodeUpload(r) BY <1>1 DEF DecodeUpload
<1>2. CASE InsertMessage(r)
  <2>1. PICK m \in First(out[r].todo, rowid) :
          \/ srv' = [srv EXCEPT ![m] = "pending_sync"] /\ HandlerInserted(r, m, 1)
          \/ UNCHANGED srv /\ HandlerInserted(r, m, 0)
    BY <1>2 DEF InsertMessage
  <2>2. srv' \in [Msgs -> SrvStatus] BY <2>1 DEF SrvStatus
  <2>3. \A count \in {0, 1} : HandlerInserted(r, m, count) => out' \in [Runs -> PushRequest]
    BY DEF HandlerInserted
  <2>4. QED BY <1>2, <2>1, <2>2, <2>3 DEF InsertMessage
<1>3. CASE PushCancelled(r) BY <1>3 DEF PushCancelled, NoPush
<1>4. CASE PushDropped(r) BY <1>4 DEF PushDropped, NoPush
<1>5. QED BY <1>1, <1>2, <1>3, <1>4 DEF PushStep

LEMMA CrashTypes == ASSUME TypeOK, Crash PROVE TypeOK'
<1> USE DEF TypeOK
<1>1. CASE EngineRestart
  BY <1>1 DEF EngineRestart, NoPull, NoPush, PullRequest, PushRequest
<1>2. CASE \E d \in Devices : AppCrash(d) BY <1>2 DEF AppCrash, NoClient, Client
<1>3. QED BY <1>1, <1>2 DEF Crash

\* Every reachable state is well typed: no status outside the CHECK constraint of the
\* messages table, no request slot in a state the handlers do not have.
THEOREM TypeCorrect == Spec => []TypeOK
<1>1. TypeOK /\ [Next]_vars => TypeOK'
  <2> SUFFICES ASSUME TypeOK, [Next]_vars PROVE TypeOK' OBVIOUS
  <2>1. CASE UNCHANGED vars BY <2>1 DEF vars, TypeOK
  <2>2. CASE Next
    BY <2>2, UserTypes, ClientTypes, PullTypes, PushTypes, CrashTypes DEF Next
  <2>3. QED BY <2>1, <2>2
<1>2. QED BY TypeInit, <1>1, PTL DEF Spec

----------------------------------------------------------------------------
(* Where a message can be *)

LEMMA PlaceInit == Init => PlaceInv
BY SyncAssumption DEF Init, PlaceInv, NoStrays, PullsAddressed, PushesOwn, SenderKeeps,
       NoClient, NoPull, NoPush

LEMMA PlaceUser == ASSUME TypeOK, PlaceInv, UserStep PROVE PlaceInv'
<1> USE PartiesAssumption, SyncAssumption
        DEF TypeOK, PlaceInv, NoStrays, PullsAddressed, PushesOwn, SenderKeeps
<1>1. ASSUME NEW m \in Msgs, WebSend(m) PROVE PlaceInv' BY <1>1 DEF WebSend
<1>2. ASSUME NEW m \in Msgs, MarkAsRead(m) PROVE PlaceInv' BY <1>2 DEF MarkAsRead
<1>3. ASSUME NEW r \in Runs, SyncButton(r) PROVE PlaceInv'
  BY <1>3 DEF SyncButton, ClientGoes, Client
<1>4. ASSUME NEW r \in Runs, NEW m \in Msgs, SendMessage(r, m) PROVE PlaceInv'
  BY <1>4 DEF SendMessage, ClientGoes, Client
<1>5. QED BY <1>1, <1>2, <1>3, <1>4 DEF UserStep

LEMMA PlaceClient == ASSUME TypeOK, PlaceInv, NEW r \in Runs, ClientStep(r) PROVE PlaceInv'
<1> USE PartiesAssumption, SyncAssumption
        DEF TypeOK, PlaceInv, NoStrays, PullsAddressed, PushesOwn, SenderKeeps,
            ClientGoes, AfterPull, AfterPush, Client
<1>1. CASE PerformSync(r)
  <2>1. UNCHANGED <<srv, local, out>> BY <1>1 DEF PerformSync
  <2>2. \A i \in Runs : cl'[i] = cl[i] \/ cl'[i].pc \in {"idle", "pull"} BY <1>1 DEF PerformSync
  <2>3. \A i \in Runs : inq'[i] = inq[i] \/ inq'[i].batch \cup inq'[i].todo = {}
    BY <1>1 DEF PerformSync
  <2>4. NoStrays' /\ SenderKeeps' BY <2>1
  <2> HIDE DEF TypeOK, PlaceInv, ClientGoes, AfterPull, AfterPush, Client
  <2>5. PullsAddressed' BY <2>1, <2>2, <2>3 DEF PlaceInv
  <2>6. PushesOwn' BY <2>1, <2>2 DEF PlaceInv
  <2>7. QED BY <2>4, <2>5, <2>6 DEF PlaceInv
<1>2. CASE PullAnswered(r) BY <1>2 DEF PullAnswered, NoPull
<1>3. CASE PullTimesOut(r) BY <1>3 DEF PullTimesOut
<1>4. CASE StoreMessage(r) BY <1>4, FirstSubset DEF StoreMessage
<1>5. CASE ReadPending(r)
  <2> DEFINE sent == Unsynced(DeviceOf[r])
  <2>1. UNCHANGED <<srv, local, inq>> BY <1>5 DEF ReadPending
  <2>2. \A m \in sent : From[m] = DeviceOf[r] /\ local[DeviceOf[r]][m] # "absent"
    BY DEF Unsynced
  <2>3. PICK pc \in {"idle", "push"} : ClientGoes(r, pc, sent)
    BY <1>5 DEF ReadPending
  <2>4. \A i \in Runs : out'[i].todo \subseteq out[i].todo \/ (i = r /\ out'[i].todo = sent)
    BY <1>5 DEF ReadPending
  <2> HIDE DEF sent
  <2>5. NoStrays' /\ SenderKeeps' BY <2>1
  <2>6. PullsAddressed' BY <2>1, <2>3
  <2>7. PushesOwn' BY <2>1, <2>2, <2>3, <2>4
  <2>8. QED BY <2>5, <2>6, <2>7
<1>6. CASE PushAnswered(r) BY <1>6 DEF PushAnswered, Taken, NoPush
<1>7. CASE PushTimesOut(r) BY <1>7 DEF PushTimesOut
<1>8. CASE Acknowledge(r) BY <1>8, FirstSubset DEF Acknowledge
<1>9. CASE PhoneDbFails(r)
  <2>1. UNCHANGED <<srv, local, inq, out>> BY <1>9 DEF PhoneDbFails
  <2>2. PICK pc \in {"read", "idle"} : ClientGoes(r, pc, {}) BY <1>9 DEF PhoneDbFails
  <2>3. QED BY <2>1, <2>2
<1>10. QED
  BY <1>1, <1>2, <1>3, <1>4, <1>5, <1>6, <1>7, <1>8, <1>9 DEF ClientStep

LEMMA PlacePull == ASSUME TypeOK, PlaceInv, NEW r \in Runs, PullStep(r) PROVE PlaceInv'
<1> USE PartiesAssumption, SyncAssumption
        DEF TypeOK, PlaceInv, NoStrays, PullsAddressed, PushesOwn, SenderKeeps, HandlerHas
<1>1. CASE SelectPending(r) BY <1>1 DEF SelectPending, Batches, Pending
<1>2. CASE MarkSynced(r) BY <1>2, FirstSubset DEF MarkSynced
<1>3. CASE PullFails(r) BY <1>3 DEF PullFails
<1>4. CASE PullDropped(r) BY <1>4 DEF PullDropped, NoPull
<1>5. QED BY <1>1, <1>2, <1>3, <1>4 DEF PullStep

LEMMA PlacePush == ASSUME TypeOK, PlaceInv, NEW r \in Runs, PushStep(r) PROVE PlaceInv'
<1> USE PartiesAssumption, SyncAssumption
        DEF TypeOK, PlaceInv, NoStrays, PullsAddressed, PushesOwn, SenderKeeps
<1>1. CASE DecodeUpload(r) BY <1>1 DEF DecodeUpload
<1>2. CASE InsertMessage(r)
  <2>1. PICK m \in out[r].todo :
          \/ srv' = [srv EXCEPT ![m] = "pending_sync"] /\ HandlerInserted(r, m, 1)
          \/ UNCHANGED srv /\ HandlerInserted(r, m, 0)
    BY <1>2, FirstSubset DEF InsertMessage
  <2>2. m \in Msgs /\ From[m] = DeviceOf[r] /\ local[DeviceOf[r]][m] # "absent"
    BY <2>1 DEF PushRequest
  <2>3. UNCHANGED <<local, cl, inq>> BY <1>2 DEF InsertMessage
  <2>4. \A k \in Msgs : srv'[k] = srv[k] \/ (k = m /\ srv'[k] = "pending_sync")
    BY <2>1, <2>2
  <2>5. \A i \in Runs : out'[i].todo \subseteq out[i].todo
    <3>1. \A count \in {0, 1} :
            HandlerInserted(r, m, count) => out'[r].todo = out[r].todo \ {m}
      BY DEF HandlerInserted
    <3>2. \A count \in {0, 1} :
            HandlerInserted(r, m, count) => \A i \in Runs \ {r} : out'[i] = out[i]
      BY DEF HandlerInserted
    <3>3. QED BY <2>1, <3>1, <3>2
  <2>6. NoStrays' BY <2>3, <2>4
  <2>7. PullsAddressed' BY <2>3, <2>4
  <2>8. PushesOwn' BY <2>3, <2>5
  <2>9. SenderKeeps' BY <2>2, <2>3, <2>4
  <2>10. QED BY <2>6, <2>7, <2>8, <2>9
<1>3. CASE PushCancelled(r) BY <1>3 DEF PushCancelled, NoPush
<1>4. CASE PushDropped(r) BY <1>4 DEF PushDropped, NoPush
<1>5. QED BY <1>1, <1>2, <1>3, <1>4 DEF PushStep

LEMMA PlaceCrash == ASSUME TypeOK, PlaceInv, Crash PROVE PlaceInv'
<1> USE DEF TypeOK, PlaceInv, NoStrays, PullsAddressed, PushesOwn, SenderKeeps
<1>1. CASE EngineRestart BY <1>1 DEF EngineRestart, NoPull, NoPush
<1>2. CASE \E d \in Devices : AppCrash(d) BY <1>2 DEF AppCrash, NoClient
<1>3. QED BY <1>1, <1>2 DEF Crash

LEMMA PlaceInvariant == Spec => []PlaceInv
<1>1. TypeOK /\ PlaceInv /\ [Next]_vars => PlaceInv'
  <2> SUFFICES ASSUME TypeOK, PlaceInv, [Next]_vars PROVE PlaceInv' OBVIOUS
  <2>1. CASE UNCHANGED vars
    BY <2>1 DEF vars, PlaceInv, NoStrays, PullsAddressed, PushesOwn, SenderKeeps
  <2>2. CASE Next
    BY <2>2, PlaceUser, PlaceClient, PlacePull, PlacePush, PlaceCrash DEF Next
  <2>3. QED BY <2>1, <2>2
<1>2. QED BY PlaceInit, <1>1, TypeCorrect, PTL DEF Spec

\* Whatever fails, no phone ever holds a message of a conversation that is not its own, or
\* queues a foreign message for upload (GetPendingMessagesForDevice, insertMessage).
THEOREM NoStraysHold == Spec => []NoStrays
<1>1. PlaceInv => NoStrays BY DEF PlaceInv
<1>2. QED BY PlaceInvariant, <1>1, PTL

----------------------------------------------------------------------------
(* The backend's status only moves on *)

\* Whatever is lost, repeated or restarted, no step makes a synced or read message pending
\* again: CreateMessage inserts or fails, UpdateMessageStatus writes "synced" or "read".
THEOREM NeverRequeuedHolds == Spec => NeverRequeued
<1> DEFINE Keeps == \A m \in Msgs : srv[m] \in {"synced", "read"} => srv'[m] \in {"synced", "read"}
<1>1. TypeOK /\ [Next]_vars => [Keeps]_vars
  <2> SUFFICES ASSUME TypeOK, Next PROVE Keeps OBVIOUS
  <2> USE DEF TypeOK
  <2>1. CASE UserStep
    BY <2>1 DEF UserStep, WebSend, MarkAsRead, SyncButton, SendMessage
  <2>2. ASSUME NEW r \in Runs, ClientStep(r) PROVE Keeps
    BY <2>2 DEF ClientStep, PerformSync, PullAnswered, PullTimesOut, StoreMessage,
                ReadPending, PushAnswered, PushTimesOut, Acknowledge, PhoneDbFails
  <2>3. ASSUME NEW r \in Runs, PullStep(r) PROVE Keeps
    BY <2>3 DEF PullStep, SelectPending, MarkSynced, PullFails, PullDropped
  <2>4. ASSUME NEW r \in Runs, PushStep(r) PROVE Keeps
    BY <2>4 DEF PushStep, DecodeUpload, InsertMessage, PushCancelled, PushDropped
  <2>5. CASE Crash BY <2>5 DEF Crash, EngineRestart, AppCrash
  <2>6. QED BY <2>1, <2>2, <2>3, <2>4, <2>5 DEF Next
<1>2. QED BY <1>1, TypeCorrect, PTL DEF Spec, NeverRequeued

\* No step takes a message off the backend.
LEMMA ServerKeeps ==
  ASSUME TypeOK, [Next]_vars
  PROVE  \A m \in Msgs : srv[m] # "absent" => srv'[m] # "absent"
<1> DEFINE Keeps == \A m \in Msgs : srv[m] # "absent" => srv'[m] # "absent"
<1> USE DEF TypeOK
<1>1. CASE UserStep
  BY <1>1 DEF UserStep, WebSend, MarkAsRead, SyncButton, SendMessage
<1>2. ASSUME NEW r \in Runs, ClientStep(r) PROVE Keeps
  BY <1>2 DEF ClientStep, PerformSync, PullAnswered, PullTimesOut, StoreMessage,
              ReadPending, PushAnswered, PushTimesOut, Acknowledge, PhoneDbFails
<1>3. ASSUME NEW r \in Runs, PullStep(r) PROVE Keeps
  BY <1>3 DEF PullStep, SelectPending, MarkSynced, PullFails, PullDropped
<1>4. ASSUME NEW r \in Runs, PushStep(r) PROVE Keeps
  BY <1>4 DEF PushStep, DecodeUpload, InsertMessage, PushCancelled, PushDropped
<1>5. CASE Crash BY <1>5 DEF Crash, EngineRestart, AppCrash
<1>6. CASE UNCHANGED vars BY <1>6 DEF vars
<1>7. QED BY <1>1, <1>2, <1>3, <1>4, <1>5, <1>6 DEF Next

----------------------------------------------------------------------------
(* What a phone counts as synced is stored, as long as no INSERT fails in passing *)

LEMMA AckInit == Init => AckInv
BY SyncAssumption DEF Init, AckInv, AckedIsStored, UploadCovers, AcksStored, NoClient

\* AckInv depends only on what the backend keeps, the phones, the clients and the uploads
\* that are still under way.
LEMMA AckFrame ==
  ASSUME TypeOK, AckInv,
         \A m \in Msgs : srv[m] # "absent" => srv'[m] # "absent",
         \A m \in Msgs, d \in Devices :
           local'[d][m] = "synced" => local[d][m] = "synced",
         \A i \in Runs : cl'[i] = cl[i] \/ cl'[i].pc \in {"idle", "begin", "pull"},
         \A i \in Runs : out'[i] = out[i] \/ out'[i].pc \in {"none", "err"}
  PROVE  AckInv'
<1>1. AckedIsStored' BY PartiesAssumption DEF AckInv, AckedIsStored
<1>2. UploadCovers' BY DEF AckInv, UploadCovers, TypeOK, Client
<1>3. AcksStored' BY DEF AckInv, AcksStored, TypeOK, Client
<1>4. QED BY <1>1, <1>2, <1>3 DEF AckInv

LEMMA AckClient ==
  ASSUME TypeOK, PlaceInv, AckInv, NEW r \in Runs, ClientStep(r)
  PROVE  AckInv'
<1> USE SyncAssumption, PartiesAssumption
        DEF TypeOK, AckInv, AckedIsStored, UploadCovers, AcksStored,
            ClientGoes, AfterPull, AfterPush, Client
<1>1. CASE PerformSync(r)
  <2>1. UNCHANGED <<srv, local, out>> BY <1>1 DEF PerformSync
  <2>2. \A i \in Runs : cl'[i] = cl[i] \/ cl'[i].pc \in {"idle", "pull"}
    BY <1>1 DEF PerformSync
  <2>3. QED BY <2>1, <2>2, AckFrame
<1>2. CASE PullAnswered(r) BY <1>2 DEF PullAnswered
<1>3. CASE PullTimesOut(r) BY <1>3 DEF PullTimesOut
<1>4. CASE StoreMessage(r)
  BY <1>4, FirstSubset DEF StoreMessage, PlaceInv, PullsAddressed
<1>5. CASE ReadPending(r)
  <2> DEFINE sent == Unsynced(DeviceOf[r])
  <2>1. UNCHANGED <<srv, local>> BY <1>5 DEF ReadPending
  <2>2. CASE sent = {}
    BY <1>5, <2>1, <2>2, AckFrame DEF ReadPending
  <2>3. CASE sent # {}
    <3>1. ClientGoes(r, "push", sent) BY <1>5, <2>3 DEF ReadPending
    <3>2. out' = [out EXCEPT ![r] = [pc |-> "req", todo |-> sent, n |-> 0]]
      BY <1>5, <2>3 DEF ReadPending
    <3> HIDE DEF sent
    <3>3. UploadCovers' BY <2>1, <3>1, <3>2
    <3>4. AckedIsStored' /\ AcksStored' BY <2>1, <3>1
    <3>5. QED BY <3>3, <3>4
  <2>4. QED BY <2>2, <2>3
<1>6. CASE PushAnswered(r) BY <1>6 DEF PushAnswered, Taken, NoPush
<1>7. CASE PushTimesOut(r) BY <1>7 DEF PushTimesOut
<1>8. CASE Acknowledge(r) BY <1>8, FirstSubset DEF Acknowledge
<1>9. CASE PhoneDbFails(r)
  <2>1. UNCHANGED <<srv, local, out>> BY <1>9 DEF PhoneDbFails
  <2>2. PICK pc \in {"read", "idle"} : ClientGoes(r, pc, {}) BY <1>9 DEF PhoneDbFails
  <2>3. QED BY <2>1, <2>2
<1>10. QED
  BY <1>1, <1>2, <1>3, <1>4, <1>5, <1>6, <1>7, <1>8, <1>9 DEF ClientStep

LEMMA AckUser == ASSUME TypeOK, AckInv, UserStep PROVE AckInv'
<1> USE SyncAssumption DEF TypeOK
<1>1. \A m \in Msgs : srv[m] # "absent" => srv'[m] # "absent"
  BY ServerKeeps DEF Next
<1>2. ASSUME NEW m \in Msgs, WebSend(m) \/ MarkAsRead(m) PROVE AckInv'
  <2>1. UNCHANGED <<local, cl, out>> BY <1>2 DEF WebSend, MarkAsRead
  <2>2. QED BY <1>1, <2>1, AckFrame
<1>3. ASSUME NEW r \in Runs, SyncButton(r) PROVE AckInv'
  <2>1. UNCHANGED <<local, out>> BY <1>3 DEF SyncButton
  <2>2. \A i \in Runs : cl'[i] = cl[i] \/ cl'[i].pc = "begin"
    BY <1>3 DEF SyncButton, ClientGoes
  <2>3. QED BY <1>1, <2>1, <2>2, AckFrame
<1>4. ASSUME NEW r \in Runs, NEW m \in Msgs, SendMessage(r, m) PROVE AckInv'
  <2>1. UNCHANGED out BY <1>4 DEF SendMessage
  <2>2. \A i \in Runs : cl'[i] = cl[i] \/ cl'[i].pc = "begin"
    BY <1>4 DEF SendMessage, ClientGoes
  <2>3. \A k \in Msgs, d \in Devices : local'[d][k] = "synced" => local[d][k] = "synced"
    BY <1>4 DEF SendMessage
  <2>4. QED BY <1>1, <2>1, <2>2, <2>3, AckFrame
<1>5. QED BY <1>2, <1>3, <1>4 DEF UserStep

LEMMA AckCrash == ASSUME TypeOK, AckInv, Crash PROVE AckInv'
<1> USE DEF TypeOK, Crash, EngineRestart, AppCrash, NoClient, NoPush
<1>1. UNCHANGED <<srv, local>> OBVIOUS
<1>2. \A i \in Runs : cl'[i] = cl[i] \/ cl'[i].pc = "idle" OBVIOUS
<1>3. \A i \in Runs : out'[i] = out[i] \/ out'[i].pc \in {"none", "err"} OBVIOUS
<1>4. QED BY <1>1, <1>2, <1>3, AckFrame

LEMMA AckPull == ASSUME TypeOK, AckInv, NEW r \in Runs, PullStep(r) PROVE AckInv'
<1>1. \A m \in Msgs : srv[m] # "absent" => srv'[m] # "absent"
  BY ServerKeeps DEF Next
<1>2. UNCHANGED <<local, cl, out>>
  BY DEF PullStep, SelectPending, MarkSynced, PullFails, PullDropped
<1>3. QED BY <1>1, <1>2, AckFrame

LEMMA AckPush ==
  ASSUME TypeOK, AckInv, "insert" \notin Faults, NEW r \in Runs, PushStep(r)
  PROVE  AckInv'
<1> USE DEF TypeOK
<1>1. CASE DecodeUpload(r)
  BY <1>1 DEF DecodeUpload, AckInv, AckedIsStored, UploadCovers, AcksStored
<1>2. CASE InsertMessage(r)
  <2>1. PICK m \in out[r].todo, count \in {0, 1} :
          HandlerInserted(r, m, count) /\ srv'[m] # "absent"
    BY <1>2, FirstSubset DEF InsertMessage, PushRequest
  <2>2. \A k \in Msgs : srv[k] # "absent" => srv'[k] # "absent"
    BY <1>2, ServerKeeps DEF Next, PushStep
  <2>3. UNCHANGED <<local, cl>> BY <1>2 DEF InsertMessage
  <2>4. /\ out'[r].todo = out[r].todo \ {m}
        /\ out'[r].pc = IF out[r].todo \ {m} = {} THEN "done" ELSE "insert"
    BY <2>1 DEF HandlerInserted
  <2>5. \A i \in Runs \ {r} : out'[i] = out[i]
    BY <2>1 DEF HandlerInserted
  <2>6. UploadCovers'
    BY <1>2, <2>1, <2>2, <2>3, <2>4, <2>5
       DEF InsertMessage, AckInv, UploadCovers, Client
  <2>7. AckedIsStored' /\ AcksStored'
    BY <2>2, <2>3, PartiesAssumption DEF AckInv, AckedIsStored, AcksStored, Client
  <2>8. QED BY <2>6, <2>7 DEF AckInv
<1>3. CASE PushCancelled(r) \/ PushDropped(r)
  <2>1. UNCHANGED <<srv, local, cl>> BY <1>3 DEF PushCancelled, PushDropped
  <2>2. \A i \in Runs : out'[i] = out[i] \/ out'[i].pc = "none"
    BY <1>3 DEF PushCancelled, PushDropped, NoPush
  <2>3. QED BY <2>1, <2>2, AckFrame
<1>4. QED BY <1>1, <1>2, <1>3 DEF PushStep

LEMMA AckInvariant == ASSUME "insert" \notin Faults PROVE Spec => []AckInv
<1>1. TypeOK /\ PlaceInv /\ AckInv /\ [Next]_vars => AckInv'
  <2> SUFFICES ASSUME TypeOK, PlaceInv, AckInv, [Next]_vars PROVE AckInv' OBVIOUS
  <2>1. CASE UNCHANGED vars
    BY <2>1 DEF vars, AckInv, AckedIsStored, UploadCovers, AcksStored
  <2>2. CASE Next BY <2>2, AckUser, AckClient, AckPull, AckPush, AckCrash DEF Next
  <2>3. QED BY <2>1, <2>2
<1>2. QED BY AckInit, <1>1, TypeCorrect, PlaceInvariant, PTL DEF Spec

\* However many syncs of a phone overlap, time out, die or are repeated, a message the
\* phone counts as synced is on the backend, provided that an INSERT fails for duplicates
\* only: then take(syncedCount) cannot reach a message that was not stored.
THEOREM AckedIsStoredHolds == ASSUME "insert" \notin Faults PROVE Spec => []AckedIsStored
<1>1. AckInv => AckedIsStored BY DEF AckInv
<1>2. QED BY AckInvariant, <1>1, PTL

----------------------------------------------------------------------------
(* With nothing failing but INSERTs of replies, what is marked as synced arrives *)

LEMMA HeldInit == Init => HeldInv
BY DEF Init, HeldInv, SyncedIsHeld, PullsAttended, NoClient, NoPull

\* Steps that touch neither a pull nor a message on its way into a phone's database.
LEMMA HeldFrame ==
  ASSUME TypeOK, HeldInv,
         \A m \in Msgs : srv'[m] = "synced" => srv[m] = "synced",
         \A m \in Msgs, d \in Devices :
           local[d][m] = "synced" => local'[d][m] = "synced",
         UNCHANGED inq,
         \A i \in Runs : \/ cl'[i] = cl[i]
                         \/ cl[i].pc \notin {"pull", "store"} /\ cl'[i].pc # "pull"
  PROVE  HeldInv'
<1>1. PullsAttended' BY DEF HeldInv, PullsAttended
<1>2. ASSUME NEW m \in Msgs, To[m] \in Devices, srv'[m] = "synced"
      PROVE  local'[To[m]][m] = "synced" \/ \E r \in Runs : Carries(r, m)'
  <2>1. CASE local[To[m]][m] = "synced" BY <1>2, <2>1
  <2>2. ASSUME NEW r \in Runs, Carries(r, m) PROVE Carries(r, m)'
    BY <2>2 DEF Carries
  <2>3. QED BY <1>2, <2>1, <2>2 DEF HeldInv, SyncedIsHeld
<1>3. QED BY <1>1, <1>2 DEF HeldInv, SyncedIsHeld

LEMMA HeldUser == ASSUME TypeOK, HeldInv, UserStep PROVE HeldInv'
<1> USE SyncAssumption DEF TypeOK
<1>1. ASSUME NEW m \in Msgs, WebSend(m) \/ MarkAsRead(m) PROVE HeldInv'
  <2>1. UNCHANGED <<local, cl, inq>> BY <1>1 DEF WebSend, MarkAsRead
  <2>2. \A k \in Msgs : srv'[k] = "synced" => srv[k] = "synced"
    BY <1>1 DEF WebSend, MarkAsRead
  <2>3. QED BY <2>1, <2>2, HeldFrame
<1>2. ASSUME NEW r \in Runs, SyncButton(r) PROVE HeldInv'
  <2>1. UNCHANGED <<srv, local, inq>> BY <1>2 DEF SyncButton
  <2>2. cl[r].pc = "idle" /\ cl' = [cl EXCEPT ![r] = [pc |-> "begin", todo |-> {}]]
    BY <1>2 DEF SyncButton, Free, NoClient, ClientGoes
  <2>3. QED BY <2>1, <2>2, HeldFrame
<1>3. ASSUME NEW r \in Runs, NEW m \in Msgs, SendMessage(r, m) PROVE HeldInv'
  <2>1. UNCHANGED <<srv, inq>> BY <1>3 DEF SendMessage
  <2>2. cl[r].pc = "idle" /\ cl' = [cl EXCEPT ![r] = [pc |-> "begin", todo |-> {}]]
    BY <1>3 DEF SendMessage, Free, NoClient, ClientGoes
  <2>3. \A k \in Msgs, d \in Devices : local[d][k] = "synced" => local'[d][k] = "synced"
    BY <1>3 DEF SendMessage
  <2>4. QED BY <2>1, <2>2, <2>3, HeldFrame
<1>4. QED BY <1>1, <1>2, <1>3 DEF UserStep

\* The client's part of the pull.
LEMMA HeldReceive ==
  ASSUME TypeOK, PlaceInv, HeldInv, NEW r \in Runs,
         Faults \subseteq {"offline", "insert"},
         PerformSync(r) \/ PullAnswered(r) \/ PullTimesOut(r) \/ StoreMessage(r)
  PROVE  HeldInv'
<1> USE SyncAssumption DEF TypeOK
<1>1. CASE PerformSync(r)
  <2>1. UNCHANGED <<srv, local>> /\ cl[r].pc = "begin" BY <1>1 DEF PerformSync
  <2>2. \A i \in Runs \ {r} : cl'[i] = cl[i] /\ inq'[i] = inq[i]
    BY <1>1 DEF PerformSync, ClientGoes
  <2>3. \/ cl'[r].pc = "pull" /\ inq'[r] = [pc |-> "req", batch |-> {}, todo |-> {}]
        \/ cl'[r].pc = "idle" /\ inq'[r] = inq[r]
    <3>1. CASE ClientGoes(r, "idle", {}) /\ UNCHANGED inq BY <3>1 DEF ClientGoes
    <3>2. CASE /\ ClientGoes(r, "pull", {})
               /\ inq' = [inq EXCEPT ![r] = [pc |-> "req", batch |-> {}, todo |-> {}]]
      BY <3>2 DEF ClientGoes
    <3>3. QED BY <1>1, <3>1, <3>2 DEF PerformSync
  <2>4. PullsAttended' BY <2>1, <2>2, <2>3 DEF HeldInv, PullsAttended
  <2>5. \A m \in Msgs, i \in Runs : Carries(i, m) => Carries(i, m)'
    BY <2>1, <2>2 DEF Carries
  <2>6. QED BY <2>1, <2>4, <2>5 DEF HeldInv, SyncedIsHeld
<1>2. CASE PullAnswered(r)
  <2>1. inq[r].pc = "done" /\ cl[r].pc = "pull" BY <1>2 DEF PullAnswered, HeldInv, PullsAttended
  <2>2. /\ UNCHANGED <<srv, local>> /\ inq' = [inq EXCEPT ![r] = NoPull]
        /\ AfterPull(r, inq[r].batch)
    BY <1>2, <2>1 DEF PullAnswered
  <2>3. PullsAttended'
    BY <2>1, <2>2 DEF HeldInv, PullsAttended, AfterPull, ClientGoes, NoPull
  <2>4. \A m \in Msgs, i \in Runs : Carries(i, m) => Carries(i, m)'
    BY <2>1, <2>2 DEF Carries, AfterPull, ClientGoes
  <2>5. QED BY <2>2, <2>3, <2>4 DEF HeldInv, SyncedIsHeld
<1>3. CASE PullTimesOut(r)
  BY <1>3 DEF PullTimesOut, NoPull, HeldInv, PullsAttended
<1>4. CASE StoreMessage(r)
  <2>1. PICK k \in cl[r].todo : /\ local' = [local EXCEPT ![DeviceOf[r]][k] = "synced"]
                                /\ AfterPull(r, cl[r].todo \ {k})
    BY <1>4, FirstSubset DEF StoreMessage
  <2>2. cl[r].pc = "store" /\ k \in Msgs /\ UNCHANGED <<srv, inq>>
    BY <1>4, <2>1 DEF StoreMessage, Client
  <2>3. PullsAttended'
    BY <2>1, <2>2 DEF HeldInv, PullsAttended, AfterPull, ClientGoes
  <2>4. \A m \in Msgs, i \in Runs : Carries(i, m) => Carries(i, m)' \/ (i = r /\ m = k)
    BY <2>1, <2>2 DEF Carries, AfterPull, ClientGoes
  <2>5. \A m \in Msgs, d \in Devices : local[d][m] = "synced" => local'[d][m] = "synced"
    BY <2>1
  <2>6. local'[DeviceOf[r]][k] = "synced" /\ To[k] = DeviceOf[r]
    BY <2>1, <2>2 DEF PlaceInv, PullsAddressed
  <2>7. QED BY <2>2, <2>3, <2>4, <2>5, <2>6 DEF HeldInv, SyncedIsHeld
<1>5. QED BY <1>1, <1>2, <1>3, <1>4

LEMMA HeldUpload ==
  ASSUME TypeOK, HeldInv, NEW r \in Runs,
         \/ ReadPending(r) \/ PushAnswered(r) \/ PushTimesOut(r) \/ Acknowledge(r)
         \/ PushStep(r)
  PROVE  HeldInv'
<1> USE SyncAssumption DEF TypeOK
<1>1. CASE PushStep(r)
  <2>1. UNCHANGED <<local, cl, inq>>
    BY <1>1 DEF PushStep, DecodeUpload, InsertMessage, PushCancelled, PushDropped
  <2>2. \A m \in Msgs : srv'[m] = "synced" => srv[m] = "synced"
    BY <1>1, FirstSubset DEF PushStep, DecodeUpload, InsertMessage, PushCancelled, PushDropped
  <2>3. QED BY <2>1, <2>2, HeldFrame
<1>2. CASE ReadPending(r) \/ PushAnswered(r) \/ PushTimesOut(r) \/ Acknowledge(r)
  <2>1. UNCHANGED <<srv, inq>>
    BY <1>2 DEF ReadPending, PushAnswered, PushTimesOut, Acknowledge
  <2>2. \A m \in Msgs, d \in Devices : local[d][m] = "synced" => local'[d][m] = "synced"
    <3>1. CASE Acknowledge(r) BY <3>1, FirstSubset DEF Acknowledge
    <3>2. CASE UNCHANGED local BY <3>2
    <3>3. QED BY <1>2, <3>1, <3>2 DEF ReadPending, PushAnswered, PushTimesOut
  <2>3. cl[r].pc \notin {"pull", "store"}
    BY <1>2 DEF ReadPending, PushAnswered, PushTimesOut, Acknowledge
  <2>4. PICK pc \in {"idle", "push", "ack"} : \E S : ClientGoes(r, pc, S)
    BY <1>2 DEF ReadPending, PushAnswered, PushTimesOut, Acknowledge, AfterPush
  <2>5. PICK S : ClientGoes(r, pc, S) BY <2>4
  <2>6. QED BY <2>1, <2>2, <2>3, <2>5, HeldFrame DEF ClientGoes
<1>3. QED BY <1>1, <1>2

LEMMA HeldPull ==
  ASSUME TypeOK, PlaceInv, HeldInv, NEW r \in Runs, PullStep(r),
         Faults \subseteq {"offline", "insert"}
  PROVE  HeldInv'
<1> USE DEF TypeOK
<1>1. CASE SelectPending(r)
  <2>1. PICK B : HandlerHas(r, B, B) BY <1>1 DEF SelectPending
  <2>2. UNCHANGED <<srv, local, cl>> /\ inq[r].pc = "req" BY <1>1 DEF SelectPending
  <2>3. PullsAttended' BY <2>1, <2>2 DEF HeldInv, PullsAttended, HandlerHas
  <2>4. \A m \in Msgs, i \in Runs : Carries(i, m) => Carries(i, m)'
    BY <2>1, <2>2 DEF Carries, HandlerHas
  <2>5. QED BY <2>2, <2>3, <2>4 DEF HeldInv, SyncedIsHeld
<1>2. CASE MarkSynced(r)
  <2>1. PICK k \in inq[r].todo : /\ srv' = [srv EXCEPT ![k] = "synced"]
                                 /\ HandlerHas(r, inq[r].batch, inq[r].todo \ {k})
    BY <1>2, FirstSubset DEF MarkSynced
  <2>2. UNCHANGED <<local, cl>> /\ inq[r].pc = "mark" BY <1>2 DEF MarkSynced
  <2>3. PullsAttended' BY <2>1, <2>2 DEF HeldInv, PullsAttended, HandlerHas
  <2>4. \A m \in Msgs, i \in Runs : Carries(i, m) => Carries(i, m)'
    BY <2>1, <2>2 DEF Carries, HandlerHas
  <2>5. Carries(r, k)'
    <3>1. k \in Msgs /\ To[k] = DeviceOf[r]
      BY DEF PlaceInv, PullsAddressed, PullRequest
    <3>2. QED BY <2>1, <2>2, <3>1 DEF Carries, HandlerHas, HeldInv, PullsAttended
  <2>6. \A m \in Msgs : srv'[m] = "synced" => srv[m] = "synced" \/ m = k
    BY <2>1
  <2>7. QED BY <2>2, <2>3, <2>4, <2>5, <2>6 DEF HeldInv, SyncedIsHeld
<1>3. CASE PullFails(r) BY <1>3 DEF PullFails, HeldInv, PullsAttended
<1>4. CASE PullDropped(r) BY <1>4 DEF PullDropped, HeldInv, PullsAttended
<1>5. QED BY <1>1, <1>2, <1>3, <1>4 DEF PullStep

\* While requests, replies, the app and the engine survive, a message the backend calls
\* synced is in the addressee's database or on its way there, for any number of
\* overlapping syncs, web users that mark messages as read and messages beyond the limit.
THEOREM SyncedIsHeldHolds ==
  ASSUME Faults \subseteq {"offline", "insert"} PROVE Spec => []SyncedIsHeld
<1>1. TypeOK /\ PlaceInv /\ HeldInv /\ [Next]_vars => HeldInv'
  <2> SUFFICES ASSUME TypeOK, PlaceInv, HeldInv, [Next]_vars PROVE HeldInv' OBVIOUS
  <2>1. CASE UNCHANGED vars
    BY <2>1 DEF vars, HeldInv, SyncedIsHeld, PullsAttended, Carries
  <2>2. CASE \E r \in Runs : ClientStep(r) \/ PullStep(r) \/ PushStep(r)
    <3>1. \A r \in Runs : ~ PhoneDbFails(r) BY DEF PhoneDbFails
    <3>2. QED BY <2>2, <3>1, HeldReceive, HeldUpload, HeldPull DEF ClientStep
  <2>3. CASE Crash BY <2>3 DEF Crash, EngineRestart, AppCrash
  <2>4. QED BY <2>1, <2>2, <2>3, HeldUser DEF Next
<1>2. HeldInv => SyncedIsHeld BY DEF HeldInv
<1>3. QED BY HeldInit, <1>1, <1>2, TypeCorrect, PlaceInvariant, PTL DEF Spec

----------------------------------------------------------------------------
(* MessageSync implements the safety part of StoreAndForward *)

\* Membership in heldAt, place by place.
LEMMA HeldAtMeaning ==
  ASSUME NEW m \in Msgs
  PROVE  /\ "sender" \in heldAt[m] <=> From[m] \in Devices /\ local[From[m]][m] # "absent"
         /\ "server" \in heldAt[m] <=> srv[m] # "absent"
         /\ "recipient" \in heldAt[m] <=> To[m] \in Devices /\ local[To[m]][m] # "absent"
         /\ heldAt[m] \subseteq {"sender", "server", "recipient"}
BY DEF heldAt

\* A step that keeps who holds what is a stuttering step of the contract.
LEMMA ContractStutter ==
  ASSUME TypeOK,
         \A m \in Msgs : srv'[m] = "absent" <=> srv[m] = "absent",
         \A m \in Msgs, d \in Devices :
           /\ local'[d][m] = "absent" <=> local[d][m] = "absent"
           /\ d = From[m] => (local'[d][m] = "synced" <=> local[d][m] = "synced")
  PROVE  UNCHANGED <<heldAt, ackedOnPhone>>
<1>1. UNCHANGED heldAt BY DEF heldAt
<1>2. UNCHANGED ackedOnPhone BY DEF ackedOnPhone
<1>3. QED BY <1>1, <1>2

\* A step that adds one place to one message, seen through heldAt.
LEMMA HeldAtGrows ==
  ASSUME NEW m \in Msgs, NEW places,
         \A k \in Msgs \ {m} : heldAt'[k] = heldAt[k],
         heldAt'[m] = places
  PROVE  heldAt' = [heldAt EXCEPT ![m] = places]
BY DEF heldAt

\* Nobody holds a message that its author and the backend do not have.
LEMMA NotWritten ==
  ASSUME PlaceInv, NEW m \in Msgs, srv[m] = "absent",
         From[m] \in Devices => local[From[m]][m] = "absent"
  PROVE  heldAt[m] = {}
<1>1. "recipient" \notin heldAt[m] BY HeldAtMeaning DEF PlaceInv, NoStrays
<1>2. "sender" \notin heldAt[m] /\ "server" \notin heldAt[m] BY HeldAtMeaning
<1>3. heldAt[m] \subseteq {"sender", "server", "recipient"} BY HeldAtMeaning
<1>4. QED BY <1>1, <1>2, <1>3

LEMMA ContractUser ==
  ASSUME TypeOK, PlaceInv, UserStep PROVE [Contract!Next]_<<heldAt, ackedOnPhone>>
<1> USE PartiesAssumption, SyncAssumption DEF TypeOK
<1>1. ASSUME NEW m \in Msgs, WebSend(m) PROVE Contract!Write(m)
  <2>1. UNCHANGED local /\ srv[m] = "absent" /\ srv' = [srv EXCEPT ![m] = "pending_sync"]
        /\ From[m] \notin Devices
    BY <1>1 DEF WebSend
  <2>2. heldAt[m] = {} BY <2>1, NotWritten
  <2>3. heldAt' = [heldAt EXCEPT ![m] = {"server"}]
    <3>1. \A k \in Msgs \ {m} : heldAt'[k] = heldAt[k] BY <2>1 DEF heldAt
    <3>2. heldAt'[m] = {"server"} BY <2>1, <2>2 DEF heldAt
    <3>3. QED BY <3>1, <3>2, HeldAtGrows
  <2>4. UNCHANGED ackedOnPhone BY <2>1 DEF ackedOnPhone
  <2>5. QED BY <2>1, <2>2, <2>3, <2>4 DEF Contract!Write
<1>2. ASSUME NEW m \in Msgs, MarkAsRead(m) PROVE UNCHANGED <<heldAt, ackedOnPhone>>
  BY <1>2, ContractStutter DEF MarkAsRead
<1>3. ASSUME NEW r \in Runs, SyncButton(r) PROVE UNCHANGED <<heldAt, ackedOnPhone>>
  BY <1>3, ContractStutter DEF SyncButton
<1>4. ASSUME NEW r \in Runs, NEW m \in Msgs, SendMessage(r, m) PROVE Contract!Write(m)
  <2>1. /\ UNCHANGED srv /\ From[m] = DeviceOf[r] /\ local[From[m]][m] = "absent"
        /\ local' = [local EXCEPT ![From[m]][m] = "pending_sync"]
    BY <1>4 DEF SendMessage
  <2>2. srv[m] = "absent" /\ heldAt[m] = {}
    <3>1. From[m] \in Devices BY <2>1
    <3>2. srv[m] = "absent" BY <2>1, <3>1 DEF PlaceInv, SenderKeeps
    <3>3. QED BY <2>1, <3>2, NotWritten
  <2>3. \A k \in Msgs, d \in Devices :
          local'[d][k] = IF d = From[m] /\ k = m THEN "pending_sync" ELSE local[d][k]
    BY <2>1
  <2>4. heldAt' = [heldAt EXCEPT ![m] = {"sender"}]
    <3>1. \A k \in Msgs \ {m} : heldAt'[k] = heldAt[k] BY <2>1, <2>3 DEF heldAt
    <3>2. From[m] \in Devices /\ local'[From[m]][m] # "absent" BY <2>1, <2>3
    <3>3. srv'[m] = "absent" BY <2>1, <2>2
    <3>4. To[m] \in Devices => local'[To[m]][m] = "absent"
      BY <2>2, <2>3 DEF PlaceInv, NoStrays
    <3>5. heldAt'[m] = {"sender"} BY <3>2, <3>3, <3>4 DEF heldAt
    <3>6. QED BY <3>1, <3>5, HeldAtGrows
  <2>5. UNCHANGED ackedOnPhone BY <2>1, <2>3 DEF ackedOnPhone
  <2>6. From[m] \in Devices BY <2>1
  <2>7. QED BY <2>2, <2>4, <2>5, <2>6 DEF Contract!Write
<1>5. QED BY <1>1, <1>2, <1>3, <1>4 DEF UserStep, Contract!Next

LEMMA ContractStore ==
  ASSUME TypeOK, PlaceInv, NEW r \in Runs, StoreMessage(r)
  PROVE  \E m \in Msgs : Contract!Deliver(m)
<1> USE PartiesAssumption, SyncAssumption DEF TypeOK
<1>1. PICK m \in cl[r].todo : local' = [local EXCEPT ![DeviceOf[r]][m] = "synced"]
  BY FirstSubset DEF StoreMessage
<1>2. m \in Msgs /\ To[m] = DeviceOf[r] /\ srv[m] # "absent" /\ UNCHANGED srv
  BY <1>1 DEF StoreMessage, PlaceInv, PullsAddressed, Client
<1>3. \A k \in Msgs, d \in Devices :
        local'[d][k] = IF d = To[m] /\ k = m THEN "synced" ELSE local[d][k]
  BY <1>1, <1>2
<1>4. heldAt' = [heldAt EXCEPT ![m] = heldAt[m] \cup {"recipient"}]
  <2>1. \A k \in Msgs \ {m} : heldAt'[k] = heldAt[k] BY <1>2, <1>3 DEF heldAt
  <2>2. heldAt'[m] = heldAt[m] \cup {"recipient"} BY <1>2, <1>3 DEF heldAt
  <2>3. QED BY <1>2, <2>1, <2>2, HeldAtGrows
<1>5. UNCHANGED ackedOnPhone BY <1>2, <1>3 DEF ackedOnPhone
<1>6. To[m] \in Devices BY <1>2
<1>7. "server" \in heldAt[m] BY <1>2, HeldAtMeaning
<1>8. QED BY <1>2, <1>4, <1>5, <1>6, <1>7 DEF Contract!Deliver

LEMMA ContractAck ==
  ASSUME TypeOK, PlaceInv, AckInv, NEW r \in Runs, Acknowledge(r)
  PROVE  \E m \in Msgs : Contract!Acknowledge(m)
<1> USE PartiesAssumption, SyncAssumption DEF TypeOK
<1>1. PICK m \in cl[r].todo : local' = [local EXCEPT ![DeviceOf[r]][m] = "synced"]
  BY FirstSubset DEF Acknowledge
<1>2. /\ m \in Msgs /\ From[m] = DeviceOf[r] /\ local[From[m]][m] # "absent"
      /\ srv[m] # "absent" /\ UNCHANGED srv
  BY <1>1 DEF Acknowledge, PlaceInv, PushesOwn, AckInv, AcksStored, Client
<1>3. \A k \in Msgs, d \in Devices :
        local'[d][k] = IF d = From[m] /\ k = m THEN "synced" ELSE local[d][k]
  BY <1>1, <1>2
<1>4. UNCHANGED heldAt BY <1>2, <1>3 DEF heldAt
<1>5. ackedOnPhone' = ackedOnPhone \cup {m} BY <1>2, <1>3 DEF ackedOnPhone
<1>6. {"sender", "server"} \subseteq heldAt[m] BY <1>2, HeldAtMeaning
<1>7. QED BY <1>2, <1>4, <1>5, <1>6 DEF Contract!Acknowledge

LEMMA ContractInsert ==
  ASSUME TypeOK, PlaceInv, NEW r \in Runs, InsertMessage(r)
  PROVE  \/ UNCHANGED <<heldAt, ackedOnPhone>>
         \/ \E m \in Msgs : Contract!Upload(m)
<1> USE PartiesAssumption, SyncAssumption DEF TypeOK
<1>1. PICK m \in out[r].todo :
        \/ srv[m] = "absent" /\ srv' = [srv EXCEPT ![m] = "pending_sync"]
        \/ UNCHANGED srv
  BY FirstSubset DEF InsertMessage
<1>2. m \in Msgs /\ From[m] = DeviceOf[r] /\ local[From[m]][m] # "absent" /\ UNCHANGED local
  BY <1>1 DEF InsertMessage, PlaceInv, PushesOwn, PushRequest
<1>3. CASE UNCHANGED srv BY <1>2, <1>3, ContractStutter
<1>4. CASE srv[m] = "absent" /\ srv' = [srv EXCEPT ![m] = "pending_sync"]
  <2>1. heldAt' = [heldAt EXCEPT ![m] = heldAt[m] \cup {"server"}]
    <3>1. \A k \in Msgs \ {m} : heldAt'[k] = heldAt[k] BY <1>2, <1>4 DEF heldAt
    <3>2. heldAt'[m] = heldAt[m] \cup {"server"} BY <1>2, <1>4 DEF heldAt
    <3>3. QED BY <1>2, <3>1, <3>2, HeldAtGrows
  <2>2. UNCHANGED ackedOnPhone BY <1>2 DEF ackedOnPhone
  <2>3. "sender" \in heldAt[m] /\ "server" \notin heldAt[m]
    BY <1>2, <1>4, HeldAtMeaning
  <2>4. QED BY <1>2, <2>1, <2>2, <2>3 DEF Contract!Upload
<1>5. QED BY <1>1, <1>3, <1>4

\* Every other step moves requests and replies only.
LEMMA ContractQuiet ==
  ASSUME TypeOK, PlaceInv, NEW r \in Runs,
         \/ PerformSync(r) \/ PullAnswered(r) \/ PullTimesOut(r)
         \/ ReadPending(r) \/ PushAnswered(r) \/ PushTimesOut(r) \/ PhoneDbFails(r)
         \/ PullStep(r)
         \/ DecodeUpload(r) \/ PushCancelled(r) \/ PushDropped(r)
         \/ Crash
  PROVE  UNCHANGED <<heldAt, ackedOnPhone>>
<1>1. UNCHANGED local
  BY DEF PerformSync, PullAnswered, PullTimesOut, ReadPending, PushAnswered, PushTimesOut,
         PhoneDbFails, PullStep, SelectPending, MarkSynced, PullFails, PullDropped,
         DecodeUpload, PushCancelled, PushDropped, Crash, EngineRestart, AppCrash
<1>2. CASE UNCHANGED srv BY <1>1, <1>2, ContractStutter
<1>3. CASE MarkSynced(r)
  <2>1. PICK m \in inq[r].todo : srv' = [srv EXCEPT ![m] = "synced"]
    BY <1>3, FirstSubset DEF MarkSynced
  <2>2. m \in Msgs /\ srv[m] # "absent"
    BY <2>1 DEF PlaceInv, PullsAddressed, TypeOK, PullRequest
  <2>3. QED BY <1>1, <2>1, <2>2, ContractStutter DEF TypeOK
<1>4. ASSUME ~ MarkSynced(r) PROVE UNCHANGED srv
  <2>1. CASE PullStep(r)
    BY <1>4, <2>1 DEF PullStep, SelectPending, PullFails, PullDropped
  <2>2. CASE ~ PullStep(r)
    BY <2>2
       DEF PerformSync, PullAnswered, PullTimesOut, ReadPending, PushAnswered, PushTimesOut,
           PhoneDbFails, DecodeUpload, PushCancelled, PushDropped, Crash, EngineRestart, AppCrash
  <2>3. QED BY <2>1, <2>2
<1>5. QED BY <1>2, <1>3, <1>4

\* The sync implements the contract's safety part for every network, crash and overlap, as
\* long as an INSERT fails for duplicates only: a message is written once, never leaves a
\* place it has reached, goes through the backend, and counts as synced only when it is
\* there.
THEOREM ImplementsContractHolds ==
  ASSUME "insert" \notin Faults PROVE Spec => ImplementsContractSafely
<1>1. Init => Contract!Init
  BY SyncAssumption, PartiesAssumption DEF Init, Contract!Init, heldAt, ackedOnPhone
<1>2. TypeOK /\ PlaceInv /\ PlaceInv' /\ AckInv /\ [Next]_vars
        => [Contract!Next]_<<heldAt, ackedOnPhone>>
  <2> SUFFICES ASSUME TypeOK, PlaceInv, AckInv, [Next]_vars
               PROVE  [Contract!Next]_<<heldAt, ackedOnPhone>>
    OBVIOUS
  <2>1. CASE UNCHANGED vars BY <2>1 DEF vars, heldAt, ackedOnPhone
  <2>2. ASSUME NEW r \in Runs, ClientStep(r) PROVE [Contract!Next]_<<heldAt, ackedOnPhone>>
    BY <2>2, ContractStore, ContractAck, ContractQuiet DEF ClientStep, Contract!Next
  <2>3. ASSUME NEW r \in Runs, PullStep(r) PROVE [Contract!Next]_<<heldAt, ackedOnPhone>>
    BY <2>3, ContractQuiet
  <2>4. ASSUME NEW r \in Runs, PushStep(r) PROVE [Contract!Next]_<<heldAt, ackedOnPhone>>
    BY <2>4, ContractInsert, ContractQuiet DEF PushStep, Contract!Next
  <2>5. CASE Crash
    BY <2>5, ContractStutter DEF Crash, EngineRestart, AppCrash
  <2>6. QED BY <2>1, <2>2, <2>3, <2>4, <2>5, ContractUser DEF Next
<1>3. QED
  BY <1>1, <1>2, TypeCorrect, PlaceInvariant, AckInvariant, PTL
     DEF Spec, ImplementsContractSafely, Contract!SafeSpec, Contract!vars

----------------------------------------------------------------------------
(* With every failure, messages still move only as the contract has it *)

\* Marking a reply as synced leaves every copy where it is.
LEMMA AckKeepsCopies ==
  ASSUME TypeOK, PlaceInv, NEW r \in Runs, Acknowledge(r) PROVE UNCHANGED heldAt
<1> USE SyncAssumption DEF TypeOK
<1>1. PICK m \in cl[r].todo : local' = [local EXCEPT ![DeviceOf[r]][m] = "synced"]
  BY FirstSubset DEF Acknowledge
<1>2. m \in Msgs /\ local[DeviceOf[r]][m] # "absent" /\ UNCHANGED srv
  BY <1>1 DEF Acknowledge, PlaceInv, PushesOwn, Client
<1>3. \A k \in Msgs, d \in Devices : local'[d][k] = "absent" <=> local[d][k] = "absent"
  BY <1>1, <1>2
<1> QED BY <1>2, <1>3 DEF heldAt

\* However requests, replies, INSERTs and processes fail: a message is written once, never
\* leaves a place it has reached, and gets from one phone to another only through the
\* backend.
THEOREM ImplementsCustodyHolds == Spec => ImplementsCustody
<1>1. Init => Contract!CustodyInit
  BY SyncAssumption, PartiesAssumption DEF Init, Contract!CustodyInit, heldAt
<1>2. TypeOK /\ PlaceInv /\ [Next]_vars => [Contract!Move]_heldAt
  <2> SUFFICES ASSUME TypeOK, PlaceInv, [Next]_vars
               PROVE  Contract!Move \/ UNCHANGED heldAt
    OBVIOUS
  <2>1. CASE UNCHANGED vars BY <2>1 DEF vars, heldAt
  <2>2. CASE UserStep
    BY <2>2, ContractUser
       DEF Contract!Next, Contract!Move, Contract!Acknowledge
  <2>3. ASSUME NEW r \in Runs, ClientStep(r) PROVE Contract!Move \/ UNCHANGED heldAt
    BY <2>3, ContractStore, AckKeepsCopies, ContractQuiet DEF ClientStep, Contract!Move
  <2>4. ASSUME NEW r \in Runs, PullStep(r) PROVE Contract!Move \/ UNCHANGED heldAt
    BY <2>4, ContractQuiet
  <2>5. ASSUME NEW r \in Runs, PushStep(r) PROVE Contract!Move \/ UNCHANGED heldAt
    BY <2>5, ContractInsert, ContractQuiet DEF PushStep, Contract!Move
  <2>6. CASE Crash
    BY <2>6, ContractStutter DEF Crash, EngineRestart, AppCrash
  <2> QED BY <2>1, <2>2, <2>3, <2>4, <2>5, <2>6 DEF Next
<1> QED
  BY <1>1, <1>2, TypeCorrect, PlaceInvariant, PTL
     DEF Spec, ImplementsCustody, Contract!CustodySpec

----------------------------------------------------------------------------
(* What the contract is worth *)

LEMMA HeldAtType == heldAt \in [Msgs -> SUBSET {"sender", "server", "recipient"}]
BY DEF heldAt

\* The contract's moves alone make copies follow one another and stay (Chained, Kept).
THEOREM CustodyKeepsChain == Contract!CustodySpec => []Contract!Chained /\ Contract!Kept
<1>1. Contract!CustodyInit => Contract!Chained BY DEF Contract!CustodyInit, Contract!Chained
<1>2. Contract!Chained /\ [Contract!Move]_heldAt => Contract!Chained'
  <2> SUFFICES ASSUME Contract!Chained, Contract!Move PROVE Contract!Chained'
    BY DEF Contract!Chained
  <2>1. PICK m \in Msgs : Contract!Write(m) \/ Contract!Upload(m) \/ Contract!Deliver(m)
    BY DEF Contract!Move
  <2> USE HeldAtType DEF Contract!Chained
  <2>2. CASE Contract!Write(m) BY <2>2 DEF Contract!Write
  <2>3. CASE Contract!Upload(m) BY <2>3 DEF Contract!Upload
  <2>4. CASE Contract!Deliver(m) BY <2>4 DEF Contract!Deliver
  <2> QED BY <2>1, <2>2, <2>3, <2>4
<1>3. [Contract!Move]_heldAt => [\A m \in Msgs : heldAt[m] \subseteq heldAt'[m]]_heldAt
  <2> SUFFICES ASSUME Contract!Move, NEW k \in Msgs PROVE heldAt[k] \subseteq heldAt'[k]
    OBVIOUS
  <2>1. PICK m \in Msgs : Contract!Write(m) \/ Contract!Upload(m) \/ Contract!Deliver(m)
    BY DEF Contract!Move
  <2> QED BY <2>1, HeldAtType DEF Contract!Write, Contract!Upload, Contract!Deliver
<1> QED BY <1>1, <1>2, <1>3, PTL DEF Contract!CustodySpec, Contract!Kept

\* So in MessageSync, whatever fails: a message on the addressee's phone is on the backend, one
\* on the backend is still on its author's phone, and no copy disappears.
THEOREM ChainHolds == Spec => []Contract!Chained /\ Contract!Kept
BY ImplementsCustodyHolds, CustodyKeepsChain, PTL DEF ImplementsCustody

============================================================================

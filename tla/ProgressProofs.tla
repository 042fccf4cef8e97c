--------------------------- MODULE ProgressProofs ---------------------------
(***************************************************************************)
(* What does not depend on fairness in the progress of MessageSync: no     *)
(* sync, pull or upload does again what it has done.                       *)
(***************************************************************************)
EXTENDS MessageSyncProofs

----------------------------------------------------------------------------
(* Lists that are gone through, and slots that are free *)

LEMMA WorkInit == Init => WorkInv
BY DEF Init, WorkInv, WorkOf, NoClient, NoPull, NoPush

\* A run of which a step changes nothing.
LEMMA WorkFrame ==
  ASSUME NEW k \in Runs, WorkOf(k), cl'[k] = cl[k], inq'[k] = inq[k], out'[k] = out[k]
  PROVE  WorkOf(k)'
BY DEF WorkOf

LEMMA WorkUser == ASSUME TypeOK, WorkInv, UserStep PROVE WorkInv'
<1> USE DEF TypeOK, WorkInv
<1>1. ASSUME NEW m \in Msgs, WebSend(m) \/ MarkAsRead(m) PROVE WorkInv'
  <2>1. UNCHANGED <<cl, inq, out>> BY <1>1 DEF WebSend, MarkAsRead
  <2> QED BY <2>1, WorkFrame
<1>2. ASSUME NEW r \in Runs, Free(r), ClientGoes(r, "begin", {}), UNCHANGED <<inq, out>>
      PROVE  WorkInv'
  <2>1. WorkOf(r)' BY <1>2 DEF WorkOf, Free, ClientGoes
  <2>2. ASSUME NEW k \in Runs, k # r PROVE WorkOf(k)'
    BY <1>2, <2>2, WorkFrame DEF ClientGoes
  <2> QED BY <2>1, <2>2
<1> QED BY <1>1, <1>2 DEF UserStep, SyncButton, SendMessage

\* The runs that a run's own step leaves alone.
LEMMA OwnSlots ==
  ASSUME TypeOK, NEW r \in Runs, ClientStep(r) \/ PullStep(r) \/ PushStep(r)
  PROVE  \A k \in Runs : k # r => cl'[k] = cl[k] /\ inq'[k] = inq[k] /\ out'[k] = out[k]
<1> USE DEF TypeOK, ClientGoes, AfterPull, AfterPush, HandlerHas, HandlerInserted
<1>1. CASE PerformSync(r) BY <1>1 DEF PerformSync
<1>2. CASE PullAnswered(r) \/ PullTimesOut(r) BY <1>2 DEF PullAnswered, PullTimesOut
<1>3. CASE StoreMessage(r) \/ Acknowledge(r) \/ PhoneDbFails(r)
  BY <1>3 DEF StoreMessage, Acknowledge, PhoneDbFails
<1>4. CASE ReadPending(r) BY <1>4 DEF ReadPending
<1>5. CASE PushAnswered(r) \/ PushTimesOut(r) BY <1>5 DEF PushAnswered, PushTimesOut
<1>6. CASE SelectPending(r) \/ MarkSynced(r) BY <1>6 DEF SelectPending, MarkSynced
<1>7. CASE PullFails(r) \/ PullDropped(r) BY <1>7 DEF PullFails, PullDropped
<1>8. CASE DecodeUpload(r) BY <1>8 DEF DecodeUpload
<1>9. CASE InsertMessage(r) BY <1>9 DEF InsertMessage
<1>10. CASE PushCancelled(r) \/ PushDropped(r) BY <1>10 DEF PushCancelled, PushDropped
<1> QED BY <1>1, <1>2, <1>3, <1>4, <1>5, <1>6, <1>7, <1>8, <1>9, <1>10
        DEF ClientStep, PullStep, PushStep

LEMMA WorkClient == ASSUME TypeOK, NEW r \in Runs, WorkOf(r), ClientStep(r) PROVE WorkOf(r)'
<1> USE DEF TypeOK, WorkOf, ClientGoes, AfterPull, AfterPush
<1>1. CASE PerformSync(r) BY <1>1 DEF PerformSync
<1>2. CASE PullAnswered(r) BY <1>2 DEF PullAnswered, NoPull
<1>3. CASE PullTimesOut(r) BY <1>3 DEF PullTimesOut
<1>4. CASE StoreMessage(r) BY <1>4 DEF StoreMessage
<1>5. CASE ReadPending(r) BY <1>5 DEF ReadPending
<1>6. CASE PushAnswered(r) BY <1>6 DEF PushAnswered, NoPush
<1>7. CASE PushTimesOut(r) BY <1>7 DEF PushTimesOut
<1>8. CASE Acknowledge(r) BY <1>8 DEF Acknowledge
<1>9. CASE PhoneDbFails(r) BY <1>9 DEF PhoneDbFails
<1> QED BY <1>1, <1>2, <1>3, <1>4, <1>5, <1>6, <1>7, <1>8, <1>9 DEF ClientStep

LEMMA WorkPull == ASSUME TypeOK, NEW r \in Runs, WorkOf(r), PullStep(r) PROVE WorkOf(r)'
<1> USE DEF TypeOK, WorkOf, HandlerHas, NoPull
<1>1. CASE SelectPending(r) BY <1>1 DEF SelectPending
<1>2. CASE MarkSynced(r) BY <1>2 DEF MarkSynced
<1>3. CASE PullFails(r) BY <1>3 DEF PullFails
<1>4. CASE PullDropped(r) BY <1>4 DEF PullDropped
<1> QED BY <1>1, <1>2, <1>3, <1>4 DEF PullStep

LEMMA WorkPush == ASSUME TypeOK, NEW r \in Runs, WorkOf(r), PushStep(r) PROVE WorkOf(r)'
<1> USE DEF TypeOK, WorkOf, HandlerInserted, NoPush
<1>1. CASE DecodeUpload(r) BY <1>1 DEF DecodeUpload
<1>2. CASE InsertMessage(r) BY <1>2 DEF InsertMessage
<1>3. CASE PushCancelled(r) BY <1>3 DEF PushCancelled
<1>4. CASE PushDropped(r) BY <1>4 DEF PushDropped
<1> QED BY <1>1, <1>2, <1>3, <1>4 DEF PushStep

LEMMA WorkCrash == ASSUME TypeOK, WorkInv, Crash PROVE WorkInv'
<1> USE DEF TypeOK, WorkInv
<1>1. CASE EngineRestart
  <2> SUFFICES ASSUME NEW k \in Runs PROVE WorkOf(k)' OBVIOUS
  <2> QED BY <1>1 DEF EngineRestart, WorkOf, NoPull, NoPush
<1>2. ASSUME NEW d \in Devices, AppCrash(d) PROVE WorkInv'
  <2> SUFFICES ASSUME NEW k \in Runs PROVE WorkOf(k)' OBVIOUS
  <2> QED BY <1>2 DEF AppCrash, WorkOf, NoClient
<1> QED BY <1>1, <1>2 DEF Crash

LEMMA WorkInvariant == Spec => []WorkInv
<1>1. TypeOK /\ WorkInv /\ [Next]_vars => WorkInv'
  <2> SUFFICES ASSUME TypeOK, WorkInv, [Next]_vars PROVE WorkInv' OBVIOUS
  <2>1. CASE UNCHANGED vars BY <2>1, WorkFrame DEF vars, WorkInv
  <2>2. ASSUME NEW r \in Runs, ClientStep(r) \/ PullStep(r) \/ PushStep(r) PROVE WorkInv'
    <3>1. WorkOf(r)' BY <2>2, WorkClient, WorkPull, WorkPush DEF WorkInv
    <3>2. ASSUME NEW k \in Runs, k # r PROVE WorkOf(k)'
      BY <2>2, <3>2, OwnSlots, WorkFrame DEF WorkInv
    <3> QED BY <3>1, <3>2 DEF WorkInv
  <2> QED BY <2>1, <2>2, WorkUser, WorkCrash DEF Next
<1> QED BY WorkInit, TypeCorrect, <1>1, PTL DEF Spec

----------------------------------------------------------------------------
(* Every part goes forward *)

LEMMA AdvancesFrame ==
  ASSUME NEW k \in Runs, cl'[k] = cl[k], inq'[k] = inq[k], out'[k] = out[k]
  PROVE  Advances(k)
BY DEF Advances, AdvancesOnly

LEMMA AdvancesUser ==
  ASSUME TypeOK, UserStep, NEW k \in Runs PROVE Advances(k)
<1> USE DEF TypeOK
<1>1. UNCHANGED <<inq, out>>
  BY DEF UserStep, WebSend, MarkAsRead, SyncButton, SendMessage
<1>2. cl'[k] = cl[k] \/ cl[k].pc = "idle"
  <2>1. ASSUME NEW m \in Msgs, WebSend(m) \/ MarkAsRead(m) PROVE cl'[k] = cl[k]
    BY <2>1 DEF WebSend, MarkAsRead
  <2>2. ASSUME NEW r \in Runs, Free(r), ClientGoes(r, "begin", {})
        PROVE  cl'[k] = cl[k] \/ cl[k].pc = "idle"
    BY <2>2 DEF Free, NoClient, ClientGoes
  <2> QED BY <2>1, <2>2 DEF UserStep, SyncButton, SendMessage
<1> QED BY <1>1, <1>2 DEF Advances, AdvancesOnly

LEMMA AdvancesClient ==
  ASSUME TypeOK, NEW r \in Runs, WorkOf(r), ClientStep(r) PROVE Advances(r)
<1> USE DEF TypeOK, Advances, AdvancesOnly, Later, ClientStage, ClientGoes, AfterPull, AfterPush
<1>1. CASE PerformSync(r) BY <1>1 DEF PerformSync, WorkOf
<1>2. CASE PullAnswered(r) BY <1>2 DEF PullAnswered, NoPull, PullStage
<1>3. CASE PullTimesOut(r) BY <1>3 DEF PullTimesOut
<1>4. CASE StoreMessage(r) BY <1>4, FirstSubset DEF StoreMessage
<1>5. CASE ReadPending(r) BY <1>5 DEF ReadPending, WorkOf
<1>6. CASE PushAnswered(r) BY <1>6 DEF PushAnswered, NoPush, PushStage
<1>7. CASE PushTimesOut(r) BY <1>7 DEF PushTimesOut
<1>8. CASE Acknowledge(r) BY <1>8, FirstSubset DEF Acknowledge
<1>9. CASE PhoneDbFails(r) BY <1>9 DEF PhoneDbFails
<1> QED BY <1>1, <1>2, <1>3, <1>4, <1>5, <1>6, <1>7, <1>8, <1>9 DEF ClientStep

LEMMA AdvancesPull ==
  ASSUME TypeOK, NEW r \in Runs, WorkOf(r), PullStep(r) PROVE Advances(r)
<1> USE DEF TypeOK, Advances, AdvancesOnly, Later, PullStage, HandlerHas, NoPull
<1>1. CASE SelectPending(r) BY <1>1 DEF SelectPending
<1>2. CASE MarkSynced(r) BY <1>2, FirstSubset DEF MarkSynced
<1>3. CASE PullFails(r) BY <1>3 DEF PullFails
<1>4. CASE PullDropped(r) BY <1>4, FirstSubset DEF PullDropped
<1> QED BY <1>1, <1>2, <1>3, <1>4 DEF PullStep

LEMMA AdvancesPush ==
  ASSUME TypeOK, NEW r \in Runs, WorkOf(r), PushStep(r) PROVE Advances(r)
<1> USE DEF TypeOK, Advances, AdvancesOnly, Later, PushStage, HandlerInserted, NoPush
<1>1. CASE DecodeUpload(r) BY <1>1 DEF DecodeUpload
<1>2. CASE InsertMessage(r) BY <1>2, FirstSubset DEF InsertMessage
<1>3. CASE PushCancelled(r) BY <1>3 DEF PushCancelled
<1>4. CASE PushDropped(r) BY <1>4 DEF PushDropped
<1> QED BY <1>1, <1>2, <1>3, <1>4 DEF PushStep

LEMMA AdvancesCrash ==
  ASSUME TypeOK, Crash, NEW k \in Runs, WorkOf(k) PROVE Advances(k)
<1> USE DEF TypeOK, Advances, AdvancesOnly, Later, ClientStage, PullStage, PushStage
<1>1. CASE EngineRestart
  BY <1>1 DEF EngineRestart, WorkOf, NoPull, NoPush, PullRequest, PushRequest
<1>2. ASSUME NEW d \in Devices, AppCrash(d) PROVE Advances(k)
  BY <1>2 DEF AppCrash, NoClient, Client
<1> QED BY <1>1, <1>2 DEF Crash

\* No client, pull or upload does again what it has done (SyncAdvances), whatever is lost,
\* fails or crashes, and each request is sent in one place only.
THEOREM SyncAdvancesHolds == Spec => SyncAdvances
<1>1. TypeOK /\ WorkInv /\ [Next]_vars => [\A r \in Runs : Advances(r)]_vars
  <2> SUFFICES ASSUME TypeOK, WorkInv, Next, NEW k \in Runs PROVE Advances(k) OBVIOUS
  <2>1. WorkOf(k) BY DEF WorkInv
  <2>2. ASSUME NEW r \in Runs, ClientStep(r) \/ PullStep(r) \/ PushStep(r)
        PROVE  Advances(k)
    <3>1. CASE k = r BY <2>1, <2>2, <3>1, AdvancesClient, AdvancesPull, AdvancesPush
    <3>2. CASE k # r BY <2>2, <3>2, OwnSlots, AdvancesFrame
    <3> QED BY <3>1, <3>2
  <2> QED BY <2>1, <2>2, AdvancesUser, AdvancesCrash DEF Next
<1> QED BY TypeCorrect, WorkInvariant, <1>1, PTL DEF Spec, SyncAdvances

============================================================================

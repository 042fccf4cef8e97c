----------------------------- MODULE FeedProofs -----------------------------
(***************************************************************************)
(* WalSync implements ChangeFeed.                                          *)
(***************************************************************************)
EXTENDS WalSyncProofs

----------------------------------------------------------------------------
(* Nothing foreign, whatever fails *)

LEMMA AddressedInit == Init => AddressedInv
BY DEF Init, AddressedInv, Idle

LEMMA AddressedStep == ASSUME TypeOK, AddressedInv, [Next]_vars PROVE AddressedInv'
<1> USE RequestFields DEF TypeOK, AddressedInv, Targets, DevicesOf
<1>1. CASE UNCHANGED vars BY <1>1 DEF vars, Read
<1>2. ASSUME NEW c \in Changes, AddChange(c) PROVE AddressedInv'
  <2>1. Read' = Read \cup {c} /\ UNCHANGED <<req, held>> BY <1>2, AddReads DEF AddChange
  <2>2. \A d \in Devices : \A k \in changes'[d] : k \in changes[d] \/ (k = c /\ d \in Targets(c))
    BY <1>2 DEF AddChange
  <2> QED BY <2>1, <2>2
<1>3. ASSUME NEW c \in Changes, Commit(c) PROVE AddressedInv'
  <2>1. Read' = Read BY <1>3 DEF Commit, Read
  <2> QED BY <1>3, <2>1 DEF Commit
<1>4. CASE EngineRestart BY <1>4 DEF EngineRestart, Idle, Read
<1>5. ASSUME NEW r \in Runs, StartPull(r) \/ StartStatus(r) \/ Handler(r) PROVE AddressedInv'
  <2> DEFINE mine == {c \in Read : DeviceOf[r] \in Targets(c)}
  <2>1. UNCHANGED wal /\ Read' = Read
    BY <1>5 DEF StartPull, StartStatus, Handler, LookUp, Filter, WriteMeta,
                ClearChangesForDevice, Answer, AnswerError, GetSyncStatus, WriteDefault, Read
  <2>2. \A d \in Devices : changes'[d] \subseteq changes[d]
    BY <1>5 DEF StartPull, StartStatus, Handler, LookUp, Filter, WriteMeta,
                ClearChangesForDevice, Answer, AnswerError, GetSyncStatus, WriteDefault
  <2>3. /\ \A s \in Runs : s # r => req'[s] = req[s]
        /\ req'[r].batch \subseteq mine
    <3>1. CASE Filter(r)
      <4>1. Taken(Above(DeviceOf[r], req[r].lsn), Limit) \subseteq mine
        BY DEF Taken, Above
      <4> QED BY <3>1, <4>1 DEF Filter, Goto
    <3>2. ASSUME \/ req' = [req EXCEPT ![r] = Idle]
                 \/ \E pc, lsn, batch : Goto(r, pc, lsn, batch) /\ batch \in {{}, req[r].batch}
          PROVE  (\A s \in Runs : s # r => req'[s] = req[s]) /\ req'[r].batch \subseteq mine
      BY <3>2 DEF Goto, Idle
    <3>3. CASE StartPull(r) \/ StartStatus(r) \/ LookUp(r)
      BY <3>2, <3>3 DEF StartPull, StartStatus, LookUp
    <3>4. CASE WriteMeta(r) \/ ClearChangesForDevice(r)
      BY <3>2, <3>4 DEF WriteMeta, WriteLSN, ClearChangesForDevice
    <3>5. CASE Answer(r) \/ AnswerError(r) \/ GetSyncStatus(r) \/ WriteDefault(r)
      BY <3>2, <3>5 DEF Answer, AnswerError, GetSyncStatus, WriteDefault
    <3> QED BY <1>5, <3>1, <3>3, <3>4, <3>5 DEF Handler
  <2>4. \A d \in Devices : held'[d] = held[d] \/ (d = DeviceOf[r] /\ held'[d] = held[d] \cup req[r].batch)
    BY <1>5 DEF StartPull, StartStatus, Handler, LookUp, Filter, WriteMeta,
                ClearChangesForDevice, Answer, AnswerError, GetSyncStatus, WriteDefault
  <2> QED BY <2>1, <2>2, <2>3, <2>4
<1> QED BY <1>1, <1>2, <1>3, <1>4, <1>5 DEF Next, Log

\* Whatever fails, a queue, an answer and a phone hold only changes that were read from the
\* log, are addressed to that phone's user and were not sent from that phone
\* (ChangeTracker.AddChange).
THEOREM AddressedHolds == Spec => []AddressedInv
<1>1. TypeOK /\ AddressedInv /\ [Next]_vars => AddressedInv' BY AddressedStep
<1> QED BY AddressedInit, <1>1, TypeCorrect, PTL DEF Spec

----------------------------------------------------------------------------
(* Every step is a step of the contract *)

\* A request that neither has nor gets an answer settled on hands nothing out.
LEMMA HandedSame ==
  ASSUME TypeOK, NEW r \in Runs, UNCHANGED held,
         \A s \in Runs : s # r => req'[s] = req[s],
         req[r].pc \notin {"clear", "done"} \/ req[r].batch = {},
         req'[r].pc \notin {"clear", "done"} \/ req'[r].batch = {}
  PROVE  UNCHANGED handed
<1>1. \A d \in Devices, c \in Changes : HandedOut(d, c)' <=> HandedOut(d, c)
  BY DEF HandedOut, Pulls
<1> QED BY <1>1 DEF handed

\* A request that keeps the answer it settled on hands nothing out.
LEMMA HandedStays ==
  ASSUME TypeOK, NEW r \in Runs, UNCHANGED held,
         \A s \in Runs : s # r => req'[s] = req[s],
         req[r].pc \in {"clear", "done"}, req'[r].pc \in {"clear", "done"},
         req'[r].batch = req[r].batch
  PROVE  UNCHANGED handed
<1>1. \A d \in Devices, c \in Changes : HandedOut(d, c)' <=> HandedOut(d, c)
  BY DEF HandedOut, Pulls
<1> QED BY <1>1 DEF handed

LEMMA FeedAppend ==
  ASSUME TypeOK, NEW c \in Changes, AddChange(c) PROVE Contract!Append(c)
<1>1. Read' = Read \cup {c} /\ UNCHANGED <<req, held>> BY AddReads DEF AddChange
<1>2. \A d \in Devices, k \in Changes : HandedOut(d, k)' <=> HandedOut(d, k)
  BY <1>1 DEF HandedOut, Pulls
<1>3. UNCHANGED handed BY <1>2 DEF handed
<1>4. c \notin Read BY DEF AddChange, Read
<1> QED BY <1>1, <1>3, <1>4 DEF Contract!Append, AddChange, Before

\* Writing the row settles the changes up to the last of the answer.
LEMMA FeedWrite ==
  ASSUME TypeOK, GapInv, AddressedInv, HandedInOrder,
         NEW r \in Runs, WriteMeta(r),
         NEW b \in Last(req[r].batch), WriteLSN(r, b)
  PROVE  Contract!Settle(DeviceOf[r], b) \/ UNCHANGED <<Read, handed, held>>
<1> DEFINE d0 == DeviceOf[r]
           batch == req[r].batch
<1>1. d0 \in Devices /\ b \in batch /\ b \in Changes /\ batch \subseteq Changes
  BY RequestFields DEF Last
<1>2. /\ Read' = Read /\ UNCHANGED held
      /\ req'[r] = [pc |-> "clear", lsn |-> NoLsn, batch |-> batch]
      /\ \A s \in Runs : s # r => req'[s] = req[s]
      /\ req[r].pc = "write"
  BY DEF WriteMeta, WriteLSN, Goto, TypeOK, Read
<1>3. \A d \in Devices, c \in Changes :
        HandedOut(d, c)' <=> HandedOut(d, c) \/ (d = d0 /\ c \in batch)
  BY <1>2 DEF HandedOut, Pulls
<1>4. \A c \in batch : c \in Read /\ d0 \in Targets(c) /\ Lsn[c] <= Lsn[b]
  BY DEF AddressedInv, Last
<1>5. \A c \in Read : d0 \in Targets(c) /\ Lsn[c] <= Lsn[b] => c \in batch \/ HandedOut(d0, c)
  BY <1>1, <1>2 DEF GapInv, BatchCovers
<1>6. CASE HandedOut(d0, b)
  <2>1. \A c \in batch : HandedOut(d0, c) BY <1>1, <1>4, <1>6 DEF HandedInOrder
  <2>2. UNCHANGED handed BY <1>3, <2>1 DEF handed
  <2> QED BY <1>2, <2>2
<1>7. CASE ~ HandedOut(d0, b)
  <2> DEFINE upTo == {k \in Read : d0 \in Targets(k) /\ Lsn[k] <= Lsn[b]}
  <2>1. \A c \in Changes : HandedOut(d0, c) => c \in upTo
    <3> SUFFICES ASSUME NEW c \in Changes, HandedOut(d0, c) PROVE c \in upTo OBVIOUS
    <3>1. c \in Read /\ d0 \in Targets(c)
      BY <1>1 DEF HandedOut, Pulls, AddressedInv
    <3>2. ~ (Lsn[b] <= Lsn[c]) BY <1>1, <1>4, <1>7, <3>1 DEF HandedInOrder
    <3> QED BY <1>1, <3>1, <3>2, LsnIsNumber
  <2>2. \A c \in Changes : HandedOut(d0, c)' <=> c \in upTo
    BY <1>1, <1>3, <1>4, <1>5, <2>1
  <2>3. upTo = Contract!UpTo(d0, b) BY DEF Contract!UpTo, Read
  <2>4. handed' = [handed EXCEPT ![d0] = upTo]
    <3>1. \A d \in Devices :
            {c \in Changes : HandedOut(d, c)'} = IF d = d0 THEN upTo ELSE handed[d]
      BY <1>3, <2>2 DEF handed, Read
    <3> HIDE DEF upTo
    <3>2. handed' = [d \in Devices |-> {c \in Changes : HandedOut(d, c)'}] BY DEF handed
    <3>3. handed = [d \in Devices |-> handed[d]] BY DEF handed
    <3> QED BY <1>1, <3>1, <3>2, <3>3
  <2>5. b \in upTo /\ b \notin handed[d0] BY <1>1, <1>4, <1>7, LsnIsNumber DEF handed
  <2> QED BY <1>2, <2>3, <2>4, <2>5 DEF Contract!Settle
<1> QED BY <1>6, <1>7

\* An answer that arrives was settled on before.
LEMMA FeedAnswer ==
  ASSUME TypeOK, "lost" \notin Faults, NEW r \in Runs, Answer(r)
  PROVE  \E S \in SUBSET handed[DeviceOf[r]] : Contract!Deliver(DeviceOf[r], S)
<1> DEFINE d0 == DeviceOf[r]
<1>1. d0 \in Devices /\ req[r].batch \in SUBSET Changes BY RequestFields
<1>2. /\ req[r].pc = "done" /\ UNCHANGED wal
      /\ held' = [held EXCEPT ![d0] = @ \cup req[r].batch]
      /\ req'[r] = Idle /\ \A s \in Runs : s # r => req'[s] = req[s]
  BY DEF Answer, TypeOK
<1>3. req[r].batch \subseteq handed[d0] BY <1>1, <1>2 DEF handed, HandedOut, Pulls
<1>4. \A d \in Devices, c \in Changes : HandedOut(d, c)' <=> HandedOut(d, c)
  BY <1>1, <1>2 DEF HandedOut, Pulls, TypeOK, Idle
<1>5. UNCHANGED <<Read, handed>> BY <1>2, <1>4 DEF handed, Read
<1> QED BY <1>2, <1>3, <1>5 DEF Contract!Deliver

LEMMA FeedHandler ==
  ASSUME TypeOK, GapInv, AddressedInv, HandedInOrder, "lost" \notin Faults,
         NEW r \in Runs, Handler(r) \/ StartPull(r) \/ StartStatus(r)
  PROVE  Contract!Next \/ UNCHANGED <<Read, handed, held>>
<1>1. ASSUME UNCHANGED <<wal, held>>,
             \A s \in Runs : s # r => req'[s] = req[s],
             req[r].pc \notin {"clear", "done"} \/ req[r].batch = {},
             req'[r].pc \notin {"clear", "done"} \/ req'[r].batch = {}
      PROVE  UNCHANGED <<Read, handed, held>>
  BY <1>1, HandedSame DEF Read
<1> USE DEF TypeOK
<1>2. CASE LookUp(r) \/ StartPull(r) \/ StartStatus(r) \/ AnswerError(r)
           \/ GetSyncStatus(r) \/ WriteDefault(r)
  BY <1>1, <1>2 DEF LookUp, StartPull, StartStatus, AnswerError, GetSyncStatus, WriteDefault,
                    Goto, Idle
<1>3. CASE Filter(r) BY <1>1, <1>3 DEF Filter, Goto
<1>4. CASE WriteMeta(r)
  <2>1. CASE \E b \in Last(req[r].batch) : WriteLSN(r, b)
    BY <1>4, <2>1, FeedWrite, RequestFields DEF Contract!Next, Last
  <2>2. CASE Goto(r, "err", NoLsn, {})
    BY <1>1, <1>4, <2>2 DEF WriteMeta, Goto
  <2> QED BY <1>4, <2>1, <2>2 DEF WriteMeta
<1>5. CASE ClearChangesForDevice(r)
  <2>1. UNCHANGED handed BY <1>5, HandedStays DEF ClearChangesForDevice, Goto
  <2> QED BY <1>5, <2>1 DEF ClearChangesForDevice, Read
<1>6. CASE Answer(r) BY <1>6, FeedAnswer, RequestFields DEF Contract!Next
<1> QED BY <1>2, <1>3, <1>4, <1>5, <1>6 DEF Handler

LEMMA FeedStep ==
  ASSUME TypeOK, GapInv, AddressedInv, HandedInOrder,
         "lost" \notin Faults, "restart" \notin Faults, [Next]_vars
  PROVE  Contract!Next \/ UNCHANGED <<Read, handed, held>>
<1>1. CASE UNCHANGED vars BY <1>1 DEF vars, Read, handed, HandedOut, Pulls
<1>2. CASE Log BY <1>2, FeedAppend DEF Log, Contract!Next
<1>3. ASSUME NEW c \in Changes, Commit(c) PROVE UNCHANGED <<Read, handed, held>>
  <2>1. Read' = Read BY <1>3 DEF Commit, Read, TypeOK
  <2> QED BY <1>3, <2>1 DEF Commit, handed, HandedOut, Pulls
<1>4. ~ EngineRestart BY DEF EngineRestart
<1> QED BY <1>1, <1>2, <1>3, <1>4, FeedHandler DEF Next

\* The steps of the contract leave no gap in what is settled.
LEMMA OrderKept ==
  ASSUME TypeOK, QueueInv, AddressedInv, HandedInOrder, [Next]_vars,
         Contract!Next \/ UNCHANGED <<Read, handed, held>>
  PROVE  HandedInOrder'
<1> DEFINE InOrder(S, log) ==
             \A d \in Devices : \A c, k \in log :
               d \in Targets(c) /\ Lsn[c] <= Lsn[k] /\ k \in S[d] => c \in S[d]
<1>1. InOrder(handed, Read) BY DEF HandedInOrder, handed, Read
<1>2. InOrder(handed', Read') => HandedInOrder'
  BY DEF HandedInOrder, handed, Read, Targets, DevicesOf
<1>3. CASE UNCHANGED <<Read, handed, held>> BY <1>1, <1>2, <1>3
<1>4. ASSUME NEW c \in Changes, Contract!Append(c) PROVE HandedInOrder'
  <2>1. c \notin Read /\ Read' = Read \cup {c} /\ handed' = handed
    BY <1>4 DEF Contract!Append
  <2>2. \A d \in Devices : handed[d] \subseteq Read
    BY DEF handed, HandedOut, AddressedInv, Pulls
  <2>3. \A k \in Read : ~ (Lsn[c] <= Lsn[k])
    <3> SUFFICES ASSUME NEW k \in Read, Lsn[c] <= Lsn[k] PROVE FALSE OBVIOUS
    <3>1. k \in Changes /\ k # c BY <2>1 DEF Read
    <3>2. Lsn[c] < Lsn[k] BY <3>1, LsnIsNumber, LsnAssumption
    <3>3. c \in Before(k) BY <3>2 DEF Before
    <3> QED BY <2>1, <3>3 DEF QueueInv, ReadInOrder
  <2> QED BY <1>1, <1>2, <2>1, <2>2, <2>3
<1>5. ASSUME NEW d0 \in Devices, NEW b \in Changes, Contract!Settle(d0, b)
      PROVE  HandedInOrder'
  <2>1. /\ Read' = Read
        /\ handed' = [handed EXCEPT ![d0] = Contract!UpTo(d0, b)]
    BY <1>5 DEF Contract!Settle
  <2>2. \A k \in Contract!UpTo(d0, b), c \in Read :
          d0 \in Targets(c) /\ Lsn[c] <= Lsn[k] => c \in Contract!UpTo(d0, b)
    BY LsnIsNumber DEF Contract!UpTo, Read
  <2>3. handed'[d0] = Contract!UpTo(d0, b) /\ \A d \in Devices \ {d0} : handed'[d] = handed[d]
    BY <2>1 DEF handed
  <2> QED BY <1>1, <1>2, <2>1, <2>2, <2>3
<1>6. ASSUME NEW d0 \in Devices, NEW S, Contract!Deliver(d0, S) PROVE HandedInOrder'
  BY <1>1, <1>2, <1>6 DEF Contract!Deliver
<1> QED BY <1>3, <1>4, <1>5, <1>6 DEF Contract!Next

\* Unless replies get lost or the engine restarts: what is settled on for a phone is always
\* the front of what the log holds for it, whichever of its pulls and status requests
\* overlap and fail, and the phone receives only what was settled.
THEOREM ImplementsFeedHolds ==
  ASSUME "lost" \notin Faults, "restart" \notin Faults
  PROVE  Spec => ImplementsFeed
<1>1. Init => Contract!Init /\ HandedInOrder
  <2> SUFFICES ASSUME Init PROVE Contract!Init /\ HandedInOrder OBVIOUS
  <2>1. Read = {} BY DEF Init, Read
  <2>2. \A d \in Devices, c \in Changes : ~ HandedOut(d, c)
    BY DEF Init, HandedOut, Pulls, Idle
  <2>3. handed = [d \in Devices |-> {}] BY <2>2 DEF handed
  <2> QED BY <2>1, <2>3 DEF Init, Contract!Init, HandedInOrder
<1>2. TypeOK /\ QueueInv /\ GapInv /\ AddressedInv /\ HandedInOrder /\ [Next]_vars
        => [Contract!Next]_<<Read, handed, held>> /\ HandedInOrder' /\ GapInv'
  BY FeedStep, OrderKept, GapStep
<1> QED
  BY <1>1, <1>2, GapInit, TypeCorrect, QueueInvariant, AddressedHolds, PTL
     DEF Spec, ImplementsFeed, Contract!Spec, Contract!vars

============================================================================

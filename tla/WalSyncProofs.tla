--------------------------- MODULE WalSyncProofs ---------------------------
(***************************************************************************)
(* What is proved of WalSync for any number of changes, phones and         *)
(* requests.                                                               *)
(***************************************************************************)
EXTENDS WalSync, FiniteSetTheorems, TLAPS

(* LSNs *)

\* A quotient and a remainder put together give the number they come from.
LEMMA Division ==
  ASSUME NEW n \in Nat, NEW k \in Nat \ {0}
  PROVE  /\ n \div k \in Nat
         /\ n % k \in 0 .. k - 1
         /\ (n \div k) * k + (n % k) = n
  OBVIOUS

\* Storing an LSN as text and parsing it loses nothing (LSN.String and ParseLSN).
THEOREM TextRoundTrip ==
  ASSUME NEW l \in 0 .. (Word * Word - 1)
  PROVE  LsnText(l) \in Text /\ ParseLSN(LsnText(l)) = l
<1> DEFINE h == l \div Word
<1>1. Word \in Nat \ {0} /\ l \in Nat /\ l < Word * Word
  BY LsnAssumption
<1>2. h \in Nat /\ l % Word \in 0 .. Word - 1 /\ h * Word + (l % Word) = l
  BY <1>1, Division
<1>3. h < Word
  <2>1. SUFFICES ASSUME h >= Word PROVE FALSE
    BY <1>1, <1>2
  <2>2. h * Word >= Word * Word
    BY <1>1, <1>2, <2>1
  <2> QED BY <1>1, <1>2, <2>2
<1> QED BY <1>1, <1>2, <1>3 DEF LsnText, ParseLSN, Text

LEMMA NoLsnIsZero == NoLsn \in Text /\ ParseLSN(NoLsn) = 0
<1>1. 0 \in 0 .. (Word * Word - 1)
  <2>1. Word * Word >= 1 BY LsnAssumption
  <2> QED BY <2>1, LsnAssumption
<1> QED BY <1>1, TextRoundTrip DEF NoLsn

LEMMA TextIsNumber == ASSUME NEW t \in Text PROVE ParseLSN(t) \in Nat
BY LsnAssumption DEF Text, ParseLSN

LEMMA WrittenLsn ==
  ASSUME NEW c \in Changes
  PROVE  LsnText(Lsn[c]) \in Text /\ ParseLSN(LsnText(Lsn[c])) = Lsn[c]
<1>1. Lsn[c] \in 1 .. (Word * Word - 1) /\ Word * Word - 1 \in Int BY LsnAssumption
<1>2. Lsn[c] \in 0 .. (Word * Word - 1) BY <1>1
<1> QED BY <1>2, TextRoundTrip

LEMMA LsnIsNumber == ASSUME NEW c \in Changes PROVE Lsn[c] \in Nat /\ Lsn[c] > 0
<1>1. Lsn[c] \in 1 .. (Word * Word - 1) /\ Word * Word - 1 \in Int BY LsnAssumption
<1> QED BY <1>1

----------------------------------------------------------------------------
(* Type correctness *)

LEMMA TypeInit == Init => TypeOK
BY NoLsnIsZero DEF Init, TypeOK, Idle, Request

\* What the steps of a request leave in its slot.
LEMMA GotoTypes ==
  ASSUME TypeOK, NEW r \in Runs, NEW lsn \in Text, NEW batch \in SUBSET Changes,
         NEW pc \in {"idle", "lookup", "filter", "write", "clear", "done", "err",
                     "status", "default"},
         Goto(r, pc, lsn, batch)
  PROVE  req' \in [Runs -> Request]
BY DEF TypeOK, Goto, Request

LEMMA IdleTypes ==
  ASSUME TypeOK, NEW r \in Runs, req' = [req EXCEPT ![r] = Idle]
  PROVE  req' \in [Runs -> Request]
BY NoLsnIsZero DEF TypeOK, Idle, Request

LEMMA RequestFields ==
  ASSUME TypeOK, NEW r \in Runs
  PROVE  /\ req[r].lsn \in Text
         /\ req[r].batch \in SUBSET Changes
         /\ DeviceOf[r] \in Devices
         /\ meta[DeviceOf[r]].lsn \in Text
BY PullAssumption DEF TypeOK, Request

LEMMA WriteLSNTypes ==
  ASSUME TypeOK, NEW r \in Runs, NEW c \in Last(req[r].batch), WriteLSN(r, c)
  PROVE  req' \in [Runs -> Request] /\ meta' \in [Devices -> [row : BOOLEAN, lsn : Text]]
<1>1. c \in Changes BY RequestFields DEF Last
<1>2. req' \in [Runs -> Request]
  BY GotoTypes, RequestFields, NoLsnIsZero DEF WriteLSN
<1>3. meta' \in [Devices -> [row : BOOLEAN, lsn : Text]]
  BY <1>1, WrittenLsn DEF WriteLSN, TypeOK
<1> QED BY <1>2, <1>3

LEMMA HandlerTypes == ASSUME TypeOK, NEW r \in Runs, Handler(r) PROVE TypeOK'
<1> USE RequestFields, NoLsnIsZero
<1>1. CASE LookUp(r) BY <1>1, GotoTypes DEF LookUp, TypeOK
<1>2. CASE Filter(r)
  <2> DEFINE batch == Taken(Above(DeviceOf[r], req[r].lsn), Limit)
  <2>1. batch \in SUBSET Changes BY DEF Taken, Above, TypeOK
  <2>2. Goto(r, "done", NoLsn, batch) \/ Goto(r, "write", NoLsn, batch)
    BY <1>2 DEF Filter
  <2>3. req' \in [Runs -> Request]
    BY <2>1, <2>2, GotoTypes
  <2> QED BY <1>2, <2>3 DEF Filter, TypeOK
<1>3. CASE WriteMeta(r)
  <2>1. CASE \E c \in Last(req[r].batch) : WriteLSN(r, c)
    BY <1>3, <2>1, WriteLSNTypes DEF WriteMeta, TypeOK
  <2>2. CASE Goto(r, "err", NoLsn, {}) /\ UNCHANGED meta
    BY <1>3, <2>2, GotoTypes DEF WriteMeta, TypeOK
  <2> QED BY <1>3, <2>1, <2>2 DEF WriteMeta
<1>4. CASE ClearChangesForDevice(r)
  <2>1. req' \in [Runs -> Request]
    BY <1>4, GotoTypes DEF ClearChangesForDevice
  <2>2. changes' \in [Devices -> SUBSET Changes]
    BY <1>4 DEF ClearChangesForDevice, TypeOK
  <2> QED BY <1>4, <2>1, <2>2 DEF ClearChangesForDevice, TypeOK
<1>5. CASE Answer(r)
  <2>1. held' \in [Devices -> SUBSET Changes] BY <1>5 DEF Answer, TypeOK
  <2> QED BY <1>5, <2>1, IdleTypes DEF Answer, TypeOK
<1>6. CASE AnswerError(r) BY <1>6, IdleTypes DEF AnswerError, TypeOK
<1>7. CASE GetSyncStatus(r) BY <1>7, IdleTypes, GotoTypes DEF GetSyncStatus, TypeOK
<1>8. CASE WriteDefault(r)
  <2>1. CASE meta' = [meta EXCEPT ![DeviceOf[r]] = [row |-> TRUE, lsn |-> NoLsn]]
    <3>1. meta' \in [Devices -> [row : BOOLEAN, lsn : Text]] BY <2>1 DEF TypeOK
    <3> QED BY <1>8, <3>1, IdleTypes DEF WriteDefault, TypeOK
  <2>2. CASE UNCHANGED meta
    BY <1>8, <2>2, IdleTypes DEF WriteDefault, TypeOK
  <2> QED BY <1>8, <2>1, <2>2 DEF WriteDefault
<1> QED BY <1>1, <1>2, <1>3, <1>4, <1>5, <1>6, <1>7, <1>8 DEF Handler

LEMMA OtherTypes ==
  ASSUME TypeOK,
         \/ Log \/ EngineRestart \/ \E c \in Changes : Commit(c)
         \/ \E r \in Runs : StartPull(r) \/ StartStatus(r)
  PROVE  TypeOK'
<1>1. CASE Log BY <1>1 DEF Log, AddChange, TypeOK
<1>2. CASE EngineRestart
  <2>1. req' \in [Runs -> Request] BY <1>2, NoLsnIsZero DEF EngineRestart, Idle, Request
  <2> QED BY <1>2, <2>1 DEF EngineRestart, TypeOK
<1>3. CASE \E c \in Changes : Commit(c) BY <1>3 DEF Commit, TypeOK
<1>4. ASSUME NEW r \in Runs, StartPull(r) \/ StartStatus(r) PROVE TypeOK'
  BY <1>4, GotoTypes, NoLsnIsZero DEF StartPull, StartStatus, TypeOK
<1> QED BY <1>1, <1>2, <1>3, <1>4

LEMMA TypeStep == ASSUME TypeOK, [Next]_vars PROVE TypeOK'
<1>1. CASE UNCHANGED vars BY <1>1 DEF vars, TypeOK
<1>2. CASE Next BY <1>2, HandlerTypes, OtherTypes DEF Next
<1> QED BY <1>1, <1>2

\* Every reachable state is well typed: the text of every stored LSN is one that ParseLSN
\* reads back (two words of 32 bits).
THEOREM TypeCorrect == Spec => []TypeOK
<1>1. TypeOK /\ [Next]_vars => TypeOK' BY TypeStep
<1> QED BY TypeInit, <1>1, PTL DEF Spec

----------------------------------------------------------------------------
(* The queues and the row: QueueInv, whatever fails *)

LEMMA QueueInit == Init => QueueInv
BY NoLsnIsZero
DEF Init, QueueInv, ReadInOrder, LsnsPassed, NothingHidden, Read, Passed, Idle

\* Nothing below a change that was read is still to be read.
LEMMA NewIsLast ==
  ASSUME TypeOK, QueueInv, NEW c \in Changes, AddChange(c), NEW k \in Read
  PROVE  Lsn[k] < Lsn[c]
<1>1. k \in Changes /\ k # c /\ c \notin Read BY DEF AddChange, Read
<1>2. c \notin Before(k) BY <1>1 DEF QueueInv, ReadInOrder
<1>3. Lsn[c] # Lsn[k] BY <1>1, LsnAssumption
<1> QED BY <1>1, <1>2, <1>3, LsnIsNumber DEF Before

LEMMA AddReads ==
  ASSUME TypeOK, NEW c \in Changes, AddChange(c)
  PROVE  Read' = Read \cup {c}
BY DEF AddChange, Read, TypeOK

LEMMA QueueAdd ==
  ASSUME TypeOK, QueueInv, NEW c \in Changes, AddChange(c)
  PROVE  QueueInv'
<1>1. Read' = Read \cup {c} /\ UNCHANGED <<meta, req, held>>
  BY AddReads DEF AddChange
<1>2. \A d \in Devices : changes'[d] = changes[d] \/ changes'[d] = changes[d] \cup {c}
  BY DEF AddChange, TypeOK
<1>3. ReadInOrder'
  BY <1>1, <1>2 DEF QueueInv, ReadInOrder, AddChange, Before
<1>4. LsnsPassed' BY <1>1 DEF QueueInv, LsnsPassed, Passed
<1>5. NothingHidden'
  <2> SUFFICES ASSUME NEW d \in Devices, NEW k \in changes'[d]
               PROVE  \/ Lsn[k] > ParseLSN(meta[d].lsn)
                      \/ \E r \in Pulls(d) :
                           req[r].pc = "clear" /\ \E j \in Last(req[r].batch) : Lsn[k] <= Lsn[j]
    BY <1>1 DEF NothingHidden, Last, Pulls
  <2>1. CASE k \in changes[d] BY <2>1 DEF QueueInv, NothingHidden
  <2>2. CASE k = c
    <3>1. Passed(meta[d].lsn) BY DEF QueueInv, LsnsPassed
    <3> QED BY <2>2, <3>1, NewIsLast, LsnIsNumber DEF Passed
  <2> QED BY <1>2, <2>1, <2>2
<1> QED BY <1>3, <1>4, <1>5 DEF QueueInv

\* A step of one request that leaves the log, the queues and the rows alone and is not the
\* end of a "clear".
LEMMA QueueGoes ==
  ASSUME TypeOK, QueueInv, NEW r \in Runs, req[r].pc # "clear",
         UNCHANGED <<wal, changes, meta>>,
         \/ req' = [req EXCEPT ![r] = Idle]
         \/ \E pc, lsn, batch :
              Goto(r, pc, lsn, batch) /\ Passed(lsn) /\ batch \subseteq Read
  PROVE  QueueInv'
<1>1. Read' = Read BY DEF Read
<1>2. \A s \in Runs : s # r => req'[s] = req[s] BY DEF TypeOK, Goto
<1>3. Passed(NoLsn) BY NoLsnIsZero DEF Passed
<1>4. req'[r].batch \subseteq Read /\ Passed(req'[r].lsn)
  <2>1. CASE req' = [req EXCEPT ![r] = Idle] BY <2>1, <1>3 DEF TypeOK, Idle
  <2>2. ASSUME NEW pc, NEW lsn, NEW batch,
               Goto(r, pc, lsn, batch), Passed(lsn), batch \subseteq Read
        PROVE  req'[r].batch \subseteq Read /\ Passed(req'[r].lsn)
    BY <2>2 DEF TypeOK, Goto
  <2> QED BY <2>1, <2>2
<1>5. ReadInOrder' BY <1>1, <1>2, <1>4 DEF QueueInv, ReadInOrder, Before
<1>6. LsnsPassed' BY <1>1, <1>2, <1>4 DEF QueueInv, LsnsPassed, Passed
<1>7. NothingHidden' BY <1>2 DEF QueueInv, NothingHidden, Pulls, Last
<1> QED BY <1>5, <1>6, <1>7 DEF QueueInv

LEMMA QueueWrite ==
  ASSUME TypeOK, QueueInv, NEW r \in Runs, NEW b \in Last(req[r].batch),
         WriteLSN(r, b), UNCHANGED <<wal, changes>>
  PROVE  QueueInv'
<1> DEFINE d0 == DeviceOf[r]
<1>1. Read' = Read BY DEF Read
<1>2. d0 \in Devices /\ b \in Read /\ b \in Changes
  BY RequestFields DEF QueueInv, ReadInOrder, Last
<1>3. /\ ParseLSN(meta'[d0].lsn) = Lsn[b]
      /\ \A d \in Devices : d # d0 => meta'[d] = meta[d]
  BY <1>2, WrittenLsn DEF WriteLSN, TypeOK
<1>4. /\ req'[r] = [pc |-> "clear", lsn |-> NoLsn, batch |-> req[r].batch]
      /\ \A s \in Runs : s # r => req'[s] = req[s]
  BY DEF WriteLSN, Goto, TypeOK
<1>5. ReadInOrder' BY <1>1, <1>4 DEF QueueInv, ReadInOrder, Before
<1>6. LsnsPassed'
  <2>1. \A d \in Devices : Passed(meta'[d].lsn)
    BY <1>2, <1>3 DEF QueueInv, LsnsPassed, Passed
  <2>2. \A s \in Runs : Passed(req'[s].lsn)
    BY <1>4, NoLsnIsZero DEF QueueInv, LsnsPassed, Passed
  <2> QED BY <1>1, <2>1, <2>2 DEF LsnsPassed, Passed
<1>7. NothingHidden'
  <2> SUFFICES ASSUME NEW d \in Devices, NEW c \in changes[d]
               PROVE  \/ Lsn[c] > ParseLSN(meta'[d].lsn)
                      \/ \E s \in Pulls(d) :
                           req'[s].pc = "clear" /\ \E j \in Last(req'[s].batch) : Lsn[c] <= Lsn[j]
    BY DEF NothingHidden, Last, Pulls
  <2>1. c \in Changes BY DEF TypeOK
  <2>2. CASE d = d0
    <3>1. CASE Lsn[c] > Lsn[b] BY <1>3, <2>2, <3>1
    <3>2. CASE Lsn[c] <= Lsn[b] BY <1>4, <2>2, <3>2 DEF Pulls
    <3> QED BY <1>2, <2>1, <3>1, <3>2, LsnIsNumber
  <2>3. CASE d # d0
    BY <1>3, <1>4, <2>3 DEF QueueInv, NothingHidden, Pulls
  <2> QED BY <2>2, <2>3
<1> QED BY <1>5, <1>6, <1>7 DEF QueueInv

LEMMA QueueClear ==
  ASSUME TypeOK, QueueInv, NEW r \in Runs, ClearChangesForDevice(r)
  PROVE  QueueInv'
<1> DEFINE d0 == DeviceOf[r]
<1>1. Read' = Read /\ UNCHANGED meta BY DEF Read, ClearChangesForDevice
<1>2. /\ d0 \in Devices
      /\ changes'[d0] = {c \in changes[d0] : \A k \in Last(req[r].batch) : Lsn[c] > Lsn[k]}
      /\ \A d \in Devices : d # d0 => changes'[d] = changes[d]
  BY RequestFields DEF ClearChangesForDevice, TypeOK
<1>3. /\ req'[r] = [pc |-> "done", lsn |-> NoLsn, batch |-> req[r].batch]
      /\ \A s \in Runs : s # r => req'[s] = req[s]
  BY DEF ClearChangesForDevice, Goto, TypeOK
<1>4. ReadInOrder'
  <2>1. \A d \in Devices : changes'[d] \subseteq Read
    BY <1>2 DEF QueueInv, ReadInOrder
  <2>2. \A s \in Runs : req'[s].batch \subseteq Read
    BY <1>3 DEF QueueInv, ReadInOrder
  <2> QED BY <1>1, <2>1, <2>2 DEF QueueInv, ReadInOrder, Before
<1>5. LsnsPassed' BY <1>1, <1>3, NoLsnIsZero DEF QueueInv, LsnsPassed, Passed
<1>6. NothingHidden'
  <2> SUFFICES ASSUME NEW d \in Devices, NEW c \in changes'[d]
               PROVE  \/ Lsn[c] > ParseLSN(meta[d].lsn)
                      \/ \E s \in Pulls(d) :
                           req'[s].pc = "clear" /\ \E j \in Last(req'[s].batch) : Lsn[c] <= Lsn[j]
    BY <1>1 DEF NothingHidden, Last, Pulls
  <2>1. c \in changes[d] /\ c \in Changes BY <1>2 DEF TypeOK
  <2>2. CASE Lsn[c] > ParseLSN(meta[d].lsn) BY <2>2
  <2>3. ASSUME NEW s \in Pulls(d), req[s].pc = "clear",
               NEW j \in Last(req[s].batch), Lsn[c] <= Lsn[j]
        PROVE  s # r
    <3> SUFFICES ASSUME s = r PROVE FALSE OBVIOUS
    <3>1. Lsn[c] > Lsn[j] BY <1>2, <2>3 DEF Pulls
    <3>2. j \in Changes BY RequestFields, <2>3 DEF Last
    <3> QED BY <2>1, <2>3, <3>1, <3>2, LsnIsNumber
  <2> QED BY <2>1, <2>2, <2>3, <1>3 DEF QueueInv, NothingHidden, Pulls
<1> QED BY <1>4, <1>5, <1>6 DEF QueueInv

\* The row is made anew without an LSN.
LEMMA QueueDefault ==
  ASSUME TypeOK, QueueInv, NEW r \in Runs, WriteDefault(r)
  PROVE  QueueInv'
<1>1. CASE UNCHANGED meta
  BY <1>1, QueueGoes DEF WriteDefault
<1>2. CASE meta' = [meta EXCEPT ![DeviceOf[r]] = [row |-> TRUE, lsn |-> NoLsn]]
  <2>1. Read' = Read /\ UNCHANGED changes BY DEF Read, WriteDefault
  <2>2. \A d \in Devices : meta'[d] = meta[d] \/ ParseLSN(meta'[d].lsn) = 0
    BY <1>2, NoLsnIsZero DEF TypeOK
  <2>3. /\ req[r].pc = "default" /\ req'[r] = Idle
        /\ \A s \in Runs : s # r => req'[s] = req[s]
    BY DEF WriteDefault, TypeOK
  <2>4. ReadInOrder' BY <2>1, <2>3 DEF QueueInv, ReadInOrder, Before, Idle
  <2>5. LsnsPassed'
    BY <2>1, <2>2, <2>3, NoLsnIsZero DEF QueueInv, LsnsPassed, Passed, Idle
  <2>6. NothingHidden'
    <3> SUFFICES ASSUME NEW d \in Devices, NEW c \in changes[d]
                 PROVE  \/ Lsn[c] > ParseLSN(meta'[d].lsn)
                        \/ \E s \in Pulls(d) :
                             req'[s].pc = "clear" /\ \E j \in Last(req'[s].batch) : Lsn[c] <= Lsn[j]
      BY <2>1 DEF NothingHidden, Last, Pulls
    <3>1. c \in Changes BY DEF TypeOK
    <3>2. CASE ParseLSN(meta'[d].lsn) = 0 BY <3>1, <3>2, LsnIsNumber
    <3>3. CASE meta'[d] = meta[d]
      BY <2>3, <3>3 DEF QueueInv, NothingHidden, Pulls
    <3> QED BY <2>2, <3>2, <3>3
  <2> QED BY <2>4, <2>5, <2>6 DEF QueueInv
<1> QED BY <1>1, <1>2 DEF WriteDefault

LEMMA QueueRestart == ASSUME TypeOK, QueueInv, EngineRestart PROVE QueueInv'
<1>1. Read' = Read BY DEF EngineRestart, Read
<1>2. ReadInOrder' BY <1>1 DEF EngineRestart, QueueInv, ReadInOrder, Before, Idle
<1>3. LsnsPassed'
  BY <1>1, NoLsnIsZero DEF EngineRestart, QueueInv, LsnsPassed, Passed, Idle
<1>4. NothingHidden' BY DEF EngineRestart, NothingHidden
<1> QED BY <1>2, <1>3, <1>4 DEF QueueInv

\* What a filtered answer is made of.
LEMMA FilterReads ==
  ASSUME TypeOK, QueueInv, NEW r \in Runs
  PROVE  Taken(Above(DeviceOf[r], req[r].lsn), Limit) \subseteq Read
BY RequestFields DEF Taken, Above, QueueInv, ReadInOrder

LEMMA QueueHandler ==
  ASSUME TypeOK, QueueInv, NEW r \in Runs, Handler(r)
  PROVE  QueueInv'
<1>1. Passed(NoLsn) /\ Passed(meta[DeviceOf[r]].lsn) /\ {} \subseteq Read
  BY NoLsnIsZero, RequestFields DEF QueueInv, LsnsPassed, Passed
<1>2. CASE LookUp(r) BY <1>1, <1>2, QueueGoes DEF LookUp
<1>3. CASE Filter(r) BY <1>1, <1>3, QueueGoes, FilterReads DEF Filter
<1>4. CASE WriteMeta(r) BY <1>1, <1>4, QueueGoes, QueueWrite DEF WriteMeta
<1>5. CASE ClearChangesForDevice(r) BY <1>5, QueueClear
<1>6. CASE Answer(r) BY <1>6, QueueGoes DEF Answer
<1>7. CASE AnswerError(r) BY <1>7, QueueGoes DEF AnswerError
<1>8. CASE GetSyncStatus(r) BY <1>1, <1>8, QueueGoes DEF GetSyncStatus
<1>9. CASE WriteDefault(r) BY <1>9, QueueDefault
<1> QED BY <1>2, <1>3, <1>4, <1>5, <1>6, <1>7, <1>8, <1>9 DEF Handler

LEMMA QueueStep == ASSUME TypeOK, QueueInv, [Next]_vars PROVE QueueInv'
<1>1. CASE UNCHANGED vars
  BY <1>1 DEF vars, QueueInv, ReadInOrder, LsnsPassed, NothingHidden, Read, Before,
              Passed, Pulls, Last
<1>2. CASE Log BY <1>2, QueueAdd DEF Log
<1>3. CASE EngineRestart BY <1>3, QueueRestart
<1>4. ASSUME NEW c \in Changes, Commit(c) PROVE QueueInv'
  <2>1. Read' = Read BY <1>4 DEF Commit, Read, TypeOK
  <2> QED BY <1>4, <2>1
      DEF Commit, QueueInv, ReadInOrder, LsnsPassed, NothingHidden, Before, Passed, Pulls, Last
<1>5. ASSUME NEW r \in Runs, StartPull(r) \/ StartStatus(r) PROVE QueueInv'
  <2>1. Passed(NoLsn) /\ {} \subseteq Read BY NoLsnIsZero DEF Passed
  <2> QED BY <1>5, <2>1, QueueGoes DEF StartPull, StartStatus, Idle
<1>6. CASE \E r \in Runs : Handler(r) BY <1>6, QueueHandler
<1> QED BY <1>1, <1>2, <1>3, <1>4, <1>5, <1>6 DEF Next

LEMMA QueueInvariant == Spec => [](TypeOK /\ QueueInv)
<1>1. TypeOK /\ QueueInv /\ [Next]_vars => (TypeOK /\ QueueInv)'
  BY TypeStep, QueueStep
<1> QED BY TypeInit, QueueInit, <1>1, PTL DEF Spec

\* However requests overlap, and whatever statements fail, replies get lost and restarts
\* happen, no change stays in a queue below the LSN of the row, where every later pull would
\* pass it over.
THEOREM NothingHiddenHolds == Spec => []NothingHidden
<1>1. QueueInv => NothingHidden BY DEF QueueInv
<1> QED BY QueueInvariant, <1>1, PTL

----------------------------------------------------------------------------
(* What was handed out stays handed out, and nothing is skipped: GapInv *)

\* A slot that holds no settled answer may change at will.
LEMMA HandedFrame ==
  ASSUME TypeOK, NEW r \in Runs, req[r].pc \notin {"clear", "done"}, UNCHANGED held,
         \A s \in Runs : s # r => req'[s] = req[s],
         NEW d \in Devices, NEW c \in Changes, HandedOut(d, c)
  PROVE  HandedOut(d, c)'
BY DEF HandedOut, Pulls

LEMMA HandedKept ==
  ASSUME TypeOK, "lost" \notin Faults, "restart" \notin Faults, [Next]_vars,
         NEW d \in Devices, NEW c \in Changes, HandedOut(d, c)
  PROVE  HandedOut(d, c)'
<1>1. CASE UNCHANGED <<req, held>> BY <1>1 DEF HandedOut, Pulls
<1>2. ASSUME NEW r \in Runs, req[r].pc \notin {"clear", "done"}, UNCHANGED held,
             \/ req' = [req EXCEPT ![r] = Idle]
             \/ \E pc, lsn, batch : Goto(r, pc, lsn, batch)
      PROVE  HandedOut(d, c)'
  <2>1. \A s \in Runs : s # r => req'[s] = req[s] BY <1>2 DEF TypeOK, Goto
  <2> QED BY <1>2, <2>1, HandedFrame
<1>3. ASSUME NEW r \in Runs, ClearChangesForDevice(r) PROVE HandedOut(d, c)'
  <2>1. /\ req'[r] = [pc |-> "done", lsn |-> NoLsn, batch |-> req[r].batch]
        /\ \A s \in Runs : s # r => req'[s] = req[s]
        /\ UNCHANGED held
    BY <1>3 DEF ClearChangesForDevice, Goto, TypeOK
  <2> QED BY <2>1 DEF HandedOut, Pulls
<1>4. ASSUME NEW r \in Runs, Answer(r) PROVE HandedOut(d, c)'
  <2>1. \A s \in Runs : s # r => req'[s] = req[s] BY <1>4 DEF Answer, TypeOK
  <2>2. /\ held'[DeviceOf[r]] = held[DeviceOf[r]] \cup req[r].batch
        /\ \A e \in Devices : e # DeviceOf[r] => held'[e] = held[e]
    BY <1>4, RequestFields DEF Answer, TypeOK
  <2> QED BY <2>1, <2>2 DEF HandedOut, Pulls
<1>5. ASSUME NEW r \in Runs, Handler(r) PROVE HandedOut(d, c)'
  <2>1. CASE LookUp(r) BY <2>1, <1>2 DEF LookUp
  <2>2. CASE Filter(r) BY <2>2, <1>2 DEF Filter
  <2>3. CASE WriteMeta(r) BY <2>3, <1>2 DEF WriteMeta, WriteLSN
  <2>4. CASE AnswerError(r) BY <2>4, <1>2 DEF AnswerError
  <2>5. CASE GetSyncStatus(r) BY <2>5, <1>2 DEF GetSyncStatus
  <2>6. CASE WriteDefault(r) BY <2>6, <1>2 DEF WriteDefault
  <2> QED BY <1>3, <1>4, <1>5, <2>1, <2>2, <2>3, <2>4, <2>5, <2>6 DEF Handler
<1>6. ASSUME NEW r \in Runs, StartPull(r) \/ StartStatus(r) PROVE HandedOut(d, c)'
  BY <1>6, <1>2 DEF StartPull, StartStatus, Idle
<1>7. CASE Log \/ \E k \in Changes : Commit(k) BY <1>1, <1>7 DEF Log, AddChange, Commit
<1> QED BY <1>1, <1>5, <1>6, <1>7 DEF Next, EngineRestart, vars

LEMMA GapInit == Init => GapInv
BY DEF Init, GapInv, NoGap, LookedUpCovers, BatchCovers, Read, Idle

\* A change just read lies above every row, every LSN looked up and every answer.
LEMMA GapAdd ==
  ASSUME TypeOK, QueueInv, GapInv, "lost" \notin Faults, "restart" \notin Faults,
         NEW c \in Changes, AddChange(c)
  PROVE  GapInv'
<1>1. /\ Read' = Read \cup {c}
      /\ UNCHANGED <<meta, req, held>>
      /\ \A d \in Devices : /\ changes[d] \subseteq changes'[d]
                            /\ d \in Targets(c) => c \in changes'[d]
  BY AddReads DEF AddChange, TypeOK
<1>2. \A d \in Devices, k \in Changes : HandedOut(d, k)' = HandedOut(d, k)
  BY <1>1 DEF HandedOut, Pulls
<1>3. \A lsn \in Text : Passed(lsn) => ~ (Lsn[c] <= ParseLSN(lsn))
  BY NewIsLast, LsnIsNumber DEF Passed, Read
<1>4. NoGap'
  <2> SUFFICES ASSUME NEW d \in Devices, NEW k \in Read', d \in Targets(k)
               PROVE  HandedOut(d, k) \/ (k \in changes'[d] /\ Lsn[k] > ParseLSN(meta[d].lsn))
    BY <1>1, <1>2 DEF NoGap, Targets, DevicesOf, Read
  <2>1. CASE k \in Read BY <1>1, <2>1 DEF GapInv, NoGap
  <2>2. CASE k = c
    <3>1. Passed(meta[d].lsn) /\ meta[d].lsn \in Text BY DEF QueueInv, LsnsPassed, TypeOK
    <3>2. ParseLSN(meta[d].lsn) \in Nat /\ Lsn[c] \in Nat BY <3>1, TextIsNumber, LsnIsNumber
    <3> QED BY <1>1, <1>3, <2>2, <3>1, <3>2
  <2> QED BY <1>1, <2>1, <2>2
<1>5. LookedUpCovers'
  <2> SUFFICES ASSUME NEW r \in Runs, req[r].pc = "filter", NEW k \in Read',
                      DeviceOf[r] \in Targets(k), Lsn[k] <= ParseLSN(req[r].lsn)
               PROVE  HandedOut(DeviceOf[r], k)
    BY <1>1, <1>2, RequestFields DEF LookedUpCovers, Targets, DevicesOf, Read
  <2>1. Passed(req[r].lsn) /\ req[r].lsn \in Text
    BY RequestFields DEF QueueInv, LsnsPassed
  <2>2. k \in Read BY <1>1, <1>3, <2>1
  <2> QED BY <2>2 DEF GapInv, LookedUpCovers
<1>6. BatchCovers'
  <2> SUFFICES ASSUME NEW r \in Runs, req[r].pc \in {"write", "clear"},
                      NEW b \in req[r].batch, NEW k \in Read',
                      DeviceOf[r] \in Targets(k), Lsn[k] <= Lsn[b]
               PROVE  k \in req[r].batch \/ HandedOut(DeviceOf[r], k)
    BY <1>1, <1>2, RequestFields DEF BatchCovers, Targets, DevicesOf, Read
  <2>1. b \in Read /\ b \in Changes BY RequestFields DEF QueueInv, ReadInOrder
  <2>2. Lsn[b] < Lsn[c] BY <2>1, NewIsLast
  <2>3. k \in Read BY <1>1, <2>1, <2>2, LsnIsNumber
  <2> QED BY <2>3 DEF GapInv, BatchCovers
<1> QED BY <1>4, <1>5, <1>6 DEF GapInv

\* A step of one request: enough that its own new place is covered, and that what was waiting
\* in a queue above the row still is or has been handed out.
LEMMA GapFrame ==
  ASSUME TypeOK, GapInv, "lost" \notin Faults, "restart" \notin Faults,
         [Next]_vars, UNCHANGED wal,
         NEW r \in Runs, \A s \in Runs : s # r => req'[s] = req[s],
         \A d \in Devices, c \in Read :
           d \in Targets(c) /\ c \in changes[d] /\ Lsn[c] > ParseLSN(meta[d].lsn) =>
             HandedOut(d, c)' \/ (c \in changes'[d] /\ Lsn[c] > ParseLSN(meta'[d].lsn)),
         req'[r].pc = "filter" =>
           \A c \in Read :
             DeviceOf[r] \in Targets(c) /\ Lsn[c] <= ParseLSN(req'[r].lsn) =>
               HandedOut(DeviceOf[r], c),
         req'[r].pc \in {"write", "clear"} =>
           \A k \in req'[r].batch, c \in Read :
             DeviceOf[r] \in Targets(c) /\ Lsn[c] <= Lsn[k] =>
               c \in req'[r].batch \/ HandedOut(DeviceOf[r], c)
  PROVE  GapInv'
<1>1. Read' = Read /\ Read \subseteq Changes BY DEF Read
<1>2. \A d \in Devices, c \in Read : HandedOut(d, c) => HandedOut(d, c)'
  BY <1>1, HandedKept
<1>3. \A s \in Runs : DeviceOf[s] \in Devices BY RequestFields
<1>4. NoGap' BY <1>1, <1>2 DEF GapInv, NoGap, Targets, DevicesOf
<1>5. LookedUpCovers'
  <2> SUFFICES ASSUME NEW s \in Runs, req'[s].pc = "filter", NEW c \in Read,
                      DeviceOf[s] \in Targets(c), Lsn[c] <= ParseLSN(req'[s].lsn)
               PROVE  HandedOut(DeviceOf[s], c)
    BY <1>1, <1>2, <1>3 DEF LookedUpCovers, Targets, DevicesOf
  <2> QED BY DEF GapInv, LookedUpCovers
<1>6. BatchCovers'
  <2> SUFFICES ASSUME NEW s \in Runs, req'[s].pc \in {"write", "clear"},
                      NEW k \in req'[s].batch, NEW c \in Read,
                      DeviceOf[s] \in Targets(c), Lsn[c] <= Lsn[k]
               PROVE  c \in req'[s].batch \/ HandedOut(DeviceOf[s], c)
    BY <1>1, <1>2, <1>3 DEF BatchCovers, Targets, DevicesOf
  <2> QED BY DEF GapInv, BatchCovers
<1> QED BY <1>4, <1>5, <1>6 DEF GapInv

\* A step that only moves a request to a place that claims nothing.
LEMMA GapGoes ==
  ASSUME TypeOK, GapInv, "lost" \notin Faults, "restart" \notin Faults,
         [Next]_vars, UNCHANGED <<wal, changes>>,
         NEW r \in Runs,
         \/ req' = [req EXCEPT ![r] = Idle]
         \/ \E pc \in {"lookup", "done", "err", "status", "default"} :
              \E lsn, batch : Goto(r, pc, lsn, batch),
         \A d \in Devices : meta'[d] = meta[d] \/ ParseLSN(meta'[d].lsn) = 0
  PROVE  GapInv'
<1>1. /\ \A s \in Runs : s # r => req'[s] = req[s]
      /\ req'[r].pc \notin {"filter", "write", "clear"}
  BY DEF TypeOK, Goto, Idle
<1>2. \A c \in Read : Lsn[c] > 0 BY LsnIsNumber DEF Read
<1>3. \A d \in Devices, c \in Read :
        Lsn[c] > ParseLSN(meta[d].lsn) => Lsn[c] > ParseLSN(meta'[d].lsn)
  BY <1>2
<1> QED BY <1>1, <1>3, GapFrame

LEMMA GapLookUp ==
  ASSUME TypeOK, GapInv, "lost" \notin Faults, "restart" \notin Faults,
         NEW r \in Runs, LookUp(r), [Next]_vars
  PROVE  GapInv'
<1>1. CASE Goto(r, "filter", meta[DeviceOf[r]].lsn, {})
  <2>1. /\ req'[r] = [pc |-> "filter", lsn |-> meta[DeviceOf[r]].lsn, batch |-> {}]
        /\ \A s \in Runs : s # r => req'[s] = req[s]
    BY <1>1 DEF Goto, TypeOK
  <2>2. \A c \in Read :
          DeviceOf[r] \in Targets(c) /\ Lsn[c] <= ParseLSN(meta[DeviceOf[r]].lsn) =>
            HandedOut(DeviceOf[r], c)
    <3> SUFFICES ASSUME NEW c \in Read, DeviceOf[r] \in Targets(c),
                        Lsn[c] <= ParseLSN(meta[DeviceOf[r]].lsn)
                 PROVE  HandedOut(DeviceOf[r], c)
      OBVIOUS
    <3>1. ParseLSN(meta[DeviceOf[r]].lsn) \in Nat /\ Lsn[c] \in Nat
      BY RequestFields, TextIsNumber, LsnIsNumber DEF Read
    <3>2. ~ (Lsn[c] > ParseLSN(meta[DeviceOf[r]].lsn)) BY <3>1
    <3> QED BY <3>2, RequestFields DEF GapInv, NoGap
  <2> QED BY <2>1, <2>2, GapFrame DEF LookUp
<1>2. CASE Goto(r, "err", NoLsn, {})
  BY <1>2, GapGoes DEF LookUp
<1> QED BY <1>1, <1>2 DEF LookUp

\* The first changes above an LSN leave out nothing that lies below one of them.
LEMMA TakenCovers ==
  ASSUME TypeOK, NEW S \in SUBSET Changes, NEW k \in Taken(S, Limit), NEW c \in S,
         Lsn[c] <= Lsn[k]
  PROVE  c \in Taken(S, Limit)
<1> DEFINE Below(e) == {j \in S : Lsn[j] < Lsn[e]}
<1>1. k \in S /\ Cardinality(Below(k)) < Limit BY DEF Taken
<1>2. Below(c) \subseteq Below(k) BY <1>1, LsnIsNumber
<1>3. IsFiniteSet(Below(k)) BY ChangesAssumption, FS_Subset
<1>4. /\ Cardinality(Below(c)) <= Cardinality(Below(k))
      /\ IsFiniteSet(Below(c))
  BY <1>2, <1>3, FS_Subset
<1>5. Cardinality(Below(c)) \in Nat /\ Cardinality(Below(k)) \in Nat
  BY <1>3, <1>4, FS_CardinalityType
<1>6. Cardinality(Below(c)) < Limit BY <1>1, <1>4, <1>5, PullAssumption
<1> QED BY <1>6 DEF Taken

LEMMA GapFilter ==
  ASSUME TypeOK, GapInv, "lost" \notin Faults, "restart" \notin Faults,
         NEW r \in Runs, Filter(r), [Next]_vars
  PROVE  GapInv'
<1> DEFINE above == Above(DeviceOf[r], req[r].lsn)
           batch == Taken(above, Limit)
<1>1. CASE Goto(r, "done", NoLsn, batch)
  BY <1>1, GapGoes DEF Filter
<1>2. CASE Goto(r, "write", NoLsn, batch)
  <2>1. /\ req'[r] = [pc |-> "write", lsn |-> NoLsn, batch |-> batch]
        /\ \A s \in Runs : s # r => req'[s] = req[s]
    BY <1>2 DEF Goto, TypeOK
  <2>2. ASSUME NEW k \in batch, NEW c \in Read, DeviceOf[r] \in Targets(c), Lsn[c] <= Lsn[k]
        PROVE  c \in batch \/ HandedOut(DeviceOf[r], c)
    <3>1. above \in SUBSET Changes BY RequestFields DEF Above, TypeOK
    <3>2. c \in Changes /\ Lsn[c] \in Nat /\ ParseLSN(req[r].lsn) \in Nat
      BY RequestFields, TextIsNumber, LsnIsNumber DEF Read
    <3>3. CASE Lsn[c] <= ParseLSN(req[r].lsn)
      BY <2>2, <3>3 DEF GapInv, LookedUpCovers, Filter
    <3>4. CASE Lsn[c] > ParseLSN(req[r].lsn) /\ c \in changes[DeviceOf[r]]
      <4>1. c \in above BY <3>2, <3>4 DEF Above
      <4> QED BY <2>2, <3>1, <4>1, TakenCovers
    <3>5. CASE c \notin changes[DeviceOf[r]]
      BY <2>2, <3>5, RequestFields DEF GapInv, NoGap
    <3> QED BY <3>2, <3>3, <3>4, <3>5
  <2> QED BY <2>1, <2>2, GapFrame DEF Filter
<1> QED BY <1>1, <1>2 DEF Filter

LEMMA GapWrite ==
  ASSUME TypeOK, GapInv, "lost" \notin Faults, "restart" \notin Faults,
         NEW r \in Runs, WriteMeta(r), [Next]_vars
  PROVE  GapInv'
<1> DEFINE d0 == DeviceOf[r]
<1>1. ASSUME NEW b \in Last(req[r].batch), WriteLSN(r, b) PROVE GapInv'
  <2>1. d0 \in Devices /\ b \in req[r].batch /\ b \in Changes
    BY RequestFields DEF Last
  <2>2. /\ req'[r] = [pc |-> "clear", lsn |-> NoLsn, batch |-> req[r].batch]
        /\ \A s \in Runs : s # r => req'[s] = req[s]
    BY <1>1 DEF WriteLSN, Goto, TypeOK
  <2>3. /\ ParseLSN(meta'[d0].lsn) = Lsn[b]
        /\ \A d \in Devices : d # d0 => meta'[d] = meta[d]
    BY <1>1, <2>1, WrittenLsn DEF WriteLSN, TypeOK
  <2>4. \A k \in req[r].batch, c \in Read :
          d0 \in Targets(c) /\ Lsn[c] <= Lsn[k] => c \in req[r].batch \/ HandedOut(d0, c)
    BY DEF GapInv, BatchCovers, WriteMeta
  <2>5. ASSUME NEW d \in Devices, NEW c \in Read, d \in Targets(c), c \in changes[d],
               Lsn[c] > ParseLSN(meta[d].lsn)
        PROVE  HandedOut(d, c)' \/ (c \in changes'[d] /\ Lsn[c] > ParseLSN(meta'[d].lsn))
    <3>1. UNCHANGED changes BY DEF WriteMeta
    <3>2. CASE d # d0 BY <2>3, <2>5, <3>1, <3>2
    <3>3. CASE d = d0 /\ Lsn[c] > Lsn[b] BY <2>3, <2>5, <3>1, <3>3
    <3>4. CASE d = d0 /\ Lsn[c] <= Lsn[b]
      <4>1. c \in req[r].batch \/ HandedOut(d, c) BY <2>1, <2>4, <2>5, <3>4
      <4>2. CASE c \in req[r].batch BY <2>2, <3>4, <4>2 DEF HandedOut, Pulls
      <4>3. CASE HandedOut(d, c) BY <4>3, HandedKept DEF Read
      <4> QED BY <4>1, <4>2, <4>3
    <3> QED BY <2>1, <3>2, <3>3, <3>4, LsnIsNumber DEF Read
  <2> QED BY <2>2, <2>4, <2>5, GapFrame DEF WriteMeta
<1>2. CASE Goto(r, "err", NoLsn, {}) /\ UNCHANGED meta
  BY <1>2, GapGoes DEF WriteMeta
<1> QED BY <1>1, <1>2 DEF WriteMeta

LEMMA GapClear ==
  ASSUME TypeOK, GapInv, "lost" \notin Faults, "restart" \notin Faults,
         NEW r \in Runs, ClearChangesForDevice(r), [Next]_vars
  PROVE  GapInv'
<1> DEFINE d0 == DeviceOf[r]
<1>1. /\ d0 \in Devices
      /\ changes'[d0] = {c \in changes[d0] : \A k \in Last(req[r].batch) : Lsn[c] > Lsn[k]}
      /\ \A d \in Devices : d # d0 => changes'[d] = changes[d]
      /\ UNCHANGED <<wal, meta>>
  BY RequestFields DEF ClearChangesForDevice, TypeOK
<1>2. /\ req[r].pc = "clear"
      /\ req'[r] = [pc |-> "done", lsn |-> NoLsn, batch |-> req[r].batch]
      /\ \A s \in Runs : s # r => req'[s] = req[s]
  BY DEF ClearChangesForDevice, Goto, TypeOK
<1>3. ASSUME NEW d \in Devices, NEW c \in Read, d \in Targets(c), c \in changes[d],
             Lsn[c] > ParseLSN(meta[d].lsn)
      PROVE  HandedOut(d, c)' \/ (c \in changes'[d] /\ Lsn[c] > ParseLSN(meta'[d].lsn))
  <2>1. CASE c \in changes'[d] BY <1>1, <1>3, <2>1
  <2>2. CASE c \notin changes'[d]
    <3>1. PICK k \in Last(req[r].batch) : ~ (Lsn[c] > Lsn[k]) /\ d = d0
      BY <1>1, <1>3, <2>2
    <3>2. k \in req[r].batch /\ k \in Changes BY RequestFields DEF Last
    <3>3. Lsn[c] <= Lsn[k] BY <3>1, <3>2, LsnIsNumber DEF Read
    <3>4. c \in req[r].batch \/ HandedOut(d, c)
      BY <1>2, <1>3, <3>1, <3>2, <3>3 DEF GapInv, BatchCovers
    <3>5. HandedOut(d, c) BY <1>2, <3>1, <3>4 DEF HandedOut, Pulls
    <3> QED BY <3>5, HandedKept DEF Read
  <2> QED BY <2>1, <2>2
<1> QED BY <1>1, <1>2, <1>3, GapFrame

LEMMA GapHandler ==
  ASSUME TypeOK, GapInv, "lost" \notin Faults, "restart" \notin Faults,
         NEW r \in Runs, Handler(r), [Next]_vars
  PROVE  GapInv'
<1>1. CASE LookUp(r) BY <1>1, GapLookUp
<1>2. CASE Filter(r) BY <1>2, GapFilter
<1>3. CASE WriteMeta(r) BY <1>3, GapWrite
<1>4. CASE ClearChangesForDevice(r) BY <1>4, GapClear
<1>5. CASE Answer(r) BY <1>5, GapGoes DEF Answer
<1>6. CASE AnswerError(r) BY <1>6, GapGoes DEF AnswerError
<1>7. CASE GetSyncStatus(r) BY <1>7, GapGoes DEF GetSyncStatus
<1>8. CASE WriteDefault(r)
  <2>1. \A d \in Devices : meta'[d] = meta[d] \/ ParseLSN(meta'[d].lsn) = 0
    BY <1>8, NoLsnIsZero DEF WriteDefault, TypeOK
  <2> QED BY <1>8, <2>1, GapGoes DEF WriteDefault
<1> QED BY <1>1, <1>2, <1>3, <1>4, <1>5, <1>6, <1>7, <1>8 DEF Handler

LEMMA GapStep ==
  ASSUME TypeOK, QueueInv, GapInv, "lost" \notin Faults, "restart" \notin Faults, [Next]_vars
  PROVE  GapInv'
<1>1. CASE UNCHANGED vars
  BY <1>1 DEF vars, GapInv, NoGap, LookedUpCovers, BatchCovers, Read, HandedOut, Pulls, Targets,
              DevicesOf
<1>2. CASE Log BY <1>2, GapAdd DEF Log
<1>3. CASE EngineRestart BY <1>3 DEF EngineRestart
<1>4. ASSUME NEW c \in Changes, Commit(c) PROVE GapInv'
  <2>1. Read' = Read BY <1>4 DEF Commit, Read, TypeOK
  <2> QED BY <1>4, <2>1
      DEF Commit, GapInv, NoGap, LookedUpCovers, BatchCovers, HandedOut, Pulls, Targets, DevicesOf
<1>5. ASSUME NEW r \in Runs, StartPull(r) \/ StartStatus(r) PROVE GapInv'
  BY <1>5, GapGoes DEF StartPull, StartStatus
<1>6. CASE \E r \in Runs : Handler(r) BY <1>6, GapHandler
<1> QED BY <1>1, <1>2, <1>3, <1>4, <1>5, <1>6 DEF Next

\* Unless replies get lost or the engine restarts, no change read from the log is skipped,
\* however many pulls and status requests of a phone read and write its row and queue at
\* once, and whichever of their statements fail.
THEOREM NoGapHolds ==
  ASSUME "lost" \notin Faults, "restart" \notin Faults
  PROVE  Spec => []NoGap
<1>1. GapInv /\ TypeOK /\ QueueInv /\ [Next]_vars => GapInv' BY GapStep
<1>2. GapInv => NoGap BY DEF GapInv
<1> QED BY QueueInvariant, GapInit, <1>1, <1>2, PTL DEF Spec

============================================================================

-------------------------- MODULE EnrollmentProofs --------------------------
(***************************************************************************)
(* What is proved of Enrollment for any number of phones, tokens, users    *)
(* and requests, whatever fails.                                           *)
(***************************************************************************)
EXTENDS Enrollment, AccountsProofs

\* Whoever asks is a phone of the device it names.
LEMMA Ask == ASSUME NEW r \in Reqs PROVE PhoneOf[r] \in Phones /\ DeviceOf[r] = DeviceId[PhoneOf[r]]
BY PhonesAssumption

----------------------------------------------------------------------------
(* Type correctness *)

LEMMA StartedTypes == ASSUME NEW u \in Users \cup {NoUser} PROVE Started(u) \in Phone
BY DEF Started, Phone

LEMMA BecomesTypes ==
  ASSUME TypeOK, NEW p \in Phones, NEW state \in Phone, Becomes(p, state)
  PROVE  phone' \in [Phones -> Phone]
BY DEF TypeOK, Becomes

LEMMA ShowTypes ==
  ASSUME TypeOK, NEW p \in Phones, NEW screen \in {"names", "waiting"}, Show(p, screen)
  PROVE  phone' \in [Phones -> Phone]
<1>1. phone[p] \in Phone BY DEF TypeOK
<1>2. [phone[p] EXCEPT !.screen = screen, !.run = NoReq] \in Phone BY <1>1 DEF Phone
<1> QED BY <1>2, BecomesTypes DEF Show

LEMMA AppTypes == ASSUME TypeOK, NEW p \in Phones, App(p) PROVE phone' \in [Phones -> Phone]
<1>0. phone[p] \in Phone BY DEF TypeOK
<1>1. CASE Receive(p)
  <2> DEFINE r == phone[p].run
             state == [phone[p] EXCEPT !.screen = "saving", !.run = NoReq, !.got = req[r].user]
  <2>1. r \in Reqs BY <1>0, <1>1 DEF Receive, Phone
  <2>2. req[r].user \in Users \cup {NoUser}
    BY <2>1 DEF TypeOK, AccountsTypeOK, Completion
  <2>3. state \in Phone BY <1>0, <2>2 DEF Phone
  <2> QED BY <1>1, <2>3, BecomesTypes, ShowTypes DEF Receive
<1>2. CASE ReplyLost(p) BY <1>2, ShowTypes DEF ReplyLost
<1>3. CASE Save(p) \/ AppRestart(p) \/ ClearEnrollmentData(p)
  <2>1. phone[p].got \in Users \cup {NoUser} /\ phone[p].user \in Users \cup {NoUser}
    BY <1>0 DEF Phone
  <2>2. [phone[p] EXCEPT !.user = NoUser] \in Phone BY <1>0 DEF Phone
  <2> QED BY <1>3, <2>1, <2>2, StartedTypes, BecomesTypes
          DEF Save, AppRestart, ClearEnrollmentData
<1>4. ASSUME NEW t \in Tokens, ScanToken(p, t) PROVE phone' \in [Phones -> Phone]
  <2>1. [phone[p] EXCEPT !.screen = "names", !.token = t] \in Phone BY <1>0 DEF Phone
  <2> QED BY <1>4, <2>1, BecomesTypes DEF ScanToken
<1>5. ASSUME NEW r \in Reqs, NEW n \in Names, SelectUsername(p, r, n)
      PROVE  phone' \in [Phones -> Phone]
  <2>1. [phone[p] EXCEPT !.screen = "waiting", !.run = r] \in Phone BY <1>0 DEF Phone
  <2> QED BY <1>5, <2>1, BecomesTypes DEF SelectUsername
<1> QED BY <1>1, <1>2, <1>3, <1>4, <1>5 DEF App

LEMMA RestartTypes == ASSUME TypeOK, EngineRestart PROVE phone' \in [Phones -> Phone]
<1> SUFFICES ASSUME NEW p \in Phones
             PROVE  (IF phone[p].run = NoReq THEN phone[p]
                     ELSE [phone[p] EXCEPT !.screen = "names", !.run = NoReq]) \in Phone
  BY DEF EngineRestart
<1>1. phone[p] \in Phone BY DEF TypeOK
<1> QED BY <1>1 DEF Phone

----------------------------------------------------------------------------
(* What the app is doing *)

\* A phone asks only after having scanned a token, listens only to its own request, and only
\* while it waits; it is enrolled only on its home screen.
Scanned ==
  \A p \in Phones :
    /\ phone[p].screen \in {"names", "waiting"} => phone[p].token \in Tokens
    /\ phone[p].run # NoReq => PhoneOf[phone[p].run] = p /\ phone[p].screen = "waiting"
    /\ phone[p].screen # "home" => phone[p].user = NoUser

LEMMA ScannedInit == Init => Scanned
BY DEF Init, Scanned, Started

LEMMA ScannedStep == ASSUME TypeOK, Scanned, [Next]_vars PROVE Scanned'
<1>1. ASSUME NEW p \in Phones, App(p) PROVE Scanned'
  <2>0. /\ phone \in [Phones -> Phone]
        /\ \A o \in Phones \ {p} : phone'[o] = phone[o]
    BY <1>1 DEF TypeOK, App, Receive, ReplyLost, Save, AppRestart, ClearEnrollmentData,
               ScanToken, SelectUsername, Becomes, Show
  <2>1. CASE Receive(p) \/ ReplyLost(p)
    <3>0. phone[p] \in Phone /\ phone[p].screen = "waiting"
      BY <2>1 DEF Receive, ReplyLost, Scanned, TypeOK
    <3>1. /\ phone'[p].run = NoReq
          /\ phone'[p].token = phone[p].token
          /\ phone'[p].user = phone[p].user
      <4>1. CASE \E s \in {"names", "waiting"} : Show(p, s)
        BY <2>0, <3>0, <4>1 DEF Show, Becomes, Phone
      <4>2. CASE \E g : Becomes(p, [phone[p] EXCEPT !.screen = "saving", !.run = NoReq, !.got = g])
        BY <2>0, <3>0, <4>2 DEF Becomes, Phone
      <4> QED BY <2>1, <4>1, <4>2 DEF Receive, ReplyLost
    <3> QED BY <2>0, <3>0, <3>1 DEF Scanned
  <2>2. CASE Save(p) \/ AppRestart(p) \/ ClearEnrollmentData(p)
    <3>1. CASE \E u : phone'[p] = Started(u)
      BY <2>0, <3>1 DEF Scanned, Started
    <3>2. CASE /\ phone[p].screen = "home"
               /\ phone'[p] = [phone[p] EXCEPT !.user = NoUser]
      <4>1. phone[p] \in Phone BY DEF TypeOK
      <4> QED BY <2>0, <3>2, <4>1 DEF Scanned, Phone
    <3> QED BY <2>0, <2>2, <3>1, <3>2 DEF Save, AppRestart, ClearEnrollmentData, Becomes
  <2>3. ASSUME NEW t \in Tokens, ScanToken(p, t) PROVE Scanned'
    BY <2>0, <2>3 DEF ScanToken, Scanned, Becomes
  <2>4. ASSUME NEW r \in Reqs, NEW n \in Names, SelectUsername(p, r, n) PROVE Scanned'
    BY <2>0, <2>4 DEF SelectUsername, Scanned, Becomes
  <2> QED BY <1>1, <2>1, <2>2, <2>3, <2>4 DEF App
<1>2. CASE EngineRestart
  <2> SUFFICES ASSUME NEW p \in Phones
               PROVE  /\ phone'[p].screen \in {"names", "waiting"} => phone'[p].token \in Tokens
                      /\ phone'[p].run # NoReq => /\ PhoneOf[phone'[p].run] = p
                                                  /\ phone'[p].screen = "waiting"
                      /\ phone'[p].screen # "home" => phone'[p].user = NoUser
    BY DEF Scanned
  <2>0. phone[p] \in Phone BY DEF TypeOK
  <2>1. CASE phone[p].run = NoReq
    BY <1>2, <2>1 DEF EngineRestart, Scanned
  <2>2. CASE phone[p].run # NoReq
    <3>1. phone'[p] = [phone[p] EXCEPT !.screen = "names", !.run = NoReq]
      BY <1>2, <2>2 DEF EngineRestart
    <3> QED BY <2>0, <2>2, <3>1 DEF Scanned, Phone
  <2> QED BY <2>1, <2>2
<1>3. CASE UNCHANGED phone BY <1>3 DEF Scanned
<1> QED BY <1>1, <1>2, <1>3 DEF Next, vars, Engine, FailOrCancel, Drop

----------------------------------------------------------------------------
(* What a step does to the tables *)

\* No user and no grant changes, and no request finds out anything about users.
Quiet ==
  /\ UNCHANGED <<users, granted>>
  /\ \A t \in Tokens : tokens'[t].device = tokens[t].device
  /\ \A r \in Reqs : req'[r].pc \in {"link", "insert", "ok"} => req'[r] = req[r]

LEMMA ReplyQuiet ==
  ASSUME Sound, NEW r \in Reqs, Reply(r, "err", NoUser),
         UNCHANGED <<users, tokens, granted>>
  PROVE  Quiet
BY DEF Quiet, Reply, NoCompletion, Sound, AccountsTypeOK

LEMMA EndQuiet == ASSUME Sound, NEW r \in Reqs, End(r) PROVE Quiet
BY DEF Quiet, End, NoCompletion, Sound, AccountsTypeOK

LEMMA FailQuiet == ASSUME Sound, NEW r \in Reqs, Fail(r) PROVE Quiet
BY ReplyQuiet DEF Fail

LEMMA CompleteQuiet ==
  ASSUME Sound, NEW r \in Reqs, SpendToken(r)
  PROVE  Quiet
<1>1. CASE Goto(r, "find")
  BY <1>1 DEF Quiet, SpendToken, Goto, Sound, AccountsTypeOK
<1>2. CASE Reply(r, "err", NoUser)
  BY <1>2, ReplyQuiet DEF SpendToken
<1> QED BY <1>1, <1>2 DEF SpendToken

\* Every step keeps the tables sound, and is quiet unless a transaction looks for its user or
\* ends.
LEMMA AppTables ==
  ASSUME Sound, TypeOK, Scanned, NEW p \in Phones, App(p)
  PROVE  Sound' /\ Quiet
<1>0. phone[p] \in Phone BY DEF TypeOK
<1>1. CASE UNCHANGED accounts BY <1>1, QuietSound DEF accounts, Quiet
<1>2. CASE Receive(p) \/ ReplyLost(p)
  <2>1. phone[p].run \in Reqs BY <1>0, <1>2 DEF Receive, ReplyLost, Phone
  <2> QED BY <1>2, <2>1, EndSound, EndQuiet DEF Receive, ReplyLost
<1>3. ASSUME NEW r \in Reqs, NEW n \in Names, SelectUsername(p, r, n) PROVE Sound' /\ Quiet
  <2>1. phone[p].token \in Tokens
    BY <1>3 DEF SelectUsername, Scanned
  <2>2. Start(r, phone[p].token, n) BY <1>3 DEF SelectUsername
  <2> QED BY <2>1, <2>2, StartSound DEF Start, Quiet, Sound, AccountsTypeOK
<1> QED BY <1>1, <1>2, <1>3
        DEF App, Save, AppRestart, ClearEnrollmentData, ScanToken

LEMMA TableStep ==
  ASSUME Sound, TypeOK, Scanned, [Next]_vars
  PROVE  /\ Sound'
         /\ Quiet \/ \E r \in Reqs : FindUser(r) \/ LinkUser(r) \/ InsertUser(r)
<1>1. ASSUME NEW t \in Tokens, CreateEnrollment(t) \/ Expire(t) PROVE Sound' /\ Quiet
  BY <1>1, TokenSound DEF CreateEnrollment, Expire, Quiet
<1>2. ASSUME NEW p \in Phones, App(p) PROVE Sound' /\ Quiet BY <1>2, AppTables
<1>3. ASSUME NEW r \in Reqs, Engine(r)
      PROVE  Sound' /\ (Quiet \/ FindUser(r) \/ LinkUser(r) \/ InsertUser(r))
  BY <1>3, CompleteSound, CompleteQuiet DEF Engine, Complete
<1>4. ASSUME NEW r \in Reqs, FailOrCancel(r) \/ Drop(r) PROVE Sound' /\ Quiet
  BY <1>4, FailSound, EndSound, FailQuiet, EndQuiet DEF FailOrCancel, Drop
<1>5. CASE EngineRestart
  BY <1>5, AllEndSound DEF EngineRestart, AllEnd, Quiet, NoCompletion
<1>6. CASE UNCHANGED vars BY <1>6, QuietSound DEF vars, accounts, Quiet
<1> QED BY <1>1, <1>2, <1>3, <1>4, <1>5, <1>6 DEF Next

LEMMA TypeStep == ASSUME Sound, TypeOK, Scanned, [Next]_vars PROVE TypeOK'
<1>1. AccountsTypeOK' BY TableStep DEF Sound
<1>2. phone' \in [Phones -> Phone]
  <2>1. CASE EngineRestart BY <2>1, RestartTypes
  <2>2. ASSUME NEW p \in Phones, App(p) PROVE phone' \in [Phones -> Phone]
    BY <2>2, AppTypes
  <2>3. CASE UNCHANGED phone BY <2>3 DEF TypeOK
  <2> QED BY <2>1, <2>2, <2>3 DEF Next, vars, Engine, FailOrCancel, Drop
<1> QED BY <1>1, <1>2 DEF TypeOK

LEMMA TypeInit == Init => TypeOK /\ Sound /\ Scanned
<1>1. Init => Sound BY SoundInit DEF Init
<1>2. Init => phone \in [Phones -> Phone] BY StartedTypes DEF Init
<1> QED BY <1>1, <1>2, ScannedInit DEF TypeOK, Sound

\* The invariants every other proof rests on.
LEMMA Basis == Spec => [](TypeOK /\ Sound /\ Scanned)
<1>1. TypeOK /\ Sound /\ Scanned /\ [Next]_vars => (TypeOK /\ Sound /\ Scanned)'
  BY TypeStep, TableStep, ScannedStep
<1> QED BY TypeInit, <1>1, PTL DEF Spec

\* The tables, the requests and the phones keep to their types, whatever fails.
THEOREM TypeCorrect == Spec => []TypeOK
BY Basis, PTL

----------------------------------------------------------------------------
(* Grants *)

\* The two last statements, told apart from a failure.
LEMMA LastCases ==
  ASSUME Sound, NEW r \in Reqs, LinkUser(r) \/ InsertUser(r)
  PROVE  \/ Quiet
         \/ \E u \in Users, row \in Row :
              /\ Commit(r, u, row)
              /\ \/ /\ req[r].pc = "link" /\ u = req[r].user
                    /\ row.device = users[u].device /\ row.type = users[u].type
                 \/ /\ req[r].pc = "insert" /\ row.device = DeviceOf[r]
                    /\ \/ u \in NameHolders(req[r].name) /\ row.type = users[u].type
                       \/ row.type = "mobile"
              /\ row.name = req[r].name
<1>1. CASE LinkUser(r)
  <2>1. CASE Reply(r, "err", NoUser) /\ UNCHANGED <<users, tokens, granted>>
    BY <2>1, ReplyQuiet
  <2>2. CASE ~ (Reply(r, "err", NoUser) /\ UNCHANGED <<users, tokens, granted>>)
    <3> DEFINE u == req[r].user
               row == [users[u] EXCEPT !.name = req[r].name, !.token = req[r].token]
    <3>1. u \in Users /\ row \in Row /\ Commit(r, u, row)
      BY <1>1, <2>2, LinkCases
    <3>2. users[u] \in Row BY <3>1 DEF Sound, AccountsTypeOK
    <3>3. row.device = users[u].device /\ row.type = users[u].type /\ row.name = req[r].name
      BY <3>2 DEF Row
    <3> HIDE DEF u, row
    <3>4. req[r].pc = "link" /\ u = req[r].user BY <1>1 DEF LinkUser, u
    <3> QED BY <3>1, <3>3, <3>4
  <2> QED BY <2>1, <2>2
<1>2. CASE InsertUser(r)
  <2>1. PICK u \in Users, row \in Row :
          /\ Commit(r, u, row)
          /\ row.device = DeviceOf[r]
          /\ row.name = req[r].name
          /\ \/ u \in NameHolders(req[r].name) /\ row.type = users[u].type
             \/ row.type = "mobile"
    BY <1>2, InsertCases
  <2>2. req[r].pc = "insert" BY <1>2 DEF InsertUser
  <2> QED BY <2>1, <2>2
<1> QED BY <1>1, <1>2

LEMMA KeptStep == ASSUME Sound, TypeOK, Scanned, [Next]_vars PROVE Kept
<1>1. CASE Quiet BY <1>1 DEF Quiet, Kept
<1>2. ASSUME NEW r \in Reqs, FindUser(r) \/ LinkUser(r) \/ InsertUser(r) PROVE Kept
  BY <1>2, CompleteKept DEF Complete
<1> QED BY <1>1, <1>2, TableStep

\* A device on a row was granted to that row's user; a granted user keeps some device; and
\* a row about to be linked has one.
Placed ==
  /\ \A u \in Users : users[u].device # NoDevice =>
       \E k \in Tokens : granted[k] = u /\ tokens[k].device = users[u].device
  /\ \A t \in Tokens : granted[t] \in Users => users[granted[t]].device # NoDevice
  /\ \A r \in Reqs : req[r].pc = "link" => users[req[r].user].device # NoDevice

LEMMA PlacedInit == Init => Placed
BY AccountsAssumption, NothingAssumption
DEF Init, AccountsInit, Placed, NoCompletion

LEMMA PlacedCommit ==
  ASSUME Sound, Placed, NEW r \in Reqs, req[r].pc \in {"link", "insert"},
         NEW u \in Users, NEW row \in Row, Commit(r, u, row),
         \/ req[r].pc = "link" /\ u = req[r].user /\ row.device = users[u].device
         \/ req[r].pc = "insert" /\ row.device = DeviceOf[r]
  PROVE  Placed'
<1> DEFINE tok == req[r].token
<1>1. /\ tok \in Tokens /\ ~ Used(tok) /\ granted[tok] \notin Users
      /\ users' = [users EXCEPT ![u] = row]
      /\ granted'[tok] = u /\ tokens'[tok].device = DeviceOf[r]
      /\ \A t \in Tokens \ {tok} : /\ granted'[t] = granted[t]
                                   /\ tokens'[t].device = tokens[t].device
  BY CommitEffect DEF Sound, Spent
<1>2. users \in [Users -> Row] /\ DeviceOf[r] # NoDevice
  BY AccountsAssumption, NothingAssumption DEF Sound, AccountsTypeOK
<1>3. row.device # NoDevice BY <1>2 DEF Placed
<1> HIDE DEF tok
<1>4. users'[u].device = row.device /\ \A v \in Users \ {u} : users'[v] = users[v]
  BY <1>1, <1>2
<1>5. ASSUME NEW v \in Users, users'[v].device # NoDevice
      PROVE  \E k \in Tokens : granted'[k] = v /\ tokens'[k].device = users'[v].device
  <2>1. CASE users[v].device # NoDevice /\ users'[v].device = users[v].device
    <3>1. PICK k \in Tokens : granted[k] = v /\ tokens[k].device = users[v].device
      BY <2>1 DEF Placed
    <3>2. k # tok BY <1>1, <3>1
    <3> QED BY <1>1, <2>1, <3>1, <3>2
  <2>2. CASE v = u /\ row.device = DeviceOf[r] BY <1>1, <1>4, <2>2
  <2> QED BY <1>3, <1>4, <1>5, <2>1, <2>2
<1>6. \A t \in Tokens : granted'[t] \in Users => users'[granted'[t]].device # NoDevice
  BY <1>1, <1>3, <1>4 DEF Placed
<1>7. \A s \in Reqs : req'[s].pc = "link" => users'[req'[s].user].device # NoDevice
  <2>1. \A s \in Reqs : req'[s].pc = "link" => req'[s] = req[s]
    <3>1. Reply(r, "ok", u) \/ Reply(r, "err", NoUser) BY CommitEffect
    <3>2. req \in [Reqs -> Completion] BY DEF Sound, AccountsTypeOK
    <3> QED BY <3>1, <3>2 DEF Reply, NoCompletion
  <2>2. \A s \in Reqs : req[s].pc = "link" => req[s].user \in Users BY DEF Sound, Known
  <2> QED BY <1>3, <1>4, <2>1, <2>2 DEF Placed
<1> QED BY <1>5, <1>6, <1>7 DEF Placed

LEMMA PlacedStep == ASSUME Sound, TypeOK, Scanned, Placed, [Next]_vars PROVE Placed'
<1>1. CASE Quiet BY <1>1 DEF Quiet, Placed
<1>2. ASSUME NEW r \in Reqs, FindUser(r) PROVE Placed'
  <2>1. DeviceOf[r] # NoDevice BY AccountsAssumption, NothingAssumption
  <2>2. \A s \in Reqs : req'[s].pc = "link" =>
          req'[s] = req[s] \/ users[req'[s].user].device = DeviceOf[r]
    BY <1>2 DEF FindUser, Goto, Sound, AccountsTypeOK, Completion
  <2>3. UNCHANGED <<users, tokens, granted>> BY <1>2 DEF FindUser
  <2> QED BY <2>1, <2>2, <2>3 DEF Placed
<1>3. ASSUME NEW r \in Reqs, LinkUser(r) \/ InsertUser(r), ~ Quiet PROVE Placed'
  <2>1. PICK u \in Users, row \in Row :
          /\ Commit(r, u, row)
          /\ \/ req[r].pc = "link" /\ u = req[r].user /\ row.device = users[u].device
             \/ req[r].pc = "insert" /\ row.device = DeviceOf[r]
    BY <1>3, LastCases
  <2> QED BY <2>1, PlacedCommit
<1> QED BY <1>1, <1>2, <1>3, TableStep

LEMMA PlacedHolds == Spec => []Placed
<1>1. TypeOK /\ Sound /\ Scanned /\ Placed /\ [Next]_vars => Placed' BY PlacedStep
<1> QED BY Basis, PlacedInit, <1>1, PTL DEF Spec

\* However enrollments of any number of devices overlap, a user leaves a granted device only
\* for another one that was granted to it.
THEOREM GrantKeptHolds == Spec => []GrantKept
<1>1. Sound /\ Placed => GrantKept
  BY DEF Sound, Spent, Placed, GrantKept, Used
<1> QED BY Basis, PlacedHolds, <1>1, PTL

----------------------------------------------------------------------------
(* One row per device *)

\* What there is to completions that come one after the other: a device has one slot.
OneAtATime == \A r, s \in Reqs : DeviceOf[r] = DeviceOf[s] => r = s

\* Where there is no user there is no device, and as long as a transaction is about to insert
\* a user for its device nobody else has given that device to a row.
Single ==
  /\ \A u \in Users : users[u].type = "none" =>
       users[u].device = NoDevice /\ users[u].name = NoName
  /\ \A r \in Reqs : req[r].pc = "insert" => \A u \in Users : users[u].device # DeviceOf[r]

LEMMA SingleInit == Init => Single /\ OneRowPerDevice
BY AccountsAssumption DEF Init, AccountsInit, Single, OneRowPerDevice, NoCompletion

LEMMA SingleCommit ==
  ASSUME OneAtATime, Sound, Placed, Single, OneRowPerDevice, NEW r \in Reqs,
         NEW u \in Users, NEW row \in Row, Commit(r, u, row),
         req[r].pc \in {"link", "insert"},
         \/ /\ req[r].pc = "link" /\ u = req[r].user
            /\ row.device = users[u].device /\ row.type = users[u].type
         \/ /\ req[r].pc = "insert" /\ row.device = DeviceOf[r]
            /\ \/ u \in NameHolders(req[r].name) /\ row.type = users[u].type
               \/ row.type = "mobile",
         row.name = req[r].name
  PROVE  Single' /\ OneRowPerDevice'
<1>1. users \in [Users -> Row] /\ req[r].name \in Names
  BY DEF Sound, AccountsTypeOK, Known, InTransaction
<1>2. users'[u] = row /\ \A v \in Users \ {u} : users'[v] = users[v]
  BY <1>1, CommitEffect
<1>3. row.type # "none"
  BY NothingAssumption, <1>1 DEF Placed, Single, NameHolders
<1>4. \A s \in Reqs : req'[s].pc = "insert" => s # r /\ req'[s] = req[s]
  <2>1. Reply(r, "ok", u) \/ Reply(r, "err", NoUser) BY CommitEffect
  <2>2. req \in [Reqs -> Completion] BY DEF Sound, AccountsTypeOK
  <2> QED BY <2>1, <2>2 DEF Reply, NoCompletion
<1>5. Single'
  <2>1. \A v \in Users : users'[v].type = "none" =>
          users'[v].device = NoDevice /\ users'[v].name = NoName
    BY <1>2, <1>3 DEF Single
  <2>2. ASSUME NEW s \in Reqs, req'[s].pc = "insert", NEW v \in Users
        PROVE  users'[v].device # DeviceOf[s]
    <3>1. s # r /\ req[s].pc = "insert" BY <1>4, <2>2
    <3>2. DeviceOf[s] # DeviceOf[r] BY <3>1 DEF OneAtATime
    <3>3. users[u].device # DeviceOf[s] /\ users[v].device # DeviceOf[s]
      BY <3>1 DEF Single
    <3> QED BY <1>2, <3>2, <3>3
  <2> QED BY <2>1, <2>2 DEF Single
<1>6. OneRowPerDevice'
  <2>1. CASE row.device = users[u].device
    BY <1>2, <2>1 DEF OneRowPerDevice
  <2>2. CASE req[r].pc = "insert" /\ row.device = DeviceOf[r]
    <3>1. \A v \in Users : users[v].device # DeviceOf[r] BY <2>2 DEF Single
    <3> QED BY <1>2, <2>2, <3>1 DEF OneRowPerDevice
  <2> QED BY <2>1, <2>2
<1> QED BY <1>5, <1>6

LEMMA SingleStep ==
  ASSUME OneAtATime, Sound, TypeOK, Scanned, Placed, Single, OneRowPerDevice, [Next]_vars
  PROVE  Single' /\ OneRowPerDevice'
<1>1. CASE Quiet BY <1>1 DEF Quiet, Single, OneRowPerDevice
<1>2. ASSUME NEW r \in Reqs, FindUser(r) PROVE Single' /\ OneRowPerDevice'
  <2>1. DeviceOf[r] # NoDevice BY AccountsAssumption, NothingAssumption
  <2>2. ASSUME NEW s \in Reqs, req'[s].pc = "insert", NEW u \in Users
        PROVE  users[u].device # DeviceOf[s]
    <3>1. CASE s # r
      BY <1>2, <2>2, <3>1 DEF FindUser, Goto, Single, Sound, AccountsTypeOK
    <3>2. CASE s = r
      <4>1. \A v \in Present : users[v].device # DeviceOf[r]
        BY <1>2, <2>2, <3>2 DEF FindUser, Sound, AccountsTypeOK, Completion
      <4> QED BY <2>1, <3>2, <4>1 DEF Single, Present
    <3> QED BY <3>1, <3>2
  <2> QED BY <1>2, <2>2 DEF FindUser, Single, OneRowPerDevice
<1>3. ASSUME NEW r \in Reqs, LinkUser(r) \/ InsertUser(r), ~ Quiet
      PROVE  Single' /\ OneRowPerDevice'
  BY <1>3, LastCases, SingleCommit
<1> QED BY <1>1, <1>2, <1>3, TableStep

\* As long as the completions of a device come one after the other, whatever those of other
\* devices do in the meantime, two rows never have the same device.
THEOREM OneRowPerDeviceHolds == ASSUME OneAtATime PROVE Spec => []OneRowPerDevice
<1> DEFINE Inv == Single /\ OneRowPerDevice
<1>1. TypeOK /\ Sound /\ Scanned /\ Placed /\ Inv /\ [Next]_vars => Inv' BY SingleStep
<1>2. Init => Inv BY SingleInit
<1>3. Spec => []Inv BY Basis, PlacedHolds, <1>1, <1>2, PTL DEF Spec
<1> QED BY <1>3, PTL

----------------------------------------------------------------------------
(* The contract *)

\* The users a device was granted.
UsersOf(d) == {u \in Users : \E t \in Tokens : granted[t] = u /\ tokens[t].device = d}

\* What a reply says, and what a phone keeps of it, was granted to that phone's device.
Promised ==
  /\ \A r \in Reqs : req[r].pc = "ok" => req[r].user \in UsersOf(DeviceId[PhoneOf[r]])
  /\ \A p \in Phones :
       /\ phone[p].screen = "saving" => phone[p].got \in UsersOf(DeviceId[p])
       /\ phone[p].user # NoUser => phone[p].user \in UsersOf(DeviceId[p])

LEMMA PromisedInit == Init => Promised
BY DEF Init, AccountsInit, NoCompletion, Promised, Started

LEMMA StillGranted ==
  ASSUME Sound, TypeOK, Scanned, [Next]_vars
  PROVE  \A d : UsersOf(d) \subseteq UsersOf(d)'
<1>1. Kept BY KeptStep
<1> QED BY <1>1 DEF Kept, UsersOf

LEMMA RepliesPromised ==
  ASSUME Sound, TypeOK, Scanned, Promised, [Next]_vars
  PROVE  \A r \in Reqs : req'[r].pc = "ok" => req'[r].user \in UsersOf(DeviceId[PhoneOf[r]])'
<1> SUFFICES ASSUME NEW r \in Reqs, req'[r].pc = "ok"
             PROVE  req'[r].user \in UsersOf(DeviceId[PhoneOf[r]])'
  OBVIOUS
<1> DEFINE d == DeviceId[PhoneOf[r]]
<1>0. req \in [Reqs -> Completion] /\ UsersOf(d) \subseteq UsersOf(d)'
  BY StillGranted DEF Sound, AccountsTypeOK
<1>1. CASE req'[r] = req[r] BY <1>0, <1>1 DEF Promised
<1>2. CASE Quiet BY <1>1, <1>2 DEF Quiet
<1>3. ASSUME NEW s \in Reqs, FindUser(s) PROVE req'[r] = req[r]
  BY <1>0, <1>3 DEF FindUser, Goto, Completion
<1>4. ASSUME NEW s \in Reqs, LinkUser(s) \/ InsertUser(s), ~ Quiet
      PROVE  req'[r] = req[r] \/ req'[r].user \in UsersOf(d)'
  <2>1. PICK u \in Users, row \in Row : Commit(s, u, row) BY <1>4, LastCases
  <2>2. /\ req[s].token \in Tokens
        /\ granted'[req[s].token] = u
        /\ tokens'[req[s].token].device = DeviceOf[s]
        /\ Reply(s, "ok", u) \/ Reply(s, "err", NoUser)
    BY <1>4, <2>1, CommitEffect DEF LinkUser, InsertUser
  <2>3. CASE r # s
    BY <1>0, <2>2, <2>3 DEF Reply
  <2>4. CASE r = s
    <3>1. req'[r].user = u BY <1>0, <2>2, <2>4 DEF Reply, NoCompletion
    <3> QED BY <2>2, <2>4, <3>1, Ask DEF UsersOf
  <2> QED BY <2>3, <2>4
<1> QED BY <1>1, <1>2, <1>3, <1>4, TableStep

LEMMA PhonesPromised ==
  ASSUME Sound, TypeOK, Scanned, Promised, [Next]_vars, NEW p \in Phones
  PROVE  /\ phone'[p].screen = "saving" => phone'[p].got \in UsersOf(DeviceId[p])'
         /\ phone'[p].user # NoUser => phone'[p].user \in UsersOf(DeviceId[p])'
<1> DEFINE d == DeviceId[p]
           Same == /\ phone'[p].screen = "saving" => /\ phone[p].screen = "saving"
                                                     /\ phone'[p].got = phone[p].got
                   /\ phone'[p].user # NoUser => phone'[p].user = phone[p].user
           Goal == /\ phone'[p].screen = "saving" => phone'[p].got \in UsersOf(d)'
                   /\ phone'[p].user # NoUser => phone'[p].user \in UsersOf(d)'
<1>0. /\ phone[p] \in Phone /\ phone \in [Phones -> Phone]
      /\ UsersOf(d) \subseteq UsersOf(d)'
  BY StillGranted DEF TypeOK
<1>1. CASE Same BY <1>0, <1>1 DEF Promised
<1>2. CASE Receive(p)
  <2> DEFINE r == phone[p].run
  <2>1. r \in Reqs /\ PhoneOf[r] = p BY <1>0, <1>2 DEF Receive, Scanned, Phone
  <2>2. CASE /\ req[r].pc = "ok"
             /\ Becomes(p, [phone[p] EXCEPT !.screen = "saving", !.run = NoReq,
                                            !.got = req[r].user])
    <3>1. req[r].user \in UsersOf(d) BY <2>1, <2>2 DEF Promised
    <3>2. phone'[p].got = req[r].user /\ phone'[p].user = phone[p].user
      BY <1>0, <2>2 DEF Becomes, Phone
    <3> QED BY <1>0, <3>1, <3>2 DEF Promised
  <2>3. CASE Show(p, "names")
    <3>1. Same BY <1>0, <2>3 DEF Show, Becomes, Phone
    <3> QED BY <1>1, <3>1
  <2> QED BY <1>2, <2>2, <2>3 DEF Receive
<1>3. ASSUME ReplyLost(p) PROVE Same
  <2>1. PICK s \in {"names", "waiting"} : Show(p, s) BY <1>3 DEF ReplyLost
  <2> QED BY <1>0, <2>1 DEF Show, Becomes, Phone
<1>4. CASE Save(p)
  <2>1. phone'[p] = Started(phone[p].got) /\ phone[p].screen = "saving"
    BY <1>0, <1>4 DEF Save, Becomes
  <2> QED BY <1>0, <2>1 DEF Promised, Started
<1>5. ASSUME AppRestart(p) \/ ClearEnrollmentData(p) PROVE Same
  <2>1. \/ phone'[p] = Started(phone[p].user) \/ phone'[p] = Started(NoUser)
        \/ phone'[p] = [phone[p] EXCEPT !.user = NoUser]
    BY <1>0, <1>5 DEF AppRestart, ClearEnrollmentData, Becomes
  <2>2. CASE phone'[p] = [phone[p] EXCEPT !.user = NoUser] BY <1>0, <2>2 DEF Phone
  <2> QED BY <2>1, <2>2 DEF Started
<1>6. ASSUME NEW t \in Tokens, ScanToken(p, t) PROVE Same
  BY <1>0, <1>6 DEF ScanToken, Becomes, Phone
<1>7. ASSUME NEW r \in Reqs, NEW n \in Names, SelectUsername(p, r, n) PROVE Same
  BY <1>0, <1>7 DEF SelectUsername, Becomes, Phone
<1>8. ASSUME EngineRestart PROVE Same
  <2>1. phone'[p] = phone[p] \/ phone'[p] = [phone[p] EXCEPT !.screen = "names", !.run = NoReq]
    BY <1>8 DEF EngineRestart
  <2> QED BY <1>0, <2>1 DEF Phone
<1>9. ASSUME NEW o \in Phones \ {p}, App(o) PROVE Same
  BY <1>0, <1>9 DEF App, Receive, ReplyLost, Save, AppRestart, ClearEnrollmentData, ScanToken,
                    SelectUsername, Becomes, Show
<1>10. ASSUME UNCHANGED phone PROVE Same BY <1>10
<1>11. Same \/ Receive(p) \/ Save(p)
  BY <1>3, <1>5, <1>6, <1>7, <1>8, <1>9, <1>10
  DEF Next, App, Engine, FailOrCancel, Drop, vars
<1> QED BY <1>1, <1>2, <1>4, <1>11

LEMMA PromisedHolds == Spec => []Promised
<1>1. TypeOK /\ Sound /\ Scanned /\ Promised /\ [Next]_vars => Promised'
  BY RepliesPromised, PhonesPromised DEF Promised
<1> QED BY Basis, PromisedInit, <1>1, PTL DEF Spec

\* The contract's grant and known.
Grants == [t \in Tokens |-> [device |-> tokens[t].device, user |-> granted[t]]]
Knowns == [p \in Phones |-> phone[p].user]

LEMMA ContractInit == Init => Contract!Init
BY DEF Init, AccountsInit, Started, Contract!Init, Contract!NoGrant

LEMMA CommitIsGrant ==
  ASSUME Sound, NEW r \in Reqs, LinkUser(r) \/ InsertUser(r), ~ Quiet, UNCHANGED phone
  PROVE  Contract!Next
<1>1. PICK u \in Users, row \in Row : Commit(r, u, row) BY LastCases
<1> DEFINE tok == req[r].token
<1>2. /\ tok \in Tokens /\ ~ Used(tok)
      /\ granted'[tok] = u /\ tokens'[tok].device = DeviceOf[r]
      /\ \A t \in Tokens \ {tok} : /\ granted'[t] = granted[t]
                                   /\ tokens'[t].device = tokens[t].device
  BY <1>1, CommitEffect DEF LinkUser, InsertUser
<1>3. granted[tok] = NoUser /\ tokens[tok].device = NoDevice /\ DeviceOf[r] \in Devices
  BY <1>2, AccountsAssumption DEF Sound, Spent, Used, AccountsTypeOK
<1> HIDE DEF tok
<1>4. Grants[tok] = Contract!NoGrant BY <1>2, <1>3 DEF Grants, Contract!NoGrant
<1>5. Grants' = [Grants EXCEPT ![tok] = [device |-> DeviceOf[r], user |-> u]]
  BY <1>2 DEF Grants
<1>6. Knowns' = Knowns BY DEF Knowns
<1>7. Contract!Grant(tok, DeviceOf[r], u)
  BY <1>4, <1>5, <1>6 DEF Contract!Grant, Grants, Knowns
<1> QED BY <1>2, <1>3, <1>7 DEF Contract!Next

LEMMA SaveIsLearn ==
  ASSUME TypeOK, Scanned, Promised, NEW p \in Phones, Save(p) PROVE Contract!Next
<1>1. PICK t \in Tokens : granted[t] = phone[p].got /\ tokens[t].device = DeviceId[p]
  BY DEF Save, Promised, UsersOf
<1>2. Knowns[p] = NoUser BY DEF Save, Scanned, Knowns
<1>3. Knowns' = [Knowns EXCEPT ![p] = Grants[t].user]
  BY <1>1 DEF Save, Becomes, Started, Knowns, Grants, TypeOK
<1>4. Grants[t].device = DeviceId[p] /\ Grants' = Grants
  BY <1>1 DEF Save, accounts, Grants
<1>5. Contract!Learn(p, t) BY <1>2, <1>3, <1>4 DEF Contract!Learn, Grants, Knowns
<1> QED BY <1>5 DEF Contract!Next

LEMMA ClearIsForget ==
  ASSUME TypeOK, NEW p \in Phones, ClearEnrollmentData(p) PROVE Contract!Next
<1>1. Knowns' = [Knowns EXCEPT ![p] = NoUser]
  <2>1. phone \in [Phones -> Phone] /\ phone[p] \in Phone BY DEF TypeOK
  <2>2. PICK state : Becomes(p, state) /\ state.user = NoUser
    <3>1. Started(NoUser).user = NoUser BY DEF Started
    <3>2. [phone[p] EXCEPT !.user = NoUser].user = NoUser BY <2>1 DEF Phone
    <3> QED BY <3>1, <3>2 DEF ClearEnrollmentData
  <2> QED BY <2>1, <2>2 DEF Becomes, Knowns
<1>2. Grants' = Grants BY DEF ClearEnrollmentData, accounts, Grants
<1>3. Contract!Forget(p) BY <1>1, <1>2 DEF Contract!Forget, Grants, Knowns
<1> QED BY <1>3 DEF Contract!Next

\* Every other step leaves the contract's variables alone.
LEMMA OthersStutter ==
  ASSUME TypeOK, Quiet, [Next]_vars,
         \A p \in Phones : ~ Save(p) /\ ~ ClearEnrollmentData(p)
  PROVE  UNCHANGED Contract!vars
<1>1. Grants' = Grants BY DEF Quiet, Grants
<1>2. Knowns' = Knowns
  <2>1. SUFFICES ASSUME NEW p \in Phones PROVE phone'[p].user = phone[p].user
    BY DEF Knowns
  <2>2. phone \in [Phones -> Phone] /\ phone[p] \in Phone BY DEF TypeOK
  <2>3. ASSUME NEW o \in Phones, Receive(o) \/ ReplyLost(o) PROVE phone'[p].user = phone[p].user
    <3>1. CASE \E s : Show(o, s)
      <4>1. PICK s : phone' = [phone EXCEPT ![o] = [phone[o] EXCEPT !.screen = s, !.run = NoReq]]
        BY <3>1 DEF Show, Becomes
      <4> QED BY <2>2, <4>1 DEF Phone
    <3>2. CASE \E g : Becomes(o, [phone[o] EXCEPT !.screen = "saving", !.run = NoReq, !.got = g])
      <4>1. PICK g : phone' = [phone EXCEPT ![o] = [phone[o] EXCEPT
                                                    !.screen = "saving", !.run = NoReq, !.got = g]]
        BY <3>2 DEF Becomes
      <4> QED BY <2>2, <4>1 DEF Phone
    <3> QED BY <2>3, <3>1, <3>2 DEF Receive, ReplyLost
  <2>4. ASSUME NEW o \in Phones, AppRestart(o) PROVE phone'[p].user = phone[p].user
    BY <2>2, <2>4 DEF AppRestart, Becomes, Started
  <2>5. ASSUME NEW o \in Phones, NEW t \in Tokens, ScanToken(o, t)
        PROVE  phone'[p].user = phone[p].user
    BY <2>2, <2>5 DEF ScanToken, Becomes, Phone
  <2>6. ASSUME NEW o \in Phones, NEW r \in Reqs, NEW n \in Names, SelectUsername(o, r, n)
        PROVE  phone'[p].user = phone[p].user
    BY <2>2, <2>6 DEF SelectUsername, Becomes, Phone
  <2>7. ASSUME EngineRestart PROVE phone'[p].user = phone[p].user
    BY <2>2, <2>7 DEF EngineRestart, Phone
  <2> QED BY <2>3, <2>4, <2>5, <2>6, <2>7
          DEF Next, App, Engine, FailOrCancel, Drop, vars
<1> QED BY <1>1, <1>2 DEF Contract!vars, Grants, Knowns

LEMMA ContractStep ==
  ASSUME Sound, TypeOK, Scanned, Promised, [Next]_vars PROVE [Contract!Next]_Contract!vars
<1>1. CASE \E p \in Phones : Save(p) \/ ClearEnrollmentData(p)
  BY <1>1, SaveIsLearn, ClearIsForget
<1>2. CASE Quiet /\ ~ \E p \in Phones : Save(p) \/ ClearEnrollmentData(p)
  BY <1>2, OthersStutter
<1>3. ASSUME ~ Quiet PROVE UNCHANGED phone
  <2>1. \A p \in Phones : ~ App(p) BY <1>3, AppTables
  <2>2. ~ EngineRestart
    <3>1. SUFFICES ASSUME EngineRestart PROVE Quiet BY <1>3
    <3> QED BY <3>1 DEF EngineRestart, AllEnd, Quiet, NoCompletion
  <2>3. CASE UNCHANGED vars BY <2>3 DEF vars
  <2> QED BY <2>1, <2>2, <2>3 DEF Next, Engine, FailOrCancel, Drop
<1>4. ASSUME NEW r \in Reqs, FindUser(r), ~ Quiet PROVE UNCHANGED Contract!vars
  <2>1. UNCHANGED <<tokens, granted, phone>> BY <1>3, <1>4 DEF FindUser
  <2> QED BY <2>1 DEF Contract!vars
<1>5. ASSUME NEW r \in Reqs, LinkUser(r) \/ InsertUser(r), ~ Quiet PROVE Contract!Next
  BY <1>3, <1>5, CommitIsGrant
<1> QED BY <1>1, <1>2, <1>4, <1>5, TableStep

\* Enrollment implements its contract, whatever overlaps and whatever fails: a token makes one
\* device one user for good, and a phone takes itself for a user only if its device was made
\* that user.
THEOREM ImplementsContractHolds == Spec => ImplementsContract
<1>1. TypeOK /\ Sound /\ Scanned /\ Promised /\ [Next]_vars => [Contract!Next]_Contract!vars
  BY ContractStep
<1> QED BY ContractInit, <1>1, Basis, PromisedHolds, PTL DEF Spec, ImplementsContract, Contract!Spec

----------------------------------------------------------------------------
(* What the contract is worth *)

\* The contract's steps alone keep phones true to grants, and grants for good (TrueToGrants,
\* GrantsStand).
THEOREM ContractKeepsGrants == Contract!Spec => []Contract!TrueToGrants /\ Contract!GrantsStand
<1> USE NothingAssumption, PhonesAssumption DEF Contract!NoGrant
<1>1. Contract!Init => Contract!TrueToGrants BY DEF Contract!Init, Contract!TrueToGrants
<1>2. Contract!Next => Contract!Stand
  <2> SUFFICES ASSUME Contract!Next, NEW t \in Tokens, Grants[t] # Contract!NoGrant
               PROVE  Grants'[t] = Grants[t]
    BY DEF Contract!Stand, Grants
  <2>1. ASSUME NEW k \in Tokens, NEW d \in Devices, NEW u \in Users, Contract!Grant(k, d, u)
        PROVE  Grants'[t] = Grants[t]
    BY <2>1 DEF Contract!Grant, Grants
  <2>2. ASSUME NEW p \in Phones, Contract!Forget(p) \/ \E k \in Tokens : Contract!Learn(p, k)
        PROVE  Grants'[t] = Grants[t]
    BY <2>2 DEF Contract!Learn, Contract!Forget, Grants
  <2> QED BY <2>1, <2>2 DEF Contract!Next
<1>3. ASSUME Contract!TrueToGrants, Contract!Next PROVE Contract!TrueToGrants'
  <2> SUFFICES ASSUME NEW p \in Phones, Knowns'[p] # NoUser
               PROVE  \E t \in Tokens :
                        Grants'[t] = [device |-> DeviceId[p], user |-> Knowns'[p]]
    BY DEF Contract!TrueToGrants, Grants, Knowns
  <2>1. Knowns[p] # NoUser =>
          \E t \in Tokens : Grants[t] = [device |-> DeviceId[p], user |-> Knowns[p]]
    BY <1>3 DEF Contract!TrueToGrants, Grants, Knowns
  <2>2. \A t \in Tokens : Grants[t] # Contract!NoGrant => Grants'[t] = Grants[t]
    BY <1>2, <1>3 DEF Contract!Stand, Grants
  <2>3. CASE Knowns'[p] = Knowns[p] BY <2>1, <2>2, <2>3
  <2>4. ASSUME NEW t \in Tokens, Contract!Learn(p, t)
        PROVE  Grants'[t] = [device |-> DeviceId[p], user |-> Knowns'[p]]
    <3>1. Grants' = Grants /\ Knowns'[p] = Grants[t].user /\ Grants[t].device = DeviceId[p]
      BY <2>4 DEF Contract!Learn, Grants, Knowns
    <3>2. Grants[t] = [device |-> Grants[t].device, user |-> Grants[t].user] BY DEF Grants
    <3> QED BY <3>1, <3>2
  <2>5. Knowns'[p] = Knowns[p] \/ \E t \in Tokens : Contract!Learn(p, t)
    <3>1. ASSUME NEW k \in Tokens, NEW d \in Devices, NEW u \in Users, Contract!Grant(k, d, u)
          PROVE  Knowns'[p] = Knowns[p]
      BY <3>1 DEF Contract!Grant, Knowns
    <3>2. ASSUME NEW o \in Phones, NEW t \in Tokens, Contract!Learn(o, t), o # p
          PROVE  Knowns'[p] = Knowns[p]
      BY <3>2 DEF Contract!Learn, Knowns
    <3>3. ASSUME NEW o \in Phones, Contract!Forget(o) PROVE Knowns'[p] = Knowns[p]
      <4>1. o # p BY <3>3 DEF Contract!Forget, Knowns
      <4> QED BY <3>3, <4>1 DEF Contract!Forget, Knowns
    <3> QED BY <1>3, <3>1, <3>2, <3>3 DEF Contract!Next
  <2> QED BY <2>3, <2>4, <2>5
<1>4. Contract!TrueToGrants /\ UNCHANGED Contract!vars => Contract!TrueToGrants'
  <2> SUFFICES ASSUME Contract!TrueToGrants, UNCHANGED Contract!vars, NEW p \in Phones,
                      Knowns'[p] # NoUser
               PROVE  \E t \in Tokens :
                        Grants'[t] = [device |-> DeviceId[p], user |-> Knowns'[p]]
    BY DEF Contract!TrueToGrants, Grants, Knowns
  <2>1. Grants' = Grants /\ Knowns' = Knowns BY DEF Contract!vars, Grants, Knowns
  <2>2. \A o \in Phones : Knowns[o] # NoUser =>
          \E t \in Tokens : Grants[t] = [device |-> DeviceId[o], user |-> Knowns[o]]
    BY DEF Contract!TrueToGrants, Grants, Knowns
  <2> QED BY <2>1, <2>2
<1> QED BY <1>1, <1>2, <1>3, <1>4, PTL DEF Contract!Spec, Contract!GrantsStand

\* So in Enrollment, whatever overlaps and fails: a phone takes itself only for a user that a
\* token made its device, and what a token was used for never changes.
THEOREM TrueToGrantsHolds == Spec => []Contract!TrueToGrants /\ Contract!GrantsStand
BY ImplementsContractHolds, ContractKeepsGrants, PTL DEF ImplementsContract

============================================================================

--------------------------- MODULE UserRowsProofs ---------------------------
(***************************************************************************)
(* What is proved of UserRows for any number of users, messages, writers   *)
(* and sessions.                                                           *)
(***************************************************************************)
EXTENDS UserRows, AccountsProofs

(* Type correctness *)

LEMMA WebUserIsRow == ASSUME NEW n \in Names PROVE WebUser(n) \in Row
BY DEF WebUser, NoRow, Row

LEMMA TypeInit == Init => TypeOK /\ Sound
<1> SUFFICES ASSUME Init PROVE TypeOK /\ Sound
  OBVIOUS
<1>1. Sound BY SoundInit DEF Init
<1>2. NoWriter \in Writer /\ NoSession \in Session
  BY DEF NoWriter, Writer, NoRow, Row, NoSession, Session
<1> QED BY <1>1, <1>2 DEF Init, TypeOK, Sound

\* What the log-ins and UpdateUser change of the tables of Accounts is users alone.
LEMMA RowSound ==
  ASSUME Sound, users' \in [Users -> Row], UNCHANGED <<tokens, granted, req>>
  PROVE  Sound' /\ Kept
<1>1. AccountsTypeOK' BY DEF Sound, AccountsTypeOK
<1>2. Known' /\ Spent' /\ HeldUnused'
  BY DEF Sound, Known, Spent, HeldUnused, Used, InTransaction
<1> QED BY <1>1, <1>2 DEF Sound, Kept

LEMMA EnrollSound == ASSUME Sound, Enroll PROVE Sound' /\ Kept
<1> USE RowsAssumption
<1>1. ASSUME NEW t \in Tokens, CreateEnrollment(t) PROVE Sound' /\ Kept
  BY <1>1, TokenSound DEF CreateEnrollment, Kept
<1>2. ASSUME NEW r \in Reqs, NEW t \in Tokens, NEW n \in MobileNames, Start(r, t, n)
      PROVE  Sound' /\ Kept
  <2>1. n \in Names OBVIOUS
  <2> QED BY <1>2, <2>1, StartSound DEF Start, Kept
<1>3. ASSUME NEW r \in Reqs, Complete(r) PROVE Sound' /\ Kept
  BY <1>3, CompleteSound, CompleteKept
<1>4. ASSUME NEW r \in Reqs, End(r) \/ Fail(r) PROVE Sound' /\ Kept
  BY <1>4, EndSound, FailSound DEF End, Fail, Kept
<1> QED BY <1>1, <1>2, <1>3, <1>4 DEF Enroll

LEMMA WriterTypes ==
  ASSUME TypeOK, NEW w \in Writers, NEW state \in Writer, WriterIs(w, state)
  PROVE  writer' \in [Writers -> Writer]
BY DEF TypeOK, WriterIs

LEMMA SessionTypes ==
  ASSUME TypeOK, NEW s \in Sessions, NEW state \in Session, Becomes(s, state)
  PROVE  /\ session' \in [Sessions -> Session]
         /\ UNCHANGED <<tokens, granted, req, from, writer>>
BY DEF TypeOK, Becomes

LEMMA MessageTypes ==
  ASSUME TypeOK, NEW w \in Writers, NEW u \in Users, NEW m \in Msgs, InsertMessage(w, u, m)
  PROVE  /\ writer' \in [Writers -> Writer]
         /\ from' \in [Msgs -> Users \cup {NoUser}]
         /\ sent' \in [Users -> Msgs \cup {NoMsg}]
<1>1. [NoWriter EXCEPT !.pc = "read", !.msg = m, !.user = u] \in Writer
  BY DEF NoWriter, Writer, NoRow, Row
<1> QED BY <1>1, WriterTypes DEF InsertMessage, Insert, TypeOK

LEMMA NoWriterTypes == NoWriter \in Writer
BY DEF NoWriter, Writer, NoRow, Row

LEMMA ReadTypes ==
  ASSUME TypeOK, NEW w \in Writers, writer[w].user \in Users, ReadSender(w)
  PROVE  writer' \in [Writers -> Writer]
<1>1. writer[w] \in Writer /\ users[writer[w].user] \in Row BY DEF TypeOK, AccountsTypeOK
<1>2. [writer[w] EXCEPT !.pc = "write", !.row = users[writer[w].user]] \in Writer
  BY <1>1 DEF Writer
<1> QED BY <1>2, WriterTypes DEF ReadSender

LEMMA UpdateTypes ==
  ASSUME TypeOK, NEW w \in Writers, writer[w].user \in Users, writer[w].msg \in Msgs, UpdateUser(w)
  PROVE  /\ writer' \in [Writers -> Writer]
         /\ users' \in [Users -> Row]
         /\ sent' \in [Users -> Msgs \cup {NoMsg}]
<1>1. writer[w].row \in Row BY DEF TypeOK, Writer
<1> QED BY <1>1, WriterTypes, NoWriterTypes DEF UpdateUser, TypeOK, AccountsTypeOK

LEMMA LogInTypes ==
  ASSUME TypeOK, NEW s \in Sessions,
         \/ CreateUser(s) /\ session[s].name \in Names
         \/ \E n \in WebNames : LogIn(s, n)
  PROVE  /\ session' \in [Sessions -> Session]
         /\ users' \in [Users -> Row]
         /\ UNCHANGED <<tokens, granted, req, sent, from, writer>>
<1>1. \A n \in Names, u \in Users : [pc |-> "in", name |-> n, user |-> u] \in Session
  BY DEF Session
<1>2. \A n \in Names : [NoSession EXCEPT !.pc = "create", !.name = n] \in Session
  BY DEF Session, NoSession
<1>3. NoSession \in Session BY DEF Session, NoSession
<1>4. users \in [Users -> Row] BY DEF TypeOK, AccountsTypeOK
<1>5. CASE CreateUser(s) /\ session[s].name \in Names
  <2>1. \A u \in Users : [users EXCEPT ![u] = WebUser(session[s].name)] \in [Users -> Row]
    BY <1>4, <1>5, WebUserIsRow
  <2> QED BY <1>1, <1>3, <1>4, <1>5, <2>1, SessionTypes DEF CreateUser, LogInAs, NameHolders
<1>6. ASSUME NEW n \in WebNames, LogIn(s, n)
      PROVE  /\ session' \in [Sessions -> Session]
             /\ UNCHANGED <<users, tokens, granted, req, sent, from, writer>>
  <2>1. n \in Names BY RowsAssumption
  <2> QED BY <1>1, <1>2, <1>6, <2>1, SessionTypes DEF LogIn, LogInAs, NameHolders
<1> QED BY <1>4, <1>5, <1>6

----------------------------------------------------------------------------
(* The invariants every other proof rests on *)

\* A request at work has stored its message, for its user; a browser at work has a name.
Busy ==
  /\ \A w \in Writers : writer[w].pc # "idle" =>
       writer[w].user \in Users /\ writer[w].msg \in Msgs /\ from[writer[w].msg] = writer[w].user
  /\ \A s \in Sessions : session[s].pc # "out" => session[s].name \in Names

LEMMA BusyInit == Init => Busy
BY DEF Init, Busy, NoWriter, NoSession

LEMMA MessageBusy ==
  ASSUME TypeOK, Busy, NEW w \in Writers, NEW u \in Users, NEW m \in Msgs, InsertMessage(w, u, m)
  PROVE  Busy'
<1>1. /\ from' = [from EXCEPT ![m] = u] /\ from[m] = NoUser
      /\ writer'[w].user = u /\ writer'[w].msg = m
      /\ \A v \in Writers \ {w} : writer'[v] = writer[v]
      /\ UNCHANGED session
  BY DEF InsertMessage, Insert, WriterIs, TypeOK, NoWriter
<1>2. \A v \in Writers \ {w} : writer[v].pc # "idle" => writer[v].msg # m
  BY <1>1, NothingAssumption DEF Busy
<1> QED BY <1>1, <1>2 DEF Busy, TypeOK

LEMMA WriterBusy ==
  ASSUME TypeOK, Busy, NEW w \in Writers, ReadSender(w) \/ UpdateUser(w) \/ Abandon(w)
  PROVE  Busy'
<1>1. /\ UNCHANGED <<from, session>>
      /\ \A v \in Writers \ {w} : writer'[v] = writer[v]
  BY DEF ReadSender, UpdateUser, Abandon, WriterIs, TypeOK
<1>2. CASE ReadSender(w)
  <2>1. writer[w] \in Writer BY DEF TypeOK
  <2>2. writer'[w].user = writer[w].user /\ writer'[w].msg = writer[w].msg
    BY <1>2, <2>1 DEF ReadSender, WriterIs, TypeOK, Writer
  <2> QED BY <1>1, <1>2, <2>2 DEF Busy, ReadSender
<1>3. CASE UpdateUser(w) \/ Abandon(w)
  <2>1. writer'[w].pc = "idle" BY <1>3 DEF UpdateUser, Abandon, WriterIs, TypeOK, NoWriter
  <2> QED BY <1>1, <2>1 DEF Busy
<1> QED BY <1>2, <1>3

LEMMA SessionBusy ==
  ASSUME TypeOK, Busy, NEW s \in Sessions, CreateUser(s) \/ \E n \in WebNames : LogIn(s, n)
  PROVE  Busy'
<1>1. /\ UNCHANGED <<from, writer>>
      /\ \A k \in Sessions \ {s} : session'[k] = session[k]
  BY DEF CreateUser, LogIn, LogInAs, Becomes, TypeOK
<1>2. session'[s].pc # "out" => session'[s].name \in Names
  <2>1. CASE CreateUser(s)
    BY <2>1 DEF CreateUser, LogInAs, Becomes, TypeOK, NoSession, Busy
  <2>2. ASSUME NEW n \in WebNames, LogIn(s, n) PROVE session'[s].name \in Names
    <3>1. \E state : Becomes(s, state) /\ state.name = n
      <4>1. CASE \E u \in NameHolders(n) : LogInAs(s, n, u) BY <4>1 DEF LogInAs
      <4>2. CASE Becomes(s, [NoSession EXCEPT !.pc = "create", !.name = n])
        <5>1. [NoSession EXCEPT !.pc = "create", !.name = n].name = n BY DEF NoSession
        <5> QED BY <4>2, <5>1
      <4> QED BY <2>2, <4>1, <4>2 DEF LogIn
    <3> QED BY <2>2, <3>1, RowsAssumption DEF Becomes, TypeOK
  <2> QED BY <2>1, <2>2
<1> QED BY <1>1, <1>2 DEF Busy

LEMMA BasisStep ==
  ASSUME TypeOK, Sound, Busy, [Next]_vars PROVE TypeOK' /\ Sound' /\ Busy' /\ Kept
<1>1. CASE Enroll
  BY <1>1, EnrollSound DEF Enroll, rows, TypeOK, Sound, Busy
<1>2. ASSUME NEW w \in Writers, NEW u \in Users, NEW m \in Msgs, InsertMessage(w, u, m)
      PROVE  TypeOK' /\ Sound' /\ Busy' /\ Kept
  <2>1. UNCHANGED accounts BY <1>2 DEF InsertMessage, Insert
  <2> QED BY <1>2, <2>1, QuietSound, MessageTypes, MessageBusy
          DEF InsertMessage, Insert, TypeOK, Sound, Kept, accounts
<1>3. ASSUME NEW w \in Writers, ReadSender(w) PROVE TypeOK' /\ Sound' /\ Busy' /\ Kept
  <2>1. UNCHANGED accounts /\ writer[w].user \in Users BY <1>3 DEF ReadSender, Busy
  <2> QED BY <1>3, <2>1, QuietSound, ReadTypes, WriterBusy
          DEF ReadSender, TypeOK, Sound, Kept, accounts
<1>4. ASSUME NEW w \in Writers, UpdateUser(w) PROVE TypeOK' /\ Sound' /\ Busy' /\ Kept
  <2>1. writer[w].user \in Users /\ writer[w].msg \in Msgs BY <1>4 DEF UpdateUser, Busy
  <2>2. Sound' /\ Kept BY <1>4, <2>1, UpdateTypes, RowSound DEF UpdateUser
  <2> QED BY <1>4, <2>1, <2>2, UpdateTypes, WriterBusy DEF UpdateUser, TypeOK, Sound
<1>5. ASSUME NEW w \in Writers, Abandon(w) PROVE TypeOK' /\ Sound' /\ Busy' /\ Kept
  <2>1. UNCHANGED accounts BY <1>5 DEF Abandon
  <2> QED BY <1>5, <2>1, QuietSound, WriterTypes, NoWriterTypes, WriterBusy
          DEF Abandon, TypeOK, Sound, Kept, accounts
<1>6. ASSUME NEW s \in Sessions, CreateUser(s) \/ \E n \in WebNames : LogIn(s, n)
      PROVE  TypeOK' /\ Sound' /\ Busy' /\ Kept
  <2>1. CreateUser(s) => session[s].name \in Names BY DEF CreateUser, Busy
  <2>2. /\ session' \in [Sessions -> Session]
        /\ users' \in [Users -> Row]
        /\ UNCHANGED <<tokens, granted, req, sent, from, writer>>
    BY <1>6, <2>1, LogInTypes
  <2> QED BY <1>6, <2>2, RowSound, SessionBusy DEF TypeOK, Sound
<1>7. CASE UNCHANGED vars
  BY <1>7, QuietSound DEF vars, rows, accounts, TypeOK, Sound, Busy, Kept
<1> QED BY <1>1, <1>2, <1>3, <1>4, <1>5, <1>6, <1>7 DEF Next

LEMMA Basis == Spec => [](TypeOK /\ Sound /\ Busy)
<1>1. TypeOK /\ Sound /\ Busy /\ [Next]_vars => (TypeOK /\ Sound /\ Busy)' BY BasisStep
<1> QED BY TypeInit, BusyInit, <1>1, PTL DEF Spec

\* The tables, the requests and the browsers keep to their types.
THEOREM TypeCorrect == Spec => []TypeOK
BY Basis, PTL

----------------------------------------------------------------------------
(* last_message_sent *)

LEMMA OwnStep ==
  ASSUME TypeOK, Busy, LastSentIsOwn, [Next]_vars PROVE LastSentIsOwn'
<1>0. NoMsg \notin Msgs BY RowsAssumption
<1>1. ASSUME NEW w \in Writers, NEW u \in Users, NEW m \in Msgs, InsertMessage(w, u, m)
      PROVE  LastSentIsOwn'
  <2>1. /\ from' = [from EXCEPT ![m] = u] /\ from[m] = NoUser
        /\ sent' = [sent EXCEPT ![u] = m]
    BY <1>1 DEF InsertMessage, Insert
  <2>2. \A v \in Users : sent[v] # m
    BY <1>0, <2>1, NothingAssumption DEF LastSentIsOwn
  <2> QED BY <1>0, <2>1, <2>2 DEF LastSentIsOwn, TypeOK
<1>2. ASSUME NEW w \in Writers, UpdateUser(w) PROVE LastSentIsOwn'
  <2>1. /\ writer[w].user \in Users /\ writer[w].msg \in Msgs
        /\ from[writer[w].msg] = writer[w].user
    BY <1>2 DEF UpdateUser, Busy
  <2>2. UNCHANGED from /\ (sent' = sent \/ sent' = [sent EXCEPT ![writer[w].user] = writer[w].msg])
    BY <1>2 DEF UpdateUser
  <2> QED BY <1>0, <2>1, <2>2 DEF LastSentIsOwn, TypeOK
<1>3. CASE UNCHANGED <<sent, from>> BY <1>3 DEF LastSentIsOwn
<1> QED BY <1>1, <1>2, <1>3
        DEF Next, Enroll, rows, ReadSender, Abandon, CreateUser, LogIn, LogInAs, Becomes, vars

\* However many requests overlap and wherever they stop, last_message_sent is a stored message
\* of the user, and empty only for users without one.
THEOREM LastSentIsOwnHolds == Spec => []LastSentIsOwn
<1>1. Init => LastSentIsOwn
  BY NothingAssumption, RowsAssumption DEF Init, LastSentIsOwn
<1>2. TypeOK /\ Busy /\ LastSentIsOwn /\ [Next]_vars => LastSentIsOwn' BY OwnStep
<1> QED BY Basis, <1>1, <1>2, PTL DEF Spec

----------------------------------------------------------------------------
(* Links *)

\* The rows whose links were granted to a user.
LinkedRows(u) ==
  {row \in Row :
     /\ row.device # NoDevice => \E t \in Tokens : granted[t] = u /\ tokens[t].device = row.device
     /\ row.token # NoToken => granted[row.token] = u}

\* Rows that handlers still hold were linked by grants too, older ones perhaps.
Linked ==
  /\ \A u \in Users : users[u] \in LinkedRows(u)
  /\ \A w \in Writers : writer[w].pc = "write" => writer[w].row \in LinkedRows(writer[w].user)

LEMMA LinkedInit == Init => Linked
BY AccountsAssumption DEF Init, AccountsInit, Linked, LinkedRows, NoWriter

LEMMA StillLinked == ASSUME Kept PROVE \A u \in Users : LinkedRows(u) \subseteq LinkedRows(u)'
<1> SUFFICES ASSUME NEW u \in Users, NEW row \in LinkedRows(u) PROVE row \in LinkedRows(u)'
  OBVIOUS
<1>1. row.token # NoToken => row.token \in Tokens BY DEF LinkedRows, Row
<1> QED BY <1>1 DEF Kept, LinkedRows

LEMMA LinkedCommit ==
  ASSUME Sound, Linked, NEW r \in Reqs, LinkUser(r) \/ InsertUser(r)
  PROVE  \A u \in Users : users'[u] \in LinkedRows(u)'
<1>0. /\ \A u \in Users : users[u] \in LinkedRows(u)'
      /\ users \in [Users -> Row]
  BY CompleteKept, StillLinked DEF Complete, Linked, Sound, AccountsTypeOK
<1>1. ASSUME NEW u \in Users, NEW row \in Row, Commit(r, u, row), row.token = req[r].token,
             row.device = users[u].device \/ row.device = DeviceOf[r]
      PROVE  \A v \in Users : users'[v] \in LinkedRows(v)'
  <2>1. /\ req[r].token \in Tokens
        /\ users' = [users EXCEPT ![u] = row]
        /\ granted'[req[r].token] = u
        /\ tokens'[req[r].token].device = DeviceOf[r]
    BY <1>1, CommitEffect DEF LinkUser, InsertUser
  <2>2. row \in LinkedRows(u)'
    BY <1>0, <1>1, <2>1 DEF LinkedRows
  <2> QED BY <1>0, <2>1, <2>2
<1>2. CASE InsertUser(r) BY <1>1, <1>2, InsertCases
<1>3. CASE LinkUser(r)
  <2> DEFINE u == req[r].user
             row == [users[u] EXCEPT !.name = req[r].name, !.token = req[r].token]
  <2>1. CASE UNCHANGED users BY <1>0, <2>1
  <2>2. CASE u \in Users /\ row \in Row /\ Commit(r, u, row)
    <3>1. users[u] \in Row BY <1>0, <2>2
    <3>2. row.token = req[r].token /\ row.device = users[u].device BY <3>1 DEF Row
    <3> HIDE DEF u, row
    <3> QED BY <1>1, <2>2, <3>2
  <2> QED BY <1>3, <2>1, <2>2, LinkCases
<1> QED BY <1>2, <1>3

LEMMA LinkedStep == ASSUME TypeOK, Sound, Busy, Linked, [Next]_vars PROVE Linked'
<1>0. \A u \in Users : LinkedRows(u) \subseteq LinkedRows(u)' BY BasisStep, StillLinked
<1>1. ASSUME \A u \in Users : users'[u] \in LinkedRows(u)', UNCHANGED writer PROVE Linked'
  BY <1>0, <1>1 DEF Linked, Busy
<1>2. CASE UNCHANGED <<users, writer>> BY <1>0, <1>1, <1>2 DEF Linked
<1>3. ASSUME NEW r \in Reqs, LinkUser(r) \/ InsertUser(r), UNCHANGED writer PROVE Linked'
  BY <1>1, <1>3, LinkedCommit
<1>4. ASSUME NEW w \in Writers, ReadSender(w) PROVE Linked'
  <2>1. /\ UNCHANGED <<users, tokens, granted>>
        /\ \A v \in Writers \ {w} : writer'[v] = writer[v]
        /\ writer'[w].row = users[writer[w].user] /\ writer'[w].user = writer[w].user
        /\ writer[w].user \in Users
    BY <1>4 DEF ReadSender, WriterIs, TypeOK, Writer, accounts, Busy
  <2> QED BY <2>1 DEF Linked, LinkedRows
<1>5. ASSUME NEW w \in Writers, UpdateUser(w) PROVE Linked'
  <2>1. /\ UNCHANGED <<tokens, granted>>
        /\ \A v \in Writers \ {w} : writer'[v] = writer[v]
        /\ writer'[w].pc = "idle"
        /\ users' = users \/ users' = [users EXCEPT ![writer[w].user] = writer[w].row]
        /\ writer[w].row \in LinkedRows(writer[w].user)
    BY <1>5 DEF UpdateUser, WriterIs, TypeOK, NoWriter, Linked
  <2>2. \A u \in Users : LinkedRows(u)' = LinkedRows(u) BY <2>1 DEF LinkedRows
  <2>3. writer[w].user \in Users /\ users \in [Users -> Row]
    BY <1>5 DEF UpdateUser, Busy, TypeOK, AccountsTypeOK
  <2>4. \A u \in Users : users'[u] \in LinkedRows(u)' BY <2>1, <2>2, <2>3 DEF Linked
  <2>5. \A v \in Writers : writer'[v].pc = "write" => v # w /\ writer[v].user \in Users
    BY <2>1 DEF Busy
  <2> QED BY <2>1, <2>2, <2>4, <2>5 DEF Linked
<1>6. ASSUME NEW s \in Sessions, CreateUser(s) PROVE Linked'
  <2>1. UNCHANGED <<tokens, granted, writer>> BY <1>6 DEF CreateUser, LogInAs, Becomes
  <2>2. \A u \in Users : LinkedRows(u)' = LinkedRows(u) BY <2>1 DEF LinkedRows
  <2>3. \/ UNCHANGED users
        \/ \E u \in Users : users' = [users EXCEPT ![u] = WebUser(session[s].name)]
    BY <1>6 DEF CreateUser
  <2>4. \A u \in Users : WebUser(session[s].name) \in LinkedRows(u)
    <3>1. session[s].name \in Names BY <1>6 DEF CreateUser, Busy
    <3> QED BY <3>1, WebUserIsRow DEF WebUser, NoRow, LinkedRows
  <2>5. users \in [Users -> Row] BY DEF TypeOK, AccountsTypeOK
  <2> QED BY <1>1, <2>1, <2>2, <2>3, <2>4, <2>5 DEF Linked
<1>7. ASSUME NEW w \in Writers, NEW u \in Users, NEW m \in Msgs, InsertMessage(w, u, m)
      PROVE  Linked'
  <2>1. /\ UNCHANGED accounts
        /\ \A v \in Writers \ {w} : writer'[v] = writer[v]
        /\ writer'[w].pc # "write"
    BY <1>7 DEF InsertMessage, Insert, WriterIs, TypeOK, NoWriter
  <2> QED BY <2>1 DEF Linked, LinkedRows, accounts
<1>8. ASSUME Enroll, \A r \in Reqs : ~ LinkUser(r) /\ ~ InsertUser(r)
      PROVE  UNCHANGED <<users, writer>>
  BY <1>8 DEF Enroll, rows, CreateEnrollment, Start, Complete, SpendToken, FindUser, End, Fail
<1>9. ASSUME NEW w \in Writers, Abandon(w) PROVE Linked'
  <2>1. /\ UNCHANGED accounts
        /\ \A v \in Writers \ {w} : writer'[v] = writer[v]
        /\ writer'[w].pc # "write"
    BY <1>9 DEF Abandon, WriterIs, TypeOK, NoWriter
  <2> QED BY <2>1 DEF Linked, LinkedRows, accounts
<1>10. Enroll => UNCHANGED writer BY DEF Enroll, rows
<1>11. CASE Enroll BY <1>2, <1>3, <1>8, <1>10, <1>11
<1>12. CASE ~ Enroll
  BY <1>2, <1>4, <1>5, <1>6, <1>7, <1>9, <1>12
  DEF Next, LogIn, LogInAs, Becomes, vars, rows, accounts
<1> QED BY <1>11, <1>12

\* A device or a token on a row was granted to that row's user, although whole rows are read,
\* kept and written back without a transaction.
THEOREM LinksGrantedHolds == Spec => []LinksGranted
<1>1. Linked => LinksGranted BY DEF Linked, LinkedRows, LinksGranted
<1>2. TypeOK /\ Sound /\ Busy /\ Linked /\ [Next]_vars => Linked' BY LinkedStep
<1> QED BY Basis, LinkedInit, <1>1, <1>2, PTL DEF Spec

----------------------------------------------------------------------------
(* Names *)

\* Two rows of one user: enrolling renames, but only between names that phones enroll under.
Fit(row, other) ==
  row.name \notin MobileNames \/ other.name \notin MobileNames => row.name = other.name

LEMMA FitTransitive ==
  ASSUME NEW a, NEW b, NEW c, Fit(a, b), Fit(b, c) PROVE Fit(a, c)
BY DEF Fit

\* A row that has a user has a name of its own, and a device only under a mobile name.
Proper(row) ==
  /\ row.name = NoName <=> row.type = "none"
  /\ row.device # NoDevice => row.name \in MobileNames

RowsProper == Unique(users) /\ \A u \in Users : Proper(users[u])

\* Users stay, and their names change between mobile names only.
NamesFit == \A u \in Present : u \in Present' /\ Fit(users[u], users'[u])

HeldFit ==
  \A w \in Writers : writer[w].pc # "idle" =>
    /\ writer[w].user \in Present
    /\ writer[w].pc = "write" => /\ Proper(writer[w].row)
                                 /\ writer[w].row.type # "none"
                                 /\ Fit(writer[w].row, users[writer[w].user])

MobileRequests ==
  \A r \in Reqs :
    /\ req[r].pc \in {"spend"} \cup InTransaction => req[r].name \in MobileNames
    /\ req[r].pc = "link" => users[req[r].user].name \in MobileNames

SessionsFit ==
  \A s \in Sessions : session[s].pc = "in" /\ session[s].name \notin MobileNames =>
    session[s].user \in Present /\ users[session[s].user].name = session[s].name

NamesInv == RowsProper /\ HeldFit /\ MobileRequests /\ SessionsFit

LEMMA NamesInit == Init => NamesInv
<1> SUFFICES ASSUME Init PROVE NamesInv
  OBVIOUS
<1>1. RowsProper BY AccountsAssumption DEF Init, AccountsInit, RowsProper, Proper
<1>2. HeldFit /\ SessionsFit BY DEF Init, HeldFit, SessionsFit, NoWriter, NoSession
<1>3. MobileRequests
  BY DEF Init, AccountsInit, MobileRequests, NoCompletion, InTransaction
<1> QED BY <1>1, <1>2, <1>3 DEF NamesInv

\* Writing one row.
LEMMA WrittenProper ==
  ASSUME users \in [Users -> Row], RowsProper, NEW u \in Users, NEW row \in Row,
         users' = [users EXCEPT ![u] = row], Proper(row), row.type # "none",
         NameHolders(row.name) \subseteq {u},
         users[u].type = "none" \/ Fit(users[u], row)
  PROVE  RowsProper' /\ NamesFit
<1>1. users'[u] = row /\ \A v \in Users \ {u} : users'[v] = users[v] /\ users[v].name # row.name
  BY DEF NameHolders
<1>2. Unique(users') BY <1>1 DEF Unique, RowsProper
<1>3. \A v \in Users : Proper(users'[v]) BY <1>1 DEF RowsProper
<1>4. NamesFit
  <2>1. ASSUME NEW v \in Users, users[v].type # "none"
        PROVE  users'[v].type # "none" /\ Fit(users[v], users'[v])
    BY <1>1, <2>1 DEF Fit
  <2> QED BY <2>1 DEF NamesFit, Present
<1> QED BY <1>2, <1>3, <1>4 DEF RowsProper

LEMMA SameProper == ASSUME RowsProper, UNCHANGED users PROVE RowsProper' /\ NamesFit
BY DEF RowsProper, NamesFit, Present, Fit

LEMMA CommitProper ==
  ASSUME Sound, RowsProper, MobileRequests, NEW r \in Reqs, LinkUser(r) \/ InsertUser(r)
  PROVE  RowsProper' /\ NamesFit
<1>0. /\ users \in [Users -> Row] /\ NoName \notin MobileNames
      /\ req[r].name \in MobileNames
  BY NothingAssumption, RowsAssumption
  DEF Sound, AccountsTypeOK, MobileRequests, LinkUser, InsertUser, InTransaction
<1>1. CASE UNCHANGED users BY <1>1, SameProper
<1>2. CASE LinkUser(r) /\ ~ UNCHANGED users
  <2> DEFINE u == req[r].user
             row == [users[u] EXCEPT !.name = req[r].name, !.token = req[r].token]
  <2>1. u \in Users /\ row \in Row /\ Commit(r, u, row) /\ NameHolders(req[r].name) \subseteq {u}
    BY <1>2, LinkCases
  <2>2. users' = [users EXCEPT ![u] = row] BY <2>1 DEF Commit
  <2>3. users[u].name \in MobileNames BY <1>2 DEF LinkUser, MobileRequests
  <2>4. users[u] \in Row BY <1>0, <2>1
  <2>5. row.name = req[r].name /\ row.type = users[u].type /\ row.device = users[u].device
    BY <2>4 DEF Row
  <2> HIDE DEF u, row
  <2>6. Proper(row) /\ row.type # "none" /\ Fit(users[u], row)
    BY <1>0, <2>1, <2>3, <2>5 DEF RowsProper, Proper, Fit
  <2> QED BY <1>0, <2>1, <2>2, <2>5, <2>6, WrittenProper
<1>3. CASE InsertUser(r)
  <2>1. PICK u \in Users, row \in Row :
           /\ Commit(r, u, row)
           /\ row.name = req[r].name
           /\ \/ u \in NameHolders(req[r].name) /\ row.type = users[u].type
              \/ NameHolders(req[r].name) = {} /\ row.type = "mobile"
           /\ NameHolders(req[r].name) = {} => u \notin Present
    <3>1. CASE \E v : v \in NameHolders(req[r].name) BY <1>3, <3>1, InsertCases
    <3>2. CASE NameHolders(req[r].name) = {}
      <4>1. PICK v \in Users \ Present :
              Commit(r, v, [name |-> req[r].name, type |-> "mobile",
                            device |-> DeviceOf[r], token |-> req[r].token])
        BY <1>3, <3>2 DEF InsertUser
      <4>2. req[r].token \in Tokens /\ DeviceOf[r] \in Devices /\ req[r].name \in Names
        BY <1>3, AccountsAssumption DEF InsertUser, Sound, Known, InTransaction
      <4> DEFINE new == [name |-> req[r].name, type |-> "mobile",
                         device |-> DeviceOf[r], token |-> req[r].token]
      <4>3. new \in Row BY <4>2 DEF Row
      <4>4. new.name = req[r].name /\ new.type = "mobile" OBVIOUS
      <4> HIDE DEF new
      <4>5. Commit(r, v, new) BY <4>1 DEF new
      <4> QED BY <3>2, <4>3, <4>4, <4>5
    <3> QED BY <3>1, <3>2
  <2>2. users' = [users EXCEPT ![u] = row] BY <2>1 DEF Commit
  <2>3. u \in NameHolders(req[r].name) => users[u].name = req[r].name /\ users[u].type # "none"
    BY <1>0 DEF NameHolders, RowsProper, Proper
  <2>4. Proper(row) /\ row.type # "none" BY <1>0, <2>1, <2>3 DEF Proper
  <2>5. NameHolders(row.name) \subseteq {u}
    BY <1>0, <2>1 DEF NameHolders, RowsProper, Unique
  <2>6. users[u].type = "none" \/ Fit(users[u], row)
    BY <2>1, <2>3 DEF Fit, Present
  <2> QED BY <1>0, <2>2, <2>4, <2>5, <2>6, WrittenProper
<1> QED BY <1>1, <1>2, <1>3

LEMMA UpdateProper ==
  ASSUME TypeOK, Busy, RowsProper, HeldFit, NEW w \in Writers, UpdateUser(w)
  PROVE  RowsProper' /\ NamesFit
<1> DEFINE u == writer[w].user
           row == writer[w].row
<1>1. CASE UNCHANGED users BY <1>1, SameProper
<1>2. CASE NameHolders(row.name) \subseteq {u} /\ users' = [users EXCEPT ![u] = row]
  <2>1. /\ u \in Users /\ row \in Row /\ users \in [Users -> Row]
        /\ Proper(row) /\ row.type # "none" /\ Fit(row, users[u])
    BY DEF UpdateUser, Busy, HeldFit, TypeOK, Writer, AccountsTypeOK
  <2> HIDE DEF u, row
  <2>2. Fit(users[u], row) BY <2>1 DEF Fit
  <2> QED BY <1>2, <2>1, <2>2, WrittenProper
<1> QED BY <1>1, <1>2 DEF UpdateUser

LEMMA CreateProper ==
  ASSUME TypeOK, Busy, RowsProper, NEW s \in Sessions, CreateUser(s)
  PROVE  RowsProper' /\ NamesFit
<1> DEFINE n == session[s].name
<1>0. n \in Names BY DEF CreateUser, Busy
<1>1. CASE UNCHANGED users BY <1>1, SameProper
<1>2. ASSUME NEW u \in Users \ Present, NameHolders(n) = {},
             users' = [users EXCEPT ![u] = WebUser(n)]
      PROVE  RowsProper' /\ NamesFit
  <2>1. /\ WebUser(n) \in Row /\ WebUser(n).name = n /\ WebUser(n).type = "web"
        /\ WebUser(n).device = NoDevice
    BY <1>0, WebUserIsRow DEF WebUser, NoRow
  <2>2. Proper(WebUser(n)) BY <1>0, <2>1, NothingAssumption DEF Proper
  <2>3. users \in [Users -> Row] /\ users[u].type = "none"
    BY DEF TypeOK, AccountsTypeOK, Present
  <2> QED BY <1>2, <2>1, <2>2, <2>3, WrittenProper
<1> QED BY <1>1, <1>2 DEF CreateUser

LEMMA ProperStep ==
  ASSUME TypeOK, Sound, Busy, NamesInv, [Next]_vars PROVE RowsProper' /\ NamesFit
<1>1. ASSUME NEW r \in Reqs, LinkUser(r) \/ InsertUser(r) PROVE RowsProper' /\ NamesFit
  BY <1>1, CommitProper DEF NamesInv
<1>2. ASSUME NEW w \in Writers, UpdateUser(w) PROVE RowsProper' /\ NamesFit
  BY <1>2, UpdateProper DEF NamesInv
<1>3. ASSUME NEW s \in Sessions, CreateUser(s) PROVE RowsProper' /\ NamesFit
  BY <1>3, CreateProper DEF NamesInv
<1>4. CASE UNCHANGED users BY <1>4, SameProper DEF NamesInv
<1>5. Enroll => UNCHANGED users \/ \E r \in Reqs : LinkUser(r) \/ InsertUser(r)
  BY DEF Enroll, CreateEnrollment, Start, Complete, SpendToken, FindUser, End, Fail
<1> QED BY <1>1, <1>2, <1>3, <1>4, <1>5
        DEF Next, InsertMessage, Insert, ReadSender, Abandon, LogIn, LogInAs, Becomes, vars, accounts

\* A row held fits its user's row as long as names fit.
LEMMA StillFit ==
  ASSUME HeldFit, NamesFit, NEW w \in Writers, writer[w].pc # "idle"
  PROVE  /\ writer[w].user \in Present'
         /\ writer[w].pc = "write" => Fit(writer[w].row, users'[writer[w].user])
BY DEF HeldFit, NamesFit, Fit

LEMMA HeldStep ==
  ASSUME TypeOK, Busy, NamesInv, NamesFit, [Next]_vars PROVE HeldFit'
<1> USE DEF NamesInv
<1>0. writer \in [Writers -> Writer] BY DEF TypeOK
<1>1. CASE UNCHANGED writer BY <1>1, StillFit DEF HeldFit
<1>2. ASSUME NEW w \in Writers, \A v \in Writers \ {w} : writer'[v] = writer[v],
             writer'[w].pc # "idle" => /\ writer'[w].user \in Present'
                                       /\ writer'[w].pc # "write"
      PROVE  HeldFit'
  BY <1>2, StillFit DEF HeldFit
<1>3. ASSUME NEW w \in Writers, NEW u \in Users, NEW m \in Msgs, InsertMessage(w, u, m) PROVE HeldFit'
  <2>1. /\ \A v \in Writers \ {w} : writer'[v] = writer[v]
        /\ writer'[w].user = u /\ writer'[w].pc = "read" /\ u \in Present'
    BY <1>0, <1>3 DEF InsertMessage, Insert, WriterIs, NoWriter, NamesFit
  <2> QED BY <1>2, <2>1
<1>4. ASSUME NEW w \in Writers, UpdateUser(w) \/ Abandon(w) PROVE HeldFit'
  <2>1. /\ \A v \in Writers \ {w} : writer'[v] = writer[v]
        /\ writer'[w].pc = "idle"
    BY <1>0, <1>4 DEF UpdateUser, Abandon, WriterIs, NoWriter
  <2> QED BY <1>2, <2>1
<1>5. ASSUME NEW w \in Writers, ReadSender(w) PROVE HeldFit'
  <2>1. /\ \A v \in Writers \ {w} : writer'[v] = writer[v]
        /\ writer'[w].row = users[writer[w].user] /\ writer'[w].user = writer[w].user
        /\ UNCHANGED users /\ writer[w].user \in Present
    BY <1>0, <1>5 DEF ReadSender, WriterIs, Writer, accounts, HeldFit
  <2>2. /\ Proper(users[writer[w].user]) /\ users[writer[w].user].type # "none"
        /\ writer[w].user \in Present'
    BY <2>1 DEF RowsProper, Present
  <2>3. Fit(users[writer[w].user], users'[writer[w].user]) BY <2>1 DEF Fit
  <2>4. ASSUME NEW v \in Writers \ {w}, writer'[v].pc # "idle"
        PROVE  /\ writer'[v].user \in Present'
               /\ writer'[v].pc = "write" => /\ Proper(writer'[v].row)
                                             /\ writer'[v].row.type # "none"
                                             /\ Fit(writer'[v].row, users'[writer'[v].user])
    BY <2>1, <2>4, StillFit DEF HeldFit
  <2> QED BY <2>1, <2>2, <2>3, <2>4 DEF HeldFit
<1> QED BY <1>1, <1>3, <1>4, <1>5
        DEF Next, Enroll, rows, CreateUser, LogIn, LogInAs, Becomes, vars

\* A mobile name stays one.
LEMMA StillMobile ==
  ASSUME RowsProper, NamesFit, NEW u \in Users, users[u].name \in MobileNames
  PROVE  users'[u].name \in MobileNames
<1>1. NoName \notin MobileNames BY NothingAssumption, RowsAssumption
<1>2. u \in Present BY <1>1 DEF RowsProper, Proper, Present
<1> QED BY <1>2 DEF NamesFit, Fit

LEMMA MobileStep ==
  ASSUME TypeOK, Sound, Busy, NamesInv, NamesFit, [Next]_vars PROVE MobileRequests'
<1> USE DEF NamesInv
<1>0. req \in [Reqs -> Completion] BY DEF Sound, AccountsTypeOK
<1>1. ASSUME \A r \in Reqs :
               /\ req'[r].pc \in {"spend"} \cup InTransaction => req'[r].name \in MobileNames
               /\ req'[r].pc = "link" => /\ req'[r].user \in Users
                                         /\ users[req'[r].user].name \in MobileNames
      PROVE  MobileRequests'
  BY <1>1, StillMobile DEF MobileRequests, InTransaction
<1>2. ASSUME NEW r \in Reqs, \A s \in Reqs \ {r} : req'[s] = req[s],
             req'[r].pc \in {"spend"} \cup InTransaction => req'[r].name \in MobileNames,
             req'[r].pc = "link" => /\ req'[r].user \in Users
                                    /\ users[req'[r].user].name \in MobileNames
      PROVE  MobileRequests'
  BY <1>1, <1>2 DEF MobileRequests, Sound, Known
<1>3. CASE UNCHANGED req BY <1>1, <1>3 DEF MobileRequests, Sound, Known
<1>4. ASSUME NEW r \in Reqs, NEW t \in Tokens, NEW n \in MobileNames, Start(r, t, n)
      PROVE  MobileRequests'
  BY <1>0, <1>2, <1>4 DEF Start
<1>5. ASSUME NEW r \in Reqs, NEW u, Reply(r, "ok", u) \/ Reply(r, "err", u) PROVE MobileRequests'
  <2>1. req'[r].pc \in {"ok", "err"} BY <1>0, <1>5 DEF Reply, NoCompletion
  <2>2. \A s \in Reqs \ {r} : req'[s] = req[s] BY <1>0, <1>5 DEF Reply
  <2> QED BY <1>2, <2>1, <2>2 DEF InTransaction
<1>6. ASSUME NEW r \in Reqs, End(r) PROVE MobileRequests'
  <2>1. req'[r].pc = "idle" BY <1>0, <1>6 DEF End, NoCompletion
  <2>2. \A s \in Reqs \ {r} : req'[s] = req[s] BY <1>0, <1>6 DEF End
  <2> QED BY <1>2, <2>1, <2>2 DEF InTransaction
<1>7. ASSUME NEW r \in Reqs, SpendToken(r), Goto(r, "find") PROVE MobileRequests'
  <2>1. req'[r].pc = "find" /\ req'[r].name = req[r].name
    BY <1>0, <1>7 DEF Goto, Completion
  <2>2. \A s \in Reqs \ {r} : req'[s] = req[s] BY <1>0, <1>7 DEF Goto
  <2>3. req[r].name \in MobileNames BY <1>7 DEF SpendToken, MobileRequests
  <2> QED BY <1>2, <2>1, <2>2, <2>3
<1>8. ASSUME NEW r \in Reqs, FindUser(r) PROVE MobileRequests'
  <2>1. /\ \A s \in Reqs \ {r} : req'[s] = req[s]
        /\ req'[r].name = req[r].name
        /\ \/ req'[r].pc = "insert"
           \/ req'[r].user \in Users /\ users[req'[r].user].device = DeviceOf[r]
    BY <1>0, <1>8 DEF FindUser, Goto, Completion, Present
  <2>2. DeviceOf[r] # NoDevice BY AccountsAssumption, NothingAssumption
  <2>3. req[r].name \in MobileNames BY <1>8 DEF FindUser, MobileRequests, InTransaction
  <2> QED BY <1>2, <2>1, <2>2, <2>3 DEF RowsProper, Proper
<1>9. ASSUME NEW r \in Reqs, Complete(r) \/ Fail(r) PROVE MobileRequests'
  <2>1. CASE LinkUser(r) \/ InsertUser(r)
    BY <1>5, <2>1 DEF LinkUser, InsertUser, Commit
  <2>2. CASE SpendToken(r) \/ FindUser(r) \/ Fail(r)
    BY <1>5, <1>7, <1>8, <2>2 DEF SpendToken, Fail
  <2> QED BY <1>9, <2>1, <2>2 DEF Complete
<1>10. Enroll => MobileRequests'
  BY <1>3, <1>4, <1>6, <1>9 DEF Enroll, CreateEnrollment
<1> QED BY <1>3, <1>10
        DEF Next, InsertMessage, Insert, ReadSender, UpdateUser, Abandon, CreateUser, LogIn,
            LogInAs, Becomes, vars, accounts

LEMMA SessionsStep ==
  ASSUME TypeOK, Busy, NamesInv, NamesFit, RowsProper', [Next]_vars PROVE SessionsFit'
<1> USE DEF NamesInv
<1>0. session \in [Sessions -> Session] /\ users \in [Users -> Row] BY DEF TypeOK, AccountsTypeOK
<1>1. ASSUME NEW s \in Sessions, session'[s] = session[s],
             session'[s].pc = "in", session'[s].name \notin MobileNames
      PROVE  session'[s].user \in Present' /\ users'[session'[s].user].name = session'[s].name
  BY <1>1 DEF SessionsFit, NamesFit, Fit
<1>2. CASE UNCHANGED session BY <1>1, <1>2 DEF SessionsFit
<1>3. ASSUME NEW s \in Sessions, \A k \in Sessions \ {s} : session'[k] = session[k],
             session'[s].pc = "in" =>
               session'[s].user \in Present' /\ users'[session'[s].user].name = session'[s].name
      PROVE  SessionsFit'
  BY <1>1, <1>3 DEF SessionsFit
<1>4. ASSUME NEW s \in Sessions, NEW n \in Names, NEW u \in Users, LogInAs(s, n, u),
             users'[u].name = n
      PROVE  SessionsFit'
  <2>1. /\ \A k \in Sessions \ {s} : session'[k] = session[k]
        /\ session'[s].user = u /\ session'[s].name = n
    BY <1>0, <1>4 DEF LogInAs, Becomes
  <2>2. u \in Present' BY <1>4, NothingAssumption DEF RowsProper, Proper, Present
  <2> QED BY <1>3, <1>4, <2>1, <2>2
<1>5. ASSUME NEW s \in Sessions, NEW state, Becomes(s, state), state.pc # "in" PROVE SessionsFit'
  BY <1>0, <1>3, <1>5 DEF Becomes
<1>6. ASSUME NEW s \in Sessions, NEW n \in WebNames, LogIn(s, n) PROVE SessionsFit'
  <2>1. CASE \E u \in NameHolders(n) : LogInAs(s, n, u)
    BY <1>4, <1>6, <2>1, RowsAssumption DEF LogIn, NameHolders
  <2>2. CASE Becomes(s, [NoSession EXCEPT !.pc = "create", !.name = n])
    <3>1. [NoSession EXCEPT !.pc = "create", !.name = n].pc # "in" BY DEF NoSession
    <3> QED BY <1>5, <2>2, <3>1
  <2> QED BY <1>6, <2>1, <2>2 DEF LogIn
<1>7. ASSUME NEW s \in Sessions, CreateUser(s) PROVE SessionsFit'
  <2> DEFINE n == session[s].name
  <2>0. n \in Names BY <1>7 DEF CreateUser, Busy
  <2>1. ASSUME NEW u \in NameHolders(n), LogInAs(s, n, u), UNCHANGED users PROVE SessionsFit'
    BY <1>4, <2>0, <2>1 DEF NameHolders
  <2>2. ASSUME NEW u \in Users, LogInAs(s, n, u), users' = [users EXCEPT ![u] = WebUser(n)]
        PROVE  SessionsFit'
    <3>1. users'[u].name = n BY <1>0, <2>2 DEF WebUser, NoRow
    <3> HIDE DEF n
    <3> QED BY <1>4, <2>0, <2>2, <3>1
  <2>3. CASE Becomes(s, NoSession) BY <1>5, <2>3 DEF NoSession
  <2> QED BY <1>7, <2>1, <2>2, <2>3 DEF CreateUser
<1> QED BY <1>2, <1>6, <1>7
        DEF Next, Enroll, rows, InsertMessage, Insert, ReadSender, UpdateUser, Abandon, vars

LEMMA NamesStep == ASSUME TypeOK, Sound, Busy, NamesInv, [Next]_vars PROVE NamesInv'
BY ProperStep, HeldStep, MobileStep, SessionsStep DEF NamesInv

\* Two log-ins under one name that no phone enrolls under are one user, however they overlap
\* with each other, with enrollments and with rewrites of rows.
THEOREM SessionsAgreeHolds == Spec => []SessionsAgree
<1>1. Busy /\ NamesInv => SessionsAgree
  <2> SUFFICES ASSUME Busy, NamesInv, NEW s \in Sessions, NEW k \in Sessions,
                      session[s].pc = "in", session[k].pc = "in",
                      session[s].name = session[k].name, session[s].name \notin MobileNames
               PROVE  session[s].user = session[k].user
    BY DEF SessionsAgree
  <2>1. session[s].name \in Names BY DEF Busy
  <2> QED BY <2>1, NothingAssumption DEF NamesInv, SessionsFit, RowsProper, Unique, Present
<1>2. TypeOK /\ Sound /\ Busy /\ NamesInv /\ [Next]_vars => NamesInv' BY NamesStep
<1> QED BY Basis, NamesInit, <1>1, <1>2, PTL DEF Spec

----------------------------------------------------------------------------
(* Enrollments alone come between the read and the rewrite of a row *)

\* The row a request is about to write back is the row there is.
RowsFresh ==
  \A w \in Writers :
    /\ writer[w].pc # "idle" => writer[w].user \in Present
    /\ writer[w].pc = "write" => writer[w].row = users[writer[w].user]

\* What EnrollmentsWait says of a step.
Waits ==
  Enroll => \A w \in Writers : writer[w].pc = "write" =>
              users'[writer[w].user] = users[writer[w].user]

LEMMA FreshRewrite ==
  ASSUME TypeOK, RowsFresh, NEW w \in Writers, UpdateUser(w) PROVE UNCHANGED users
<1>1. users \in [Users -> Row] /\ writer[w].user \in Users
  BY DEF TypeOK, AccountsTypeOK, RowsFresh, UpdateUser, Present
<1>2. writer[w].row = users[writer[w].user] BY DEF RowsFresh, UpdateUser
<1> QED BY <1>1, <1>2 DEF UpdateUser

\* A step that starts nothing, removes nobody and leaves the rows about to be rewritten alone.
LEMMA FreshFrame ==
  ASSUME RowsFresh, Present \subseteq Present',
         \A w \in Writers : writer[w].pc = "write" =>
           users'[writer[w].user] = users[writer[w].user],
         \A w \in Writers : writer'[w] = writer[w] \/ writer'[w].pc = "idle"
  PROVE  RowsFresh'
BY DEF RowsFresh

LEMMA FreshStep ==
  ASSUME TypeOK, Sound, Busy, NamesInv, RowsFresh, Waits, [Next]_vars PROVE RowsFresh'
<1>0. users \in [Users -> Row] /\ writer \in [Writers -> Writer]
  BY DEF TypeOK, AccountsTypeOK
<1>1. Present \subseteq Present' BY ProperStep DEF NamesFit
<1>2. CASE UNCHANGED <<users, writer>> BY <1>1, <1>2, FreshFrame
<1>3. CASE Enroll BY <1>1, <1>3, FreshFrame DEF Enroll, rows, Waits
<1>4. ASSUME NEW w \in Writers, NEW u \in Users, NEW m \in Msgs, InsertMessage(w, u, m)
      PROVE  RowsFresh'
  <2>1. UNCHANGED users /\ u \in Present
    BY <1>4 DEF InsertMessage, Insert, accounts
  <2>2. writer'[w].pc = "read" /\ writer'[w].user = u /\ \A v \in Writers \ {w} : writer'[v] = writer[v]
    BY <1>0, <1>4 DEF InsertMessage, Insert, WriterIs, NoWriter
  <2> QED BY <1>1, <2>1, <2>2 DEF RowsFresh
<1>5. ASSUME NEW w \in Writers, ReadSender(w) PROVE RowsFresh'
  <2>1. UNCHANGED users BY <1>5 DEF ReadSender, accounts
  <2>2. writer[w] \in Writer /\ writer[w].pc = "read" BY <1>0, <1>5 DEF ReadSender
  <2>3. /\ writer'[w].user = writer[w].user /\ writer'[w].row = users[writer[w].user]
        /\ \A v \in Writers \ {w} : writer'[v] = writer[v]
    BY <1>0, <1>5, <2>2 DEF ReadSender, WriterIs, Writer
  <2> QED BY <1>1, <2>1, <2>2, <2>3 DEF RowsFresh
<1>6. ASSUME NEW w \in Writers, UpdateUser(w) \/ Abandon(w) PROVE RowsFresh'
  <2>1. UNCHANGED users BY <1>6, FreshRewrite DEF Abandon, accounts
  <2>2. \A v \in Writers : writer'[v] = writer[v] \/ writer'[v].pc = "idle"
    BY <1>0, <1>6 DEF UpdateUser, Abandon, WriterIs, NoWriter
  <2> QED BY <1>1, <2>1, <2>2, FreshFrame
<1>7. ASSUME NEW s \in Sessions, CreateUser(s) PROVE RowsFresh'
  <2>1. UNCHANGED writer BY <1>7 DEF CreateUser, LogInAs, Becomes
  <2>2. UNCHANGED users \/ \E u \in Users \ Present :
                             users' = [users EXCEPT ![u] = WebUser(session[s].name)]
    BY <1>7 DEF CreateUser
  <2>3. \A u \in Present : users'[u] = users[u] BY <1>0, <2>2 DEF Present
  <2> QED BY <1>1, <2>1, <2>3, FreshFrame DEF RowsFresh
<1>8. ASSUME NEW s \in Sessions, NEW n \in WebNames, LogIn(s, n) PROVE RowsFresh'
  BY <1>2, <1>8 DEF LogIn, LogInAs, Becomes
<1>9. CASE UNCHANGED vars BY <1>2, <1>9 DEF vars, accounts, rows
<1> QED BY <1>3, <1>4, <1>5, <1>6, <1>7, <1>8, <1>9 DEF Next

\* Where no enrollment commits between GetUserByID and UpdateUser of its user's row, storing a
\* message changes nothing of a user but last_message_sent: other messages of the same user
\* and log-ins may come between, and statements may fail.  So a lock on the sender's row would
\* be enough, and enrollments are all that such a rewrite can undo.
THEOREM OnlySentChangesHolds == Spec /\ EnrollmentsWait => OnlySentChanges
<1> DEFINE Inv == TypeOK /\ Sound /\ Busy /\ NamesInv /\ RowsFresh
<1>1. Init => Inv
  <2>1. Init => RowsFresh BY DEF Init, RowsFresh, NoWriter
  <2> QED BY <2>1, TypeInit, BusyInit, NamesInit
<1>2. Inv /\ [Next]_vars /\ [Waits]_vars => Inv'
  <2> SUFFICES ASSUME Inv, [Next]_vars, [Waits]_vars PROVE Inv'
    OBVIOUS
  <2>1. CASE Waits BY <2>1, BasisStep, NamesStep, FreshStep
  <2>2. CASE UNCHANGED vars
    <3>1. RowsFresh'
      BY <2>2 DEF vars, accounts, rows, RowsFresh, Present
    <3> QED BY <3>1, BasisStep, NamesStep
  <2> QED BY <2>1, <2>2
<1>3. Inv /\ [Next]_vars => [(\E w \in Writers : UpdateUser(w)) => UNCHANGED users]_vars
  BY FreshRewrite
<1>4. EnrollmentsWait => [][Waits]_vars BY PTL DEF EnrollmentsWait, Waits
<1> QED BY <1>1, <1>2, <1>3, <1>4, PTL DEF Spec, OnlySentChanges

============================================================================

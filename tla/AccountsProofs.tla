--------------------------- MODULE AccountsProofs ---------------------------
(***************************************************************************)
(* What every step of Accounts preserves, for any number of users, tokens  *)
(* and requests.  EnrollmentProofs and UserRowsProofs rest on it.          *)
(***************************************************************************)
EXTENDS Accounts, TLAPS

\* A request at work knows its token and its name, and one that found a row its user.
Known ==
  \A r \in Reqs :
    /\ req[r].pc \in {"spend"} \cup InTransaction =>
         req[r].token \in Tokens /\ req[r].name \in Names
    /\ req[r].pc = "link" => req[r].user \in Users

\* A token is used exactly if it was used for somebody.
Spent == \A t \in Tokens : Used(t) <=> granted[t] \in Users

\* Only one transaction holds a token, and nobody has used it.
HeldUnused ==
  \A r, s \in Reqs :
    /\ req[r].pc \in InTransaction => ~ Used(req[r].token)
    /\ req[r].pc \in InTransaction /\ req[s].pc \in InTransaction
         /\ req[r].token = req[s].token => r = s

Sound == AccountsTypeOK /\ Known /\ Spent /\ HeldUnused

LEMMA SoundInit == AccountsInit => Sound
<1> SUFFICES ASSUME AccountsInit PROVE Sound
  OBVIOUS
<1>1. AccountsTypeOK
  BY AccountsAssumption
  DEF AccountsInit, AccountsTypeOK, Token, Completion, NoCompletion
<1>2. Known /\ HeldUnused
  BY DEF AccountsInit, Known, HeldUnused, NoCompletion, InTransaction
<1>3. Spent BY NothingAssumption DEF AccountsInit, Spent, Used
<1> QED BY <1>1, <1>2, <1>3 DEF Sound

\* The three ways a slot of req changes.
LEMMA GotoTypes ==
  ASSUME AccountsTypeOK, NEW r \in Reqs,
         NEW pc \in {"idle", "spend", "find", "link", "insert", "ok", "err"}, Goto(r, pc)
  PROVE  req' \in [Reqs -> Completion]
BY DEF AccountsTypeOK, Goto, Completion

LEMMA ReplyTypes ==
  ASSUME AccountsTypeOK, NEW r \in Reqs, NEW pc \in {"ok", "err"},
         NEW u \in Users \cup {NoUser}, Reply(r, pc, u)
  PROVE  req' \in [Reqs -> Completion]
BY DEF AccountsTypeOK, Reply, Completion, NoCompletion

\* A step that changes nobody's request but r's, to one without a token, and no table.
LEMMA LeavingSound ==
  ASSUME Sound, NEW r \in Reqs, req' \in [Reqs -> Completion],
         \A s \in Reqs \ {r} : req'[s] = req[s],
         req'[r].pc \in {"idle", "ok", "err"},
         UNCHANGED <<users, tokens, granted>>
  PROVE  Sound'
<1> USE DEF Sound
<1>1. AccountsTypeOK' BY DEF AccountsTypeOK
<1>2. Known' BY DEF Known, InTransaction
<1>3. Spent' BY DEF Spent, Used
<1>4. HeldUnused' BY DEF HeldUnused, InTransaction, Used
<1> QED BY <1>1, <1>2, <1>3, <1>4

LEMMA FailSound == ASSUME Sound, NEW r \in Reqs, Fail(r) PROVE Sound'
<1>1. req' \in [Reqs -> Completion] BY ReplyTypes DEF Fail, Sound
<1> QED BY <1>1, LeavingSound DEF Fail, Reply, Sound, AccountsTypeOK, NoCompletion

LEMMA EndSound == ASSUME Sound, NEW r \in Reqs, End(r) PROVE Sound'
<1>1. req' \in [Reqs -> Completion]
  BY DEF End, Sound, AccountsTypeOK, Completion, NoCompletion
<1> QED BY <1>1, LeavingSound DEF End, Sound, AccountsTypeOK, NoCompletion

LEMMA AllEndSound == ASSUME Sound, AllEnd PROVE Sound'
<1> USE DEF Sound, AllEnd
<1>1. AccountsTypeOK' BY DEF AccountsTypeOK, Completion, NoCompletion
<1>2. Known' /\ HeldUnused' BY DEF Known, HeldUnused, InTransaction, NoCompletion
<1>3. Spent' BY DEF Spent, Used
<1> QED BY <1>1, <1>2, <1>3

\* Creating a token and letting it expire use nobody's token.
LEMMA TokenSound ==
  ASSUME Sound, NEW t \in Tokens, CreateEnrollment(t) \/ Expire(t)
  PROVE  Sound' /\ \A k \in Tokens : tokens'[k].device = tokens[k].device
<1> USE DEF Sound, CreateEnrollment, Expire
<1>0. /\ tokens' \in [Tokens -> Token]
      /\ \A k \in Tokens : tokens'[k].device = tokens[k].device
      /\ UNCHANGED <<users, granted, req>>
  <2>1. tokens \in [Tokens -> Token] BY DEF AccountsTypeOK
  <2>2. CASE CreateEnrollment(t)
    <3>1. tokens' = [tokens EXCEPT ![t] = [tokens[t] EXCEPT !.made = TRUE]] BY <2>2
    <3> QED BY <2>1, <2>2, <3>1 DEF Token
  <2>3. CASE Expire(t)
    <3>1. tokens' = [tokens EXCEPT ![t] = [tokens[t] EXCEPT !.expired = TRUE]] BY <2>3
    <3> QED BY <2>1, <2>3, <3>1 DEF Token
  <2> QED BY <2>2, <2>3
<1>1. AccountsTypeOK' BY <1>0 DEF AccountsTypeOK
<1>2. Known' BY <1>0 DEF Known, InTransaction
<1>3. Spent' BY <1>0 DEF Spent, Used
<1>4. HeldUnused'
  <2>1. \A r \in Reqs : req[r].pc \in InTransaction => req[r].token \in Tokens
    BY DEF Known
  <2> QED BY <1>0, <2>1 DEF HeldUnused, Used
<1> QED BY <1>0, <1>1, <1>2, <1>3, <1>4

LEMMA StartSound ==
  ASSUME Sound, NEW r \in Reqs, NEW t \in Tokens, NEW n \in Names, Start(r, t, n)
  PROVE  Sound'
<1> USE DEF Sound, Start
<1>0. req' \in [Reqs -> Completion] BY DEF AccountsTypeOK, Completion, Token
<1>1. AccountsTypeOK' BY <1>0 DEF AccountsTypeOK
<1>2. Known' BY DEF Known, InTransaction, AccountsTypeOK
<1>3. Spent' BY DEF Spent, Used
<1>4. HeldUnused' BY DEF HeldUnused, InTransaction, Used, AccountsTypeOK
<1> QED BY <1>1, <1>2, <1>3, <1>4

LEMMA SpendSound == ASSUME Sound, NEW r \in Reqs, SpendToken(r) PROVE Sound'
<1>1. CASE Reply(r, "err", NoUser)
  <2>1. req' \in [Reqs -> Completion] BY <1>1, ReplyTypes DEF Sound
  <2> QED BY <1>1, <2>1, LeavingSound
          DEF SpendToken, Reply, Sound, AccountsTypeOK, NoCompletion
<1>2. CASE Goto(r, "find") /\ ~ Used(req[r].token)
  <2> USE DEF Sound, SpendToken
  <2>0. req' \in [Reqs -> Completion] BY <1>2, GotoTypes
  <2>1. AccountsTypeOK' BY <2>0 DEF AccountsTypeOK
  <2>2. Known' BY <1>2 DEF Known, Goto, InTransaction, AccountsTypeOK
  <2>3. Spent' BY DEF Spent, Used
  <2>4. HeldUnused'
    BY <1>2 DEF HeldUnused, Goto, InTransaction, Used, Holders, AccountsTypeOK
  <2> QED BY <2>1, <2>2, <2>3, <2>4
<1> QED BY <1>1, <1>2 DEF SpendToken

LEMMA FindSound == ASSUME Sound, NEW r \in Reqs, FindUser(r) PROVE Sound'
<1> USE DEF Sound, FindUser
<1>0. /\ req' \in [Reqs -> Completion]
      /\ \A s \in Reqs : /\ req'[s].token = req[s].token
                         /\ req'[s].name = req[s].name
                         /\ s # r => req'[s] = req[s]
      /\ \/ req'[r].pc = "link" /\ req'[r].user \in Users
         \/ req'[r].pc = "insert"
  BY DEF AccountsTypeOK, Completion, Goto, Present
<1>1. AccountsTypeOK' BY <1>0 DEF AccountsTypeOK
<1>2. Known' BY <1>0 DEF Known, InTransaction
<1>3. Spent' BY DEF Spent, Used
<1>4. HeldUnused' BY <1>0 DEF HeldUnused, InTransaction, Used
<1> QED BY <1>1, <1>2, <1>3, <1>4

\* What the end of a transaction does: its token is used for its device and its user, and no
\* other token that was used changes.
LEMMA CommitEffect ==
  ASSUME Sound, NEW r \in Reqs, req[r].pc \in {"link", "insert"},
         NEW u \in Users, NEW row \in Row, Commit(r, u, row)
  PROVE  /\ Sound'
         /\ req[r].token \in Tokens /\ ~ Used(req[r].token)
         /\ users' = [users EXCEPT ![u] = row]
         /\ granted'[req[r].token] = u
         /\ tokens'[req[r].token].device = DeviceOf[r]
         /\ \A t \in Tokens \ {req[r].token} : /\ granted'[t] = granted[t]
                                              /\ tokens'[t].device = tokens[t].device
         /\ Reply(r, "ok", u) \/ Reply(r, "err", NoUser)
<1> DEFINE tok == req[r].token
<1> USE DEF Sound
<1>0. tok \in Tokens /\ ~ Used(tok) /\ DeviceOf[r] \in Devices /\ DeviceOf[r] # NoDevice
  BY AccountsAssumption, NothingAssumption DEF Known, HeldUnused, InTransaction
<1>1. /\ users' = [users EXCEPT ![u] = row]
      /\ users' \in [Users -> Row]
      /\ granted' \in [Tokens -> Users \cup {NoUser}]
      /\ granted'[tok] = u
      /\ tokens' \in [Tokens -> Token]
      /\ tokens'[tok].device = DeviceOf[r]
      /\ \A t \in Tokens \ {tok} : /\ granted'[t] = granted[t]
                                   /\ tokens'[t].device = tokens[t].device
  BY <1>0 DEF Commit, AccountsTypeOK, Token
<1>2. Reply(r, "ok", u) \/ Reply(r, "err", NoUser) BY DEF Commit
<1>3. /\ req' \in [Reqs -> Completion]
      /\ req'[r].pc \in {"ok", "err"}
      /\ \A s \in Reqs \ {r} : req'[s] = req[s]
  BY <1>2, ReplyTypes DEF Reply, NoCompletion, AccountsTypeOK
<1>4. AccountsTypeOK' BY <1>1, <1>3 DEF AccountsTypeOK
<1>5. Known' BY <1>3 DEF Known, InTransaction
<1>6. Spent' BY <1>0, <1>1 DEF Spent, Used
<1>7. HeldUnused'
  <2>1. \A s \in Reqs \ {r} : req[s].pc \in InTransaction => req[s].token \in Tokens \ {tok}
    BY <1>0 DEF HeldUnused, Known, InTransaction
  <2> QED BY <1>1, <1>3, <2>1 DEF HeldUnused, InTransaction, Used
<1> QED BY <1>0, <1>1, <1>2, <1>4, <1>5, <1>6, <1>7

\* The rows the two last statements write.
LEMMA LinkCases ==
  ASSUME Sound, NEW r \in Reqs, LinkUser(r)
  PROVE  \/ /\ req[r].user \in Users
            /\ NameHolders(req[r].name) \subseteq {req[r].user}
            /\ [users[req[r].user] EXCEPT !.name = req[r].name, !.token = req[r].token] \in Row
            /\ Commit(r, req[r].user, [users[req[r].user] EXCEPT !.name = req[r].name,
                                                                 !.token = req[r].token])
         \/ Reply(r, "err", NoUser) /\ UNCHANGED <<users, tokens, granted>>
<1>1. req[r].user \in Users /\ req[r].name \in Names /\ req[r].token \in Tokens
  BY DEF LinkUser, Sound, Known, InTransaction
<1>2. [users[req[r].user] EXCEPT !.name = req[r].name, !.token = req[r].token] \in Row
  <2>1. users[req[r].user] \in Row BY <1>1 DEF Sound, AccountsTypeOK
  <2> QED BY <1>1, <2>1 DEF Row
<1> QED BY <1>1, <1>2 DEF LinkUser

LEMMA InsertCases ==
  ASSUME Sound, NEW r \in Reqs, InsertUser(r)
  PROVE  \E u \in Users, row \in Row :
           /\ Commit(r, u, row)
           /\ row.device = DeviceOf[r] /\ row.token = req[r].token
           /\ row.name = req[r].name
           /\ \/ u \in NameHolders(req[r].name) /\ row.type = users[u].type
              \/ NameHolders(req[r].name) = {} /\ row.type = "mobile"
<1>1. req[r].name \in Names /\ req[r].token \in Tokens /\ DeviceOf[r] \in Devices
  BY AccountsAssumption DEF InsertUser, Sound, Known, InTransaction
<1>2. CASE \E u \in NameHolders(req[r].name) :
             Commit(r, u, [users[u] EXCEPT !.device = DeviceOf[r], !.token = req[r].token])
  <2>1. PICK u \in NameHolders(req[r].name) :
          Commit(r, u, [users[u] EXCEPT !.device = DeviceOf[r], !.token = req[r].token])
    BY <1>2
  <2> DEFINE row == [users[u] EXCEPT !.device = DeviceOf[r], !.token = req[r].token]
  <2>2. u \in Users /\ users[u] \in Row /\ users[u].name = req[r].name
    BY DEF NameHolders, Sound, AccountsTypeOK
  <2>3. /\ row \in Row /\ row.device = DeviceOf[r] /\ row.token = req[r].token
        /\ row.name = req[r].name /\ row.type = users[u].type
    BY <1>1, <2>2 DEF Row
  <2> QED BY <2>1, <2>2, <2>3
<1>3. CASE /\ NameHolders(req[r].name) = {}
           /\ \E u \in Users \ Present :
                Commit(r, u, [name |-> req[r].name, type |-> "mobile",
                              device |-> DeviceOf[r], token |-> req[r].token])
  <2> DEFINE row == [name |-> req[r].name, type |-> "mobile",
                     device |-> DeviceOf[r], token |-> req[r].token]
  <2>1. row \in Row BY <1>1 DEF Row
  <2> QED BY <1>3, <2>1
<1> QED BY <1>2, <1>3 DEF InsertUser

LEMMA LinkSound == ASSUME Sound, NEW r \in Reqs, LinkUser(r) PROVE Sound'
<1>1. CASE Reply(r, "err", NoUser) /\ UNCHANGED <<users, tokens, granted>>
  <2>1. req' \in [Reqs -> Completion] BY <1>1, ReplyTypes DEF Sound
  <2> QED BY <1>1, <2>1, LeavingSound DEF Reply, Sound, AccountsTypeOK, NoCompletion
<1>2. CASE ~ (Reply(r, "err", NoUser) /\ UNCHANGED <<users, tokens, granted>>)
  BY <1>2, LinkCases, CommitEffect DEF LinkUser
<1> QED BY <1>1, <1>2

LEMMA InsertSound == ASSUME Sound, NEW r \in Reqs, InsertUser(r) PROVE Sound'
BY InsertCases, CommitEffect DEF InsertUser

LEMMA CompleteSound == ASSUME Sound, NEW r \in Reqs, Complete(r) PROVE Sound'
BY SpendSound, FindSound, LinkSound, InsertSound DEF Complete

LEMMA QuietSound == Sound /\ UNCHANGED accounts => Sound'
BY DEF Sound, accounts, AccountsTypeOK, Known, Spent, HeldUnused, Used, InTransaction

\* A token that was used stays so, for the same device and the same user.
Kept ==
  \A t \in Tokens : granted[t] \in Users =>
    granted'[t] = granted[t] /\ tokens'[t].device = tokens[t].device

LEMMA CommitKept ==
  ASSUME Sound, NEW r \in Reqs, req[r].pc \in {"link", "insert"},
         NEW u \in Users, NEW row \in Row, Commit(r, u, row)
  PROVE  Kept
BY CommitEffect DEF Kept, Spent, Sound

LEMMA CompleteKept == ASSUME Sound, NEW r \in Reqs, Complete(r) PROVE Kept
<1>1. CASE SpendToken(r) \/ FindUser(r) BY <1>1 DEF SpendToken, FindUser, Kept
<1>2. CASE LinkUser(r)
  <2>1. CASE UNCHANGED <<tokens, granted>> BY <2>1 DEF Kept
  <2>2. CASE ~ UNCHANGED <<tokens, granted>>
    BY <1>2, <2>2, LinkCases, CommitKept DEF LinkUser
  <2> QED BY <2>1, <2>2
<1>3. CASE InsertUser(r) BY <1>3, InsertCases, CommitKept DEF InsertUser
<1> QED BY <1>1, <1>2, <1>3 DEF Complete

============================================================================

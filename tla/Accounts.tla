------------------------------ MODULE Accounts ------------------------------
(***************************************************************************)
(* The tables `users' and `enrollment_tokens', and the sync engine's       *)
(* enrollment endpoints, which change both in one transaction: POST        *)
(* /api/enrollment/create, GET /api/enrollment/{token} and POST            *)
(* /api/enrollment/complete.  Enrollment adds the phones, UserRows the     *)
(* other writers of the users table; both extend this module.              *)
(*                                                                         *)
(* A transaction is READ COMMITTED.  It keeps the row lock on its token    *)
(* from the UPDATE to its end, reads committed users in between, and ends  *)
(* with one statement on users and the COMMIT.  These two are one step     *)
(* here: that statement sees the latest rows and locks what it writes, so  *)
(* nothing can come between, and if the COMMIT fails all is undone.        *)
(***************************************************************************)
EXTENDS Naturals, FiniteSets

CONSTANTS
  Users, NoUser,      \* users.id: the rows there are or may come to be
  Names, NoName,      \* users.username
  Devices, NoDevice,  \* users.device_id
  Tokens, NoToken,    \* the enrollment tokens that may be created
  Reqs,               \* the POSTs to /api/enrollment/complete that may be going on at once
  DeviceOf,           \* device_id in the body of each of them
  Seed,               \* the users before the first enrollment
  Faults              \* the kinds of failure that can happen

FaultKinds == {"db",        \* a statement fails, or a COMMIT whose outcome nobody learns
               "lost",      \* a reply never arrives
               "appcrash",  \* the phone's app dies and is started again
               "wiped",     \* the app's preferences are lost
               "restart"}   \* the sync engine process dies

Row == [name : Names \cup {NoName}, type : {"none", "web", "mobile"},
        device : Devices \cup {NoDevice}, token : Tokens \cup {NoToken}]

NoRow == [name |-> NoName, type |-> "none", device |-> NoDevice, token |-> NoToken]

\* Where a username is in use; the column is NOT NULL and UNIQUE.
Unique(rows) ==
  \A u, v \in Users : rows[u].name = rows[v].name /\ rows[u].name # NoName => u = v

ASSUME NothingAssumption ==
  /\ NoUser \notin Users
  /\ NoName \notin Names
  /\ NoDevice \notin Devices
  /\ NoToken \notin Tokens
ASSUME AccountsAssumption ==
  /\ DeviceOf \in [Reqs -> Devices]
  /\ Seed \in [Users -> Row]
  /\ Unique(Seed)
  /\ \A u \in Users :
       /\ Seed[u].name = NoName <=> Seed[u].type = "none"
       /\ Seed[u].device = NoDevice
       /\ Seed[u].token = NoToken
  /\ Faults \subseteq FaultKinds

VARIABLES
  users,    \* the row of each user, NoRow where there is none
  tokens,   \* each token: [made, expired, device]; used_at is set when device is
  granted,  \* the user each token was used for: history that no table keeps
  req       \* each completion: [pc, token, name, fresh, user]

accounts == <<users, tokens, granted, req>>

----------------------------------------------------------------------------
(* State *)

Token == [made : BOOLEAN, expired : BOOLEAN, device : Devices \cup {NoDevice}]

Completion ==
  [pc : {"idle", "spend", "find", "link", "insert", "ok", "err"},
   token : Tokens \cup {NoToken}, name : Names \cup {NoName},
   fresh : BOOLEAN,             \* not expired at NOW(), the start of the transaction
   user : Users \cup {NoUser}]  \* the user found or made

NoCompletion ==
  [pc |-> "idle", token |-> NoToken, name |-> NoName, fresh |-> FALSE, user |-> NoUser]

AccountsTypeOK ==
  /\ users \in [Users -> Row]
  /\ tokens \in [Tokens -> Token]
  /\ granted \in [Tokens -> Users \cup {NoUser}]
  /\ req \in [Reqs -> Completion]

AccountsInit ==
  /\ users = Seed
  /\ tokens = [t \in Tokens |-> [made |-> FALSE, expired |-> FALSE, device |-> NoDevice]]
  /\ granted = [t \in Tokens |-> NoUser]
  /\ req = [r \in Reqs |-> NoCompletion]

Present == {u \in Users : users[u].type # "none"}

Used(t) == tokens[t].device # NoDevice

Goto(r, pc) == req' = [req EXCEPT ![r].pc = pc]

\* 200 and the user's id, or one of 400, 404, 409 and 500, which the app does not tell apart.
Reply(r, pc, u) == req' = [req EXCEPT ![r] = [NoCompletion EXCEPT !.pc = pc, !.user = u]]

----------------------------------------------------------------------------
(* Tokens *)

\* Any web user may create one; it expires an hour later.
CreateEnrollment(t) ==
  /\ ~ tokens[t].made
  /\ tokens' = [tokens EXCEPT ![t].made = TRUE]
  /\ UNCHANGED <<users, granted, req>>

Expire(t) ==
  /\ tokens[t].made
  /\ ~ tokens[t].expired
  /\ tokens' = [tokens EXCEPT ![t].expired = TRUE]
  /\ UNCHANGED <<users, granted, req>>

\* What GET /api/enrollment/{token} answers.
Valid(t) == ~ tokens[t].expired /\ ~ Used(t)

----------------------------------------------------------------------------
(* POST /api/enrollment/complete *)

\* The request arrives, its token exists and its name is not empty, and the transaction
\* begins: nothing has changed so far, so sending it and all this are one step.
Start(r, t, n) ==
  /\ req[r] = NoCompletion
  /\ tokens[t].made
  /\ req' = [req EXCEPT ![r] = [pc |-> "spend", token |-> t, name |-> n,
                                fresh |-> ~ tokens[t].expired, user |-> NoUser]]
  /\ UNCHANGED <<users, tokens, granted>>

InTransaction == {"find", "link", "insert"}

\* The transactions that hold the row of a token.
Holders(t) == {r \in Reqs : req[r].token = t /\ req[r].pc \in InTransaction}

\* Mutant: UPDATE without `used_at IS NULL'.
SpendAgain(r) ==
  /\ req[r].pc = "spend"
  /\ Holders(req[r].token) = {}
  /\ req[r].fresh
  /\ Goto(r, "find")
  /\ UNCHANGED <<users, tokens, granted>>

\* The conditional UPDATE of the token, which looks again after having waited for the row.
SpendToken(r) ==
  /\ req[r].pc = "spend"
  /\ Holders(req[r].token) = {}
  /\ IF req[r].fresh /\ ~ Used(req[r].token) THEN Goto(r, "find") ELSE Reply(r, "err", NoUser)
  /\ UNCHANGED <<users, tokens, granted>>

\* Mutant: every completion makes a user.
NeverFind(r) ==
  /\ req[r].pc = "find"
  /\ Goto(r, "insert")
  /\ UNCHANGED <<users, tokens, granted>>

\* SELECT id FROM users WHERE device_id = $1.
FindUser(r) ==
  /\ req[r].pc = "find"
  /\ \/ \E u \in Present :
          /\ users[u].device = DeviceOf[r]
          /\ req' = [req EXCEPT ![r].pc = "link", ![r].user = u]
     \/ /\ \A u \in Present : users[u].device # DeviceOf[r]
        /\ Goto(r, "insert")
  /\ UNCHANGED <<users, tokens, granted>>

\* The last statement and the COMMIT; a lost connection leaves the outcome open.
Commit(r, u, row) ==
  /\ users' = [users EXCEPT ![u] = row]
  /\ tokens' = [tokens EXCEPT ![req[r].token].device = DeviceOf[r]]
  /\ granted' = [granted EXCEPT ![req[r].token] = u]
  /\ Reply(r, "ok", u) \/ ("db" \in Faults /\ Reply(r, "err", NoUser))

NameHolders(n) == {u \in Users : users[u].name = n}

\* UPDATE users by id: the device the row was found by is not looked at again.  A name that
\* is taken breaks the UNIQUE constraint.
LinkUser(r) ==
  /\ req[r].pc = "link"
  /\ LET u == req[r].user IN
       \/ /\ NameHolders(req[r].name) \subseteq {u}
          /\ Commit(r, u, [users[u] EXCEPT !.name = req[r].name, !.token = req[r].token])
       \/ /\ ~ NameHolders(req[r].name) \subseteq {u}
          /\ Reply(r, "err", NoUser)
          /\ UNCHANGED <<users, tokens, granted>>

\* Mutant: ON CONFLICT (username) DO NOTHING, and the fresh id is returned.
InsertOrNothing(r) ==
  /\ req[r].pc = "insert"
  /\ \E u \in Users \ Present :
       Commit(r, u, IF NameHolders(req[r].name) = {}
                    THEN [name |-> req[r].name, type |-> "mobile",
                          device |-> DeviceOf[r], token |-> req[r].token]
                    ELSE NoRow)

\* Mutant: the INSERT runs outside of the transaction, whose COMMIT then fails.
InsertOutside(r) ==
  /\ req[r].pc = "insert"
  /\ \E u \in NameHolders(req[r].name) :
       users' = [users EXCEPT ![u].device = DeviceOf[r], ![u].token = req[r].token]
  /\ Reply(r, "err", NoUser)
  /\ UNCHANGED <<tokens, granted>>

\* INSERT ... ON CONFLICT (username) DO UPDATE: a user of that name, whoever it is, gets the
\* device.
InsertUser(r) ==
  /\ req[r].pc = "insert"
  /\ \/ \E u \in NameHolders(req[r].name) :
          Commit(r, u, [users[u] EXCEPT !.device = DeviceOf[r], !.token = req[r].token])
     \/ /\ NameHolders(req[r].name) = {}
        /\ \E u \in Users \ Present :
             Commit(r, u, [name |-> req[r].name, type |-> "mobile",
                           device |-> DeviceOf[r], token |-> req[r].token])

\* A statement fails, or the request's context ends: the transaction is rolled back.
Fail(r) ==
  /\ req[r].pc \in {"spend"} \cup InTransaction
  /\ Reply(r, "err", NoUser)
  /\ UNCHANGED <<users, tokens, granted>>

Answered(r) == req[r].pc \in {"ok", "err"}

\* The reply leaves.
End(r) ==
  /\ Answered(r)
  /\ req' = [req EXCEPT ![r] = NoCompletion]
  /\ UNCHANGED <<users, tokens, granted>>

AllEnd ==
  /\ req' = [r \in Reqs |-> NoCompletion]
  /\ UNCHANGED <<users, tokens, granted>>

Complete(r) == SpendToken(r) \/ FindUser(r) \/ LinkUser(r) \/ InsertUser(r)

============================================================================

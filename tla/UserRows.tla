------------------------------ MODULE UserRows ------------------------------
(***************************************************************************)
(* Everybody who writes the users table: the handlers that update          *)
(* last_message_sent by reading and rewriting the sender's whole row (two  *)
(* in the sync engine, one in the web API), the trigger of the messages    *)
(* table, and web users who log in.  Composed with the enrollment          *)
(* transactions of Accounts, whose phones are left out here; UserCopies    *)
(* has the copies that phones keep of the table.                           *)
(*                                                                         *)
(* Of a row's columns, online_status, last_seen and the time stamps are    *)
(* left out; last_message_sent is the variable sent.                       *)
(***************************************************************************)
EXTENDS Accounts

CONSTANTS
  Msgs, NoMsg,            \* the messages that may be sent; also their contents
  Writers,                \* the requests that store a message, at once
  Sessions,               \* the browsers web users log in from
  WebNames, MobileNames   \* the user names browsers log in under and phones enroll under

ASSUME RowsAssumption ==
  /\ NoMsg \notin Msgs
  /\ WebNames \cup MobileNames \subseteq Names

VARIABLES
  sent,     \* users.last_message_sent
  from,     \* messages.sender_id, NoUser as long as the message is not stored
  writer,   \* each request that stores a message: [pc, msg, user, row]
  session   \* each browser: [pc, name, user]

rows == <<sent, from, writer, session>>

vars == <<accounts, rows>>

----------------------------------------------------------------------------
(* State *)

Writer == [pc : {"idle", "read", "write"}, msg : Msgs \cup {NoMsg},
           user : Users \cup {NoUser}, row : Row]

NoWriter == [pc |-> "idle", msg |-> NoMsg, user |-> NoUser, row |-> NoRow]

Session == [pc : {"out", "create", "in"}, name : Names \cup {NoName},
            user : Users \cup {NoUser}]

NoSession == [pc |-> "out", name |-> NoName, user |-> NoUser]

TypeOK ==
  /\ AccountsTypeOK
  /\ sent \in [Users -> Msgs \cup {NoMsg}]
  /\ from \in [Msgs -> Users \cup {NoUser}]
  /\ writer \in [Writers -> Writer]
  /\ session \in [Sessions -> Session]

Init ==
  /\ AccountsInit
  /\ sent = [u \in Users |-> NoMsg]
  /\ from = [m \in Msgs |-> NoUser]
  /\ writer = [w \in Writers |-> NoWriter]
  /\ session = [s \in Sessions |-> NoSession]

WriterIs(w, state) == writer' = [writer EXCEPT ![w] = state]

----------------------------------------------------------------------------
(* Storing a message: POST /api/messages of either service, and each message of a phone's
   POST /api/sync/outgoing *)

\* What ListUsers shows a user: everybody else.
Others(u) == Present \ {u}

Insert(w, u, m, last) ==
  /\ writer[w] = NoWriter
  /\ u \in Present
  /\ Others(u) # {}
  /\ from[m] = NoUser
  /\ from' = [from EXCEPT ![m] = u]
  /\ sent' = last
  /\ WriterIs(w, [NoWriter EXCEPT !.pc = "read", !.msg = m, !.user = u])
  /\ UNCHANGED <<accounts, session>>

\* Mutant: there is no trigger.
InsertOnly(w, u, m) == Insert(w, u, m, sent)

\* A user answers somebody of the list; the request begins with its INSERT, and in the same
\* transaction the trigger sets last_message_sent.
InsertMessage(w, u, m) == Insert(w, u, m, [sent EXCEPT ![u] = m])

\* GetUserByID of the sender.
ReadSender(w) ==
  /\ writer[w].pc = "read"
  /\ WriterIs(w, [writer[w] EXCEPT !.pc = "write", !.row = users[writer[w].user]])
  /\ UNCHANGED <<accounts, sent, from, session>>

\* UpdateUser: the whole row as it was read, with the new last_message_sent.  Its error, when
\* the name has been given away in between, is ignored.
UpdateUser(w) ==
  /\ writer[w].pc = "write"
  /\ LET u == writer[w].user IN
       IF NameHolders(writer[w].row.name) \subseteq {u}
       THEN /\ users' = [users EXCEPT ![u] = writer[w].row]
            /\ sent' = [sent EXCEPT ![u] = writer[w].msg]
       ELSE UNCHANGED <<users, sent>>
  /\ WriterIs(w, NoWriter)
  /\ UNCHANGED <<tokens, granted, req, from, session>>

\* Mutant: after an error the request hangs.
Hang(w) ==
  /\ "db" \in Faults
  /\ writer[w].pc # "idle"
  /\ WriterIs(w, [writer[w] EXCEPT !.pc = "failed"])
  /\ UNCHANGED <<accounts, sent, from, session>>

\* The process dies, the client goes away or a statement fails: the rest is not done.
Abandon(w) ==
  /\ "db" \in Faults
  /\ writer[w].pc # "idle"
  /\ WriterIs(w, NoWriter)
  /\ UNCHANGED <<accounts, sent, from, session>>

----------------------------------------------------------------------------
(* POST /api/auth/login of the web API, which makes unknown users, and of the sync engine *)

Becomes(s, state) ==
  /\ session' = [session EXCEPT ![s] = state]
  /\ UNCHANGED <<tokens, granted, req, from, writer>>

LogInAs(s, n, u) == Becomes(s, [pc |-> "in", name |-> n, user |-> u])

\* GetUserByUsername.  Of a name nobody has the web API makes a user, the engine a 401; any
\* error of the query that does not speak of a connection it takes for a name nobody has.
LogIn(s, n) ==
  /\ session[s] = NoSession
  /\ n \in WebNames
  /\ \/ \E u \in NameHolders(n) : LogInAs(s, n, u)
     \/ /\ NameHolders(n) = {} \/ "db" \in Faults
        /\ Becomes(s, [NoSession EXCEPT !.pc = "create", !.name = n])
  /\ UNCHANGED <<users, sent>>

WebUser(n) == [NoRow EXCEPT !.name = n, !.type = "web"]

\* Mutant: ON CONFLICT (username) DO NOTHING, and nobody notices that no id comes back.
CreateOrNothing(s) ==
  /\ session[s].pc = "create"
  /\ \/ /\ NameHolders(session[s].name) # {}
        /\ LogInAs(s, session[s].name, NoUser) /\ UNCHANGED users
     \/ /\ NameHolders(session[s].name) = {}
        /\ \E u \in Users \ Present :
             /\ LogInAs(s, session[s].name, u)
             /\ users' = [users EXCEPT ![u] = WebUser(session[s].name)]
  /\ UNCHANGED sent

\* CreateUser: another log-in or an enrollment may have made the user in the meantime.
CreateUser(s) ==
  /\ session[s].pc = "create"
  /\ \/ \E u \in NameHolders(session[s].name) :
          LogInAs(s, session[s].name, u) /\ UNCHANGED users
     \/ /\ NameHolders(session[s].name) = {}
        /\ \E u \in Users \ Present :
             /\ LogInAs(s, session[s].name, u)
             /\ users' = [users EXCEPT ![u] = WebUser(session[s].name)]
     \/ "db" \in Faults /\ Becomes(s, NoSession) /\ UNCHANGED users
  /\ UNCHANGED sent

----------------------------------------------------------------------------

\* Enrollments, with replies that all arrive: who hears them makes no difference here.
Enroll ==
  /\ \/ \E t \in Tokens : CreateEnrollment(t)
     \/ \E r \in Reqs, t \in Tokens, n \in MobileNames : Start(r, t, n)
     \/ \E r \in Reqs : Complete(r) \/ End(r) \/ ("db" \in Faults /\ Fail(r))
  /\ UNCHANGED rows

Next ==
  \/ Enroll
  \/ \E w \in Writers : ReadSender(w) \/ UpdateUser(w) \/ Abandon(w)
  \/ \E w \in Writers, u \in Users, m \in Msgs : InsertMessage(w, u, m)
  \/ \E s \in Sessions : CreateUser(s)
  \/ \E s \in Sessions, n \in WebNames : LogIn(s, n)

Spec == Init /\ [][Next]_vars

----------------------------------------------------------------------------
(* Properties *)

\* LinksGranted: a device or a token on a row got there by an enrollment for this very user,
\* although handlers write back rows they read before other enrollments (UpdateUser rewrites
\* device_id and enrollment_token_id along with the rest).
LinksGranted ==
  \A u \in Users :
    /\ users[u].device # NoDevice =>
         \E t \in Tokens : granted[t] = u /\ tokens[t].device = users[u].device
    /\ users[u].token # NoToken => granted[users[u].token] = u

\* LastSentIsOwn: from its first stored message on, a user's last_message_sent is a stored
\* message of that very user, even when requests overlap and some stop before they have
\* rewritten the row (sync.go:91, :101): the trigger is part of the INSERT.
LastSentIsOwn ==
  \A u \in Users :
    /\ sent[u] # NoMsg => from[sent[u]] = u
    /\ sent[u] = NoMsg => \A m \in Msgs : from[m] # u

\* SessionsAgree: two log-ins under one name are one user, even when neither found the name
\* and both made it (auth.go:35, :52), unless phones enroll under that name too.
SessionsAgree ==
  \A s, k \in Sessions :
    /\ session[s].pc = "in" /\ session[k].pc = "in"
    /\ session[s].name = session[k].name
    /\ session[s].name \notin MobileNames
    => session[s].user = session[k].user

\* OnlySentChanges: "Update sender's last_message_sent" (sync.go:100): storing a message
\* changes no other column of a user that this model has.
OnlySentChanges == [][(\E w \in Writers : UpdateUser(w)) => UNCHANGED users]_vars

\* EnrollmentsWait: what a lock on the sender's row from GetUserByID to UpdateUser would do to
\* enrollments (the code takes none): none commits a change to a row somebody is about to
\* write back.  Other writers and log-ins are as free as before.
EnrollmentsWait ==
  [][Enroll => \A w \in Writers : writer[w].pc = "write" =>
                 users'[writer[w].user] = users[writer[w].user]]_vars

============================================================================

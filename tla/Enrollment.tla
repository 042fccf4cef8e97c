----------------------------- MODULE Enrollment -----------------------------
(***************************************************************************)
(* Enrollment from the scanned QR code to the phone's preferences: the     *)
(* scanner and user name screens of the app, composed with the tables and  *)
(* the endpoints of Accounts.                                              *)
(*                                                                         *)
(* The app's own HTTP client has no timeout here.  When the app dies its   *)
(* POST goes on at the engine, until the engine notices.                   *)
(***************************************************************************)
EXTENDS Accounts

CONSTANTS
  Phones,
  DeviceId,  \* what DeviceService.getDeviceId answers on each phone
  PhoneOf,   \* the phone each completion is sent from
  NoReq

ASSUME PhonesAssumption ==
  /\ DeviceId \in [Phones -> Devices]
  /\ PhoneOf \in [Reqs -> Phones]
  /\ \A r \in Reqs : DeviceOf[r] = DeviceId[PhoneOf[r]]
  /\ NoReq \notin Reqs

VARIABLE
  phone  \* each phone: [screen, token, run, got, user]; user is the stored user_id

vars == <<accounts, phone>>

----------------------------------------------------------------------------
(* State *)

Phone ==
  [screen : {"scanner", "names", "waiting", "saving", "home"},
   token : Tokens \cup {NoToken},
   run : Reqs \cup {NoReq},      \* the POST the app is listening to
   got : Users \cup {NoUser},    \* user_id of the reply, before it is stored
   user : Users \cup {NoUser}]   \* user_id in the preferences

\* The app after a start, with this user_id in its preferences.
Started(u) ==
  [screen |-> IF u = NoUser THEN "scanner" ELSE "home", token |-> NoToken,
   run |-> NoReq, got |-> NoUser, user |-> u]

TypeOK == AccountsTypeOK /\ phone \in [Phones -> Phone]

Init == AccountsInit /\ phone = [p \in Phones |-> Started(NoUser)]

Becomes(p, state) == phone' = [phone EXCEPT ![p] = state]

Show(p, screen) == Becomes(p, [phone[p] EXCEPT !.screen = screen, !.run = NoReq])

----------------------------------------------------------------------------
(* The app *)

\* _handleQRCode.  Only a token that GET /api/enrollment/{token} calls valid leads on; the
\* request changes nothing, so that it is part of this step, and an error of it is none.
ScanToken(p, t) ==
  /\ phone[p].screen = "scanner"
  /\ tokens[t].made
  /\ Valid(t)
  /\ Becomes(p, [phone[p] EXCEPT !.screen = "names", !.token = t])
  /\ UNCHANGED accounts

\* _selectUsername.
SelectUsername(p, r, n) ==
  /\ phone[p].screen = "names"
  /\ PhoneOf[r] = p
  /\ Start(r, phone[p].token, n)
  /\ Becomes(p, [phone[p] EXCEPT !.screen = "waiting", !.run = r])

\* Mutant: an error reply leads to a screen the app does not have.
ShowError(p) ==
  /\ phone[p].run # NoReq
  /\ End(phone[p].run)
  /\ IF req[phone[p].run].pc = "ok"
     THEN Becomes(p, [phone[p] EXCEPT !.screen = "saving", !.run = NoReq,
                                      !.got = req[phone[p].run].user])
     ELSE Show(p, "error")

\* Mutant: only a reply of 200 is looked at.
AwaitSuccess(p) ==
  /\ phone[p].run # NoReq
  /\ req[phone[p].run].pc = "ok"
  /\ End(phone[p].run)
  /\ Becomes(p, [phone[p] EXCEPT !.screen = "saving", !.run = NoReq,
                                 !.got = req[phone[p].run].user])

\* After an error the app stays on the user name screen, with the same token.
Receive(p) ==
  /\ phone[p].run # NoReq
  /\ End(phone[p].run)
  /\ \/ /\ req[phone[p].run].pc = "ok"
        /\ Becomes(p, [phone[p] EXCEPT !.screen = "saving", !.run = NoReq,
                                       !.got = req[phone[p].run].user])
     \/ req[phone[p].run].pc # "ok" /\ Show(p, "names")

\* The connection breaks, or the app waits for ever.
ReplyLost(p) ==
  /\ "lost" \in Faults
  /\ phone[p].run # NoReq
  /\ End(phone[p].run)
  /\ Show(p, "names") \/ Show(p, "waiting")

\* completeEnrollment stores user_id; from then on the app is enrolled.
Save(p) ==
  /\ phone[p].screen = "saving"
  /\ Becomes(p, Started(phone[p].got))
  /\ UNCHANGED accounts

AppRestart(p) ==
  /\ "appcrash" \in Faults
  /\ Becomes(p, Started(phone[p].user))
  /\ UNCHANGED accounts

\* The app is installed anew, or clears its preferences: in debug mode at a start, or because
\* they name a host called localhost, at a start and at each redirect of the router, where a
\* screen of the enrolled app may stay (a chat does).  The device_id will be the same again.
ClearEnrollmentData(p) ==
  /\ "wiped" \in Faults
  /\ \/ Becomes(p, Started(NoUser))
     \/ phone[p].screen = "home" /\ Becomes(p, [phone[p] EXCEPT !.user = NoUser])
  /\ UNCHANGED accounts

----------------------------------------------------------------------------
(* The engine, seen from the phones *)

Listening(r) == phone[PhoneOf[r]].run = r

FailOrCancel(r) ==
  /\ "db" \in Faults \/ ~ Listening(r)
  /\ Fail(r)
  /\ UNCHANGED phone

\* A reply nobody waits for.
Drop(r) ==
  /\ ~ Listening(r)
  /\ End(r)
  /\ UNCHANGED phone

EngineRestart ==
  /\ "restart" \in Faults
  /\ AllEnd
  /\ phone' = [p \in Phones |->
                 IF phone[p].run = NoReq THEN phone[p]
                 ELSE [phone[p] EXCEPT !.screen = "names", !.run = NoReq]]

Engine(r) == Complete(r) /\ UNCHANGED phone

App(p) ==
  \/ Receive(p) \/ ReplyLost(p) \/ Save(p)
  \/ AppRestart(p) \/ ClearEnrollmentData(p)
  \/ \E t \in Tokens : ScanToken(p, t)
  \/ \E r \in Reqs, n \in Names : SelectUsername(p, r, n)

Next ==
  \/ \E t \in Tokens : (CreateEnrollment(t) \/ Expire(t)) /\ UNCHANGED phone
  \/ \E p \in Phones : App(p)
  \/ \E r \in Reqs : Engine(r) \/ FailOrCancel(r) \/ Drop(r)
  \/ EngineRestart

Spec == Init /\ [][Next]_vars

\* Handlers run, PostgreSQL serves those that wait for a row in turn, and replies are read.
FairSpec ==
  /\ Spec
  /\ \A r \in Reqs : WF_vars(Engine(r)) /\ SF_vars(SpendToken(r) /\ UNCHANGED phone)
  /\ \A p \in Phones : WF_vars(Receive(p))

----------------------------------------------------------------------------
(* Properties *)

Contract == INSTANCE EnrollmentContract WITH
  grant <- [t \in Tokens |-> [device |-> tokens[t].device, user |-> granted[t]]],
  known <- [p \in Phones |-> phone[p].user]

\* ImplementsContract: whatever fails, a token makes one device one user, once and for all,
\* and a phone takes itself for a user only if a token made its device that user (two phones
\* complete one token at once; replies get lost; the app dies before it has stored user_id).
ImplementsContract == Contract!Spec

\* GrantKept: a user leaves the device it was granted to only for a device it was granted to
\* as well: by another enrollment under its name, even one that came between the look-up of
\* the first one's row and its UPDATE by id, which then leaves the device without a user.
GrantKept ==
  \A t \in Tokens : Used(t) =>
    \/ users[granted[t]].device = tokens[t].device
    \/ \E k \in Tokens : /\ Used(k)
                         /\ granted[k] = granted[t]
                         /\ tokens[k].device = users[granted[t]].device

\* OneRowPerDevice: device_id is not unique in the table, but as long as the completions of a
\* device come one after the other they never leave it on two rows, whatever the completions
\* of other devices do to these rows in the meantime.
OneRowPerDevice ==
  \A u, v \in Users : users[u].device = users[v].device /\ users[u].device # NoDevice => u = v

\* RequestEnds: a POST the app listens to is answered, or its connection is lost: two
\* transactions on one token do not wait for each other for ever.
RequestEnds == \A p \in Phones : phone[p].run # NoReq ~> phone[p].run = NoReq

============================================================================

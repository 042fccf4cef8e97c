# Formal model of posduif

posduif lets web users and people on phones exchange messages through a backend: a Go
*sync engine* over PostgreSQL, a Go *web API* over the same database, a Flutter app that
keeps its own SQLite (drift) database and works offline, and a Flutter web client. This
directory holds TLA+ models of the parts that carry the messages, TLC runs on small
instances, and TLAPS proofs. All paths below are relative to the repository (`src/` here).

## 1. Inventory

### Phone (src/mobile)

| part | state | operations |
|---|---|---|
| `SyncService` (`core/sync/sync_service.dart`) | none of its own; local variables of each running `performSync` | pull, store, upload, acknowledge |
| `AppDatabase` (`core/database/database.dart`) | tables Messages (status `pending_sync` / `synced`) and Users | insert or replace, update status, list pending |
| `APIClient` (`core/api/api_client.dart`) | base URL and device id, loaded without being awaited | GET incoming, POST outgoing, 30 s timeouts |
| enrollment (`core/enrollment`, `features/enrollment`, `features/auth`, `main.dart`) | SharedPreferences: device_id, api_base_url, tenant_id, user_id, username | scan, validate, complete, check at start |
| chat and conversation screens | none that matters | send, sync button |

### Sync engine (src/sync-engine)

| part | state | operations |
|---|---|---|
| message and sync handlers (`internal/api/handlers`) | none between requests | list, create, mark as read; incoming, outgoing, status |
| `Manager` (`internal/sync/manager.go`) | the mode, polling or WAL | select pending and mark them; or read the tracker |
| `ChangeTracker` (`internal/sync/change_tracker.go`) | a queue of changes per device, in memory, under a lock | add, get above an LSN, clear up to an LSN |
| `WALService`, `WALReader` | running flag, ticker | a placeholder that reads nothing |
| database (`internal/database`) | users, messages, enrollment_tokens, sync_metadata | one statement or one transaction each |
| enrollment service | the tokens | create, validate, complete |
| SSE handlers, Redis publisher | per connection; a stream nobody reads | not registered in `main.go`; fire and forget |

### Web API and web client (src/web-api, src/web)

Login by user name, listing users, sending, listing and marking messages as read, on the
same tables. No state besides the database.

### How they interact, and what is hard

The phone calls the engine over HTTP. The two databases are joined only by
`GET /api/sync/incoming` and `POST /api/sync/outgoing`, and neither request is atomic: the
engine marks messages one by one *before* it replies, inserts uploads one by one, and goes on
after the client has stopped listening; the phone stores the reply row by row and acknowledges
row by row. `performSync` is started by the send button and the sync button without being
awaited and takes no lock, so syncs of one phone overlap. Requests and replies get lost, the
app and the engine die, and the client times out after 30 s. In WAL mode two more pieces of
state must agree, a queue in memory and an LSN in a row, read and written by concurrent
requests. Enrollment changes which user a device is, and user rows are rewritten whole by
several handlers.

What makes each part correct:

* **Message sync**: nothing marked as synced is missing on the phone; nothing acknowledged is
  missing on the backend; a delivered message is not queued again; messages stay where they
  belong; every sync ends; pulls drain the backlog although they are cut at a limit; replies
  arrive.
* **WAL mode**: no change is skipped however requests overlap; nothing is left below the row's
  LSN; a phone that goes on pulling gets everything.
* **Enrollment**: a token makes one device one user, once and for all; a phone takes itself
  for a user only if its device was made that user; a user leaves a device only for another
  one it was granted; a device is on one row; nobody waits for ever for a token's row lock.
* **User rows**: a device or a token on a row was granted to that user, however stale the row
  that was written back; `last_message_sent` is a message of that user; two log-ins under one
  name are one user. An enrollment should not be undone by a stale rewrite either, but it is
  (`rows_undone`), and a phone's copy of a row should not be replaced by an older one, but it is
  (`rows_copies`).

`PROJECT.json` lists every component, modelled or not, and every hazard at its line.

## 2. Modules

| module | role |
|---|---|
| `StoreAndForward` | abstract contract: where each message is, and which ones their authors stopped uploading |
| `MessageSync` | polling mode in detail: phone, handlers, `messages` table, network, crashes |
| `MCMessageSync` | small instances of `MessageSync` |
| `MessageSyncProofs` | theorems about `MessageSync`, among them that it implements `StoreAndForward` |
| `SettleProofs` | what is true of a phone at rest, and of the number of its acknowledgements |
| `ProgressProofs` | that no part of a sync repeats what it has done |
| `ChangeFeed` | abstract contract: the log, what was settled for each device, what reached it |
| `WalSync` | WAL mode: tracker queues, `sync_metadata`, pull and status requests |
| `MCWalSync` | small instances of `WalSync` |
| `WalSyncProofs` | theorems about `WalSync` |
| `FeedProofs` | that `WalSync` implements `ChangeFeed` |
| `Accounts` | the tables `users` and `enrollment_tokens`, and the engine's enrollment endpoints; extended by the next two |
| `Enrollment` | `Accounts` with the phones: scanner, user name screen, preferences, restarts |
| `EnrollmentContract` | abstract contract: what each token was used for, and who each phone is for itself |
| `UserRows` | `Accounts` with the other writers of `users`: message handlers, trigger, log-ins |
| `UserCopies` | the copies of `users` that phones keep, by their `updated_at` |
| `MCEnrollment`, `MCUserRows`, `MCUserCopies` | small instances |
| `AccountsProofs`, `EnrollmentProofs`, `UserRowsProofs` | theorems about `Accounts`, `Enrollment` and `UserRows`, the first holding their common lemmas |

### MessageSync

| variable | in the code |
|---|---|
| `srv` | `messages.status` in PostgreSQL (`absent` when there is no row) |
| `local` | `Messages.status` in each phone's drift database |
| `rowid` | the order in which SQLite returns a phone's own rows |
| `cl` | where each running `performSync` stands, with the list it works on |
| `inq` | its pull: in the network, in the marking loop, answered, failed |
| `out` | its upload: in the network, in the insert loop with `synced_count`, answered, failed |

Each database statement is one step, because each is its own transaction. The client half and
the two request slots of a run move independently, since a handler does not notice that its
client gave up (except through its context: `PullFails`, `PushCancelled`). The failures are
the members of `Faults`, one name per kind, so that each run says exactly what may go wrong:
no connectivity, lost requests and replies, slow replies, failing statements of the pull,
failing INSERTs, errors of the phone's own database, app crashes, engine restarts. An error on
the phone (`PhoneDbFails`) goes to the one catch around each half of a sync: what is left of a
reply is dropped, the upload is given up, or what is left of a count is not marked. `ZonedTimestamps` says whether uploaded time
stamps carry a zone: TRUE is the protocol of the API documents and the Go tests, FALSE is what
the shipped Dart client sends.

Message content, users' rows, and the compressed flag are left out; created_at is kept because
it orders the pull, and message identity because the upload depends on it.

### StoreAndForward and the refinement

`StoreAndForward` knows only the places that hold a message (its author's phone, the backend,
its addressee's phone) and the messages acknowledged. `MessageSync` implements it under
`heldAt` and `ackedOnPhone`, which read the places off the two databases: a message enters the
backend only from its author, reaches a phone only from the backend, is never removed, and is
acknowledged only once the backend has it. With nothing failing the contract's liveness (each
reply is uploaded) holds too; with faults only the safety part is claimed. When INSERTs fail,
acknowledgements are no longer to be trusted, and what is left is `CustodySpec`: where messages
are, without `acked`.

### WalSync

| variable | in the code |
|---|---|
| `wal` | external: each write to `messages` not yet made, committed, or read from the log |
| `changes` | `ChangeTracker.changes` |
| `meta` | existence and `last_synced_lsn` of each device's `sync_metadata` row |
| `req` | each pull or status request: its place, the LSN it read, the answer it settled on |
| `held` | the changes that reached the phone |

Reading the row (`LookUp`), filtering under the lock (`Filter`), writing the row (`WriteMeta`)
and clearing the queue (`ClearChangesForDevice`) are separate steps, as nothing holds a lock
across them. `GetSyncStatus` and `WriteDefault` are the other writer of the row, which takes
every error for a missing row. An LSN is written as two words of base `Word` (2^32 in the
code), so the cut and the parse are computed, not assumed. The log is external: changes are
handed over in the order of their commits and carry the commit's LSN. The reader that would do
so does not exist; `Feed` = FALSE is the shipped placeholder. A statement that reports an error
is taken to have had no effect; the other outcome is a listed hazard.

`ChangeFeed` has no queues, rows or requests: a log that is read from the front, for each device
the changes settled for it, which are always a front of its part of the log, and the changes
that reached it. `WalSync` implements it with `handed`, the changes that are on the phone or in
an answer that will reach it, in the place of `settled`. `WriteMeta`, which
stores the last LSN of an answer, is where a pull settles it; a request that comes with an older
answer settles nothing and is a stutter.

### Accounts

| variable | in the code |
|---|---|
| `users` | `username`, `user_type`, `device_id`, `enrollment_token_id` of each row |
| `tokens` | each row of `enrollment_tokens`: made, expired, `device_id` (set together with `used_at`) |
| `granted` | history: the user each token was used for, which no table keeps |
| `req` | each `POST /api/enrollment/complete`: its place in the transaction, token, name, the user found |

`CompleteEnrollment` is a READ COMMITTED transaction of four statements. The conditional
UPDATE of the token (`SpendToken`) takes the row lock and looks at the row again after having
waited for it; `expires_at > NOW()` compares with the *start* of the transaction, kept in
`fresh`. The look-up by `device_id` (`FindUser`) locks nothing. The last statement is either
an UPDATE by id (`LinkUser`), which may meet the UNIQUE user name, or the INSERT with
ON CONFLICT (`InsertUser`), which gives the device to whoever has the name; it is one step with
the COMMIT, because it sees the latest rows and locks what it writes. An effect on the token is
written at the COMMIT, since nobody else can see it before; a COMMIT may take effect and still
report an error.

### Enrollment and EnrollmentContract

| variable | in the code |
|---|---|
| `phone.screen` | scanner, user name screen (`names`), waiting for the reply, storing it (`saving`), `home` |
| `phone.token` | the token handed from the scanner to the user name screen |
| `phone.run` | the POST whose reply the app awaits |
| `phone.got` | `user_id` of the reply, before it is stored |
| `phone.user` | `user_id` in the preferences |

The four preferences of an enrollment are one step (`Save`): `_checkEnrollment` takes an app
for enrolled only if `user_id` is there, and `device_id` and `api_base_url` were stored before.
The look at the token by `GET /api/enrollment/{token}` changes nothing and is a part of
`ScanToken`. When the app dies its POST goes on until its context ends (`FailOrCancel`). Losing
the preferences (`ClearEnrollmentData`) stands for a new installation, for debug mode, and for
the clearing of URLs that name localhost, which the engine's own QR codes do. The last happens at
a start and at each redirect of the router (`main.dart:108`): the conversation list then goes to
the scanner, but a chat opened on top of it stays, which is the second half of the action.

`EnrollmentContract` has a grant per token and the user each phone takes itself for, and three
actions: `Grant` a fresh token, `Learn` who one is from a grant to one's device, `Forget`.
`Enrollment` implements it, reading grants off `tokens` and `granted` and what phones know off
their preferences.

### UserRows

| variable | in the code |
|---|---|
| `sent` | `users.last_message_sent` (a message stands for its content) |
| `from` | `messages.sender_id` |
| `writer` | each request that stores a message: the row it read and has still to write back |
| `session` | each browser: looking up, creating, logged in as a user |

Three handlers store a message and then read and rewrite the sender's row, without a
transaction; they are one set of actions (`InsertMessage`, `ReadSender`, `UpdateUser`,
`Abandon`), since a web user's request and one turn of the upload loop do the same. Between the
read and the write there may be another of them, an enrollment or a log-in. Enrollments are
those of `Accounts`, with replies that arrive and tokens that do not expire: the phones are
in `Enrollment`, and an expired token changes no row. A log-in that finds no user goes on to make
one; the web API takes most errors of the look-up for that too, so `LogIn` does under `db`.

### UserCopies

| variable | in the code |
|---|---|
| `now` | the time of the last write of any row |
| `row` | `users.updated_at` of each row on the backend, which the trigger sets on every UPDATE |
| `copy` | `Users.updatedAt` of the rows each phone has |
| `pull` | the users part of each reply of `GET /api/sync/incoming`, until it is stored or lost |

This is the users half of a pull. It is apart from `UserRows` because its question is which of
two versions of a row is the newer, whatever they say: a row is its time stamp, every write has
its own, and all clocks agree, which is the best case for a rule that compares stamps. The
phone's own row is also written by `_sendMessage` (`SetOwnCopy`).

## 3. Runs

| run | question | result |
|---|---|---|
| `sync_reliable` | nothing fails, two overlapping syncs: is anything lost, starved or left behind? | holds: `SyncedIsHeld`, `PullDrains`, `RepliesArrive`, the full contract |
| `sync_faulty` | no connectivity, losses, failing statements on either side, crashes, restarts: what survives? | holds: `AckedIsStored`, `NoStrays`, `NeverRequeued`, `SyncAdvances`, `SyncEnds`, the contract's safety |
| `sync_lost_reply` | does a lost pull reply leave its messages pending, as the specs say? | no: they stay `synced` and undelivered |
| `sync_unzoned` | do the shipped client's uploads arrive? | no: the decoder refuses time stamps without a zone |
| `sync_overlap` | does a stored reply become `synced` on its phone? | not if two syncs upload it: the duplicate counts as failed |
| `wal_feed` | with a feed, do overlapping requests skip a change, and do pulls drain the queue? | holds: `NoGap`, `PullsDrain`, and `ImplementsFeed`: together they are an in-order feed per phone |
| `wal_faults` | with lost replies and restarts too, can a change be stuck below the row's LSN? | holds: `NothingHidden` |
| `wal_shipped` | does WAL mode work "with polling fallback"? | no: nothing reaches a phone |
| `enroll` | two phones scan any of two tokens; statements and replies fail, apps and the engine restart: what of a grant survives? | holds: `ImplementsContract`, `GrantKept`, `OneRowPerDevice`, `RequestEnds` |
| `rows` | message handlers, enrollments of two phones and log-ins overlap: what remains true of a user's row? | holds: `LinksGranted`, `LastSentIsOwn`, `SessionsAgree` |
| `rows_undone` | does storing a message change `last_message_sent` only? | no: it takes an enrollment's device and token off the row |
| `rows_copies` | does the last write win on a phone, "(compares `updated_at` timestamps)"? | no: the last reply stored does |

The six violations are disagreements between the code and its documents or comments; each is
a finding in `PROJECT.json` with both places quoted.

### Bounds

* **Two runs (`r1`, `r2`) on one phone.** Overlap is the hazard; two are the least that
  overlap, and each is reused as often as the behaviour wants. The second phone, `q`, stays
  away and shows that nothing leaks to it. The proofs are for any number of either.
* **Messages.** Two replies from the phone (one uploaded by both runs, one more that the
  shifted `take` can miss) and two messages to it, of which `Limit` = 1 leaves one behind. The
  time stamps disagree with the order of writing, as clocks on several machines may.
  `sync_faulty` has one incoming message less to stay small.
* **`slow`** (no reply within 30 s) is not in the fault sets of the runs, whose state spaces it
  would triple. A handler at work whose client is gone already arises there from app crashes,
  a timeout from lost replies; the two together, a client that gives up and goes on while its
  handler is at work, is left to the theorems, which cover every subset of the faults unless
  they say otherwise.
* **WAL.** Three or four changes, `Limit` = 1, two requests, `Word` = 3 with LSNs on both
  sides of a carry (1, 2 | 3, 5). Two requests one or two answers apart are the least that can
  move the row backwards.
* **Enrollment.** Two phones with a request each, two tokens, two names and two user rows: the
  least with which a token is contested, a name is taken, a phone enrolls again under another
  name, and a user moves from one device to the other while a transaction holds its id. A
  phone's two requests in a row, an abandoned one and its successor, share a slot and so come
  one after the other (the premise of `OneRowPerDevice`, `OneAtATime` in the proofs).
* **User rows.** Two writers, so that one reads before and writes after the other; two tokens,
  so that an enrollment follows one whose row is still held; two browsers under one new name;
  three users, one of them a web user whose name a phone may enroll under; two phones, so that a
  user and a name move between devices. No definition or constant tells the tokens,
  the messages, the writers, the browsers or the two user ids not yet given out apart, so that the
  run, whose properties are all invariants, uses that symmetry (`Alike`); `rows_undone` needs one of each and two users.
* **Copies.** Two pulls, since a late reply needs an earlier one to overtake it, and two writes
  (`MaxTime`), the least that make a copy older than another.

### Fairness

`FairSpec` of `MessageSync` is weak fairness of each run's client steps, of its pull handler
and of its upload handler: the phone's event loop and the engine's goroutines run whenever they
can, and a client always has an answer, an error or its timeout to go on with. `FairSpec` of
`WalSync` is weak fairness of the reader's ticker and of each handler. `FairSpec` of
`Enrollment` is weak fairness of each request's handler and of the app's reading of a reply,
and strong fairness of the UPDATE of a token: PostgreSQL hands a row lock to those who wait for
it in turn, so that a request does not wait for ever while others come and go. `UserRows` and
`UserCopies` have safety properties only and no fairness. Users owe nothing: nobody is made to
write, to press the sync button or to pull, and `PullsDrain`, which needs it, has it as a premise.
Failures are never fair.

## 4. Proofs

Assumptions are those the modules name (`PartiesAssumption`, `SyncAssumption`;
`ChangesAssumption`, `LsnAssumption`, `PullAssumption`; `AccountsAssumption`,
`PhonesAssumption`, `RowsAssumption`): any finite set of messages or changes, any users,
devices, runs, limit and word width, any tokens, names and requests, and phones that may even
share a `device_id`. TLC evaluates them in every run.

`MessageSyncProofs`:

* `TypeCorrect`. The other proofs rest on it.
* `NoStraysHold`, under every failure, from the inductive `PlaceInv`: a message on a phone is
  its own or on the backend. `NoStrays` alone is not inductive, because it says nothing of what
  is on its way: `PullsAddressed` and `PushesOwn` say it of the pulls' batches and of the
  uploads' snapshots, `SenderKeeps` that phones keep what they uploaded.
* `NeverRequeuedHolds`, an action property, under every failure.
* `AckedIsStoredHolds`, unless an INSERT fails for a passing reason, from `AckInv`. The point is
  `UploadCovers`: while a client waits, each message of its snapshot is on the backend or still
  ahead of the handler, so a `synced_count` can only reach messages that are stored, even when
  another run uploaded them.
* `SyncedIsHeldHolds`, when at worst the phone is offline or an INSERT fails, from `HeldInv`:
  a handler holds a pull exactly as long as its client waits for it (`PullsAttended`).
* `ImplementsContractHolds`: the refinement of `StoreAndForward`'s safety part, unless an
  INSERT fails. Each action is matched with a contract step or a stutter, using the three
  invariants.
* `ImplementsCustodyHolds`: under every failure, `MessageSync` implements `CustodySpec`, from
  `PlaceInv` and the lemma that an acknowledgement moves no copy. `CustodyKeepsChain` shows what
  that contract amounts to, and `ChainHolds` carries it over: a message on the addressee's phone
  is on the backend, one on the backend is still on its author's phone, and no copy disappears.

`SettleProofs`, on what the documents promise once no sync is going on, which the runs
`sync_overlap` and `sync_lost_reply` refute in general, and on the numbers of acknowledgements:

* `RepliesSettleHolds`: with one sync at a time on each phone (`OneSync`, which the code does not
  enforce) and at worst no connectivity or a failing pull, every reply on the backend counts as
  synced on its phone. From `SettleInv`: an upload carries nothing the backend already has, so
  the handler counts everything (`CountsAll`), and `take(n)` of an n-element snapshot is all of
  it (lemma `TakenAll`). That the premise is needed is what `sync_overlap` shows.
* `DeliveredWhenQuietHolds`: when at worst the phone is offline or an INSERT fails, and for any
  overlap, what the backend calls synced is on the phone. It follows from `HeldInv`.
* `NeverOverackedHolds`, under every failure: a phone never acknowledges more replies than the
  backend has of it, although after a failed INSERT they may be the wrong ones. Numbers alone are
  not inductive, because the counts of several runs add up; `CountInv` says that there are
  disjoint sets of stored messages, one for each run to back its count (`credit`) and one for
  each phone to back its acknowledgements (`spent`). An INSERT that works earns the run a credit
  (`CreditEarned`), an acknowledgement spends one (`CreditSpent`), and `take(n)` takes at most n
  (lemma `TakenFew`), because a phone's rows have distinct `rowid`s (`RowsOrdered`).

`ProgressProofs`, under every failure:

* `SyncAdvancesHolds`, an action property, from `WorkInv` (nobody goes through an empty list, and a
  slot that is not in use is clean): each step takes the client, the pull or the upload of a run to
  a later stage or leaves it with less to do, and a request is sent in one place only.

`WalSyncProofs`:

* `TextRoundTrip`: an LSN cut into two words and put together is the same LSN, for any word
  width; and `TypeCorrect`, which needs it.
* `NothingHiddenHolds`, under every failure, from `QueueInv`: the log is read from the front
  (`ReadInOrder`), and each LSN in a row or in a request is one that has been passed
  (`LsnsPassed`), so what is read later lies above it.
* `NoGapHolds`, unless replies get lost or the engine restarts, from `GapInv`. An LSN that a
  request holds may be stale; what makes it harmless is that everything at or below it has been
  handed out (`LookedUpCovers`), and that an answer leaves out nothing below its end
  (`BatchCovers`, from the lemma `TakenCovers` on the limit). `HandedKept` says that this never
  stops being so.

`FeedProofs`:

* `AddressedHolds`, under every failure: queues, answers and phones hold only changes that were
  read from the log and are meant for that phone.
* `ImplementsFeedHolds`: `WalSync` implements `ChangeFeed`, unless replies get lost or the engine
  restarts. Each `WriteMeta` settles up to its last change or changes nothing, because what was
  handed out is a front of the log (`HandedInOrder`) and `GapInv` leaves no hole below it.

`AccountsProofs` shows once what every step of `Accounts` keeps: `Sound` (types; a request at
work has a token and a name; a token is used exactly if it was used for somebody; `HeldUnused`:
one transaction at most holds a token, and that token is unused), and that grants stay.

`EnrollmentProofs`, under every failure:

* `TypeCorrect`, with `Sound` and with `Scanned` on what the screens imply.
* `GrantKeptHolds`, from `Placed`: a device on a row was granted to that row's user, a granted
  user keeps some device, and a row that is about to be linked by its id has one, although it
  may have become another one. `GrantKept` alone does not say the last.
* `OneRowPerDeviceHolds`, assuming `OneAtATime` (each device has one request slot), from
  `Single`: while a transaction is about to insert a user for its device, no other row gets
  that device, because the others write theirs only.
* `ImplementsContractHolds`, from `Promised`: what a reply says, what an app is about to store
  and what it has stored was granted to its device. `HeldUnused` makes each COMMIT a `Grant`.
  `ContractKeepsGrants` shows what the contract amounts to, and `TrueToGrantsHolds` carries it
  over: a phone takes itself only for a user that a token made its device, and what a token was
  used for never changes.

`UserRowsProofs`:

* `TypeCorrect`, and `LastSentIsOwnHolds`, from `Busy`: a request at work has stored its
  message for its user.
* `LinksGrantedHolds`, from `Linked`: the rows that handlers still hold were linked by grants
  too, and grants are never taken back.
* `SessionsAgreeHolds`, from `NamesInv`: names are unique, users change their names only
  between names that phones enroll under (`Fit`), and a row that is still held differs from the
  one in the table in no other way, so writing it back renames nobody else.
* `OnlySentChangesHolds`, under the premise `EnrollmentsWait`: no enrollment commits a change to a
  row that somebody has read and has still to write back, as a lock on the row from `GetUserByID`
  to `UpdateUser` would have it. Enrollments elsewhere and before, log-ins and other writers go
  on. Then the rewrites change nothing but `last_message_sent`, because a row that is held is as
  fresh as the table's (`RowsFresh`). So that one overlap is all that `rows_undone` sees undone.

Only model-checked: the liveness properties (`RepliesArrive`, `PullDrains`, `SyncEnds`,
`PullsDrain`, `RequestEnds`, and the liveness of `ImplementsContract`), because the prover does not
reason about fairness and ENABLED. What the violation runs refute is proved only under the premises named
above. Proved but in no run: `NeverOveracked` and `ImplementsCustody`, whose point are failing
INSERTs beside every other failure, too large a state space for its worth; `AddressedInv`.

## 5. Not modelled

* The SSE handlers, which `main.go` does not register; the Redis stream, which nobody consumes
  and whose errors are ignored; the middleware, which keeps no state; widgets, configuration,
  migrations and the replication slot, which a start of the engine makes if they are missing;
  scripts; the compression helper, which has no caller; the body of the WAL reader, which is a
  placeholder.
* `PerformSync` and `SyncOutgoing` of the manager and `markMessageAsRead` of the phone's
  database, which have no caller.
* The handlers that only read: lists of messages and users, the unread count.
* The other columns of `users`: `online_status`, `last_seen` and the time stamps (but for
  `updated_at` in `UserCopies`), which no property is about.

Seen while reading, and not the subject of a run:

* An INSERT that fails for a passing reason in the middle of an upload (`insert`) makes
  `take(syncedCount)` acknowledge a message the backend does not have (`sync_service.dart:98`):
  the line that `sync_overlap` is about, with a worse end. It is why the fault is not in
  `sync_faulty` and why `AckedIsStoredHolds` excludes it.
* `specs/database-schema.md:331` says that each mobile user has a `sync_metadata` record. Only
  `GET /api/sync/status` makes one, and the phone never calls it, so that its pulls in WAL mode
  fail even with a reader; `PullsDrain` has the record as a premise.
* Two requests of one sender may leave the older message in `last_message_sent`, when the one
  that stored first rewrites the row last. `LastSentIsOwn` does not exclude it.
* The rewrite that `rows_undone` shows is superfluous: the trigger has set `last_message_sent`
  already, as the comment at `messages.go:71` says.
* `handlers/enrollment.go:99` looks for "already used", but the only such error also says "not
  found" and is answered 404 by the line before.
* Two completions of one device that overlap, after the app has died and enrolled again, can
  leave the device on two rows, as no constraint makes `device_id` unique, although
  `specs/database-schema.md:329-332` links a mobile user and its `sync_metadata` one to one by it.
  `OneRowPerDevice` is shown without such an overlap.
* That the LSNs of a log follow the order of the commits is an assumption on the reader that is not
  written: the parser at `wal_reader.go:88-90` takes the LSN that heads each message.

## 6. Plan

Done: message sync, WAL mode, enrollment and user rows, each with its proofs, and the phones' copies: every safety property
of the passing runs is a theorem, and so are the three refinements. What is left, in order:

1. **Devices that change hands in WAL mode**: `DeviceId` as a variable of `WalSync`, with the look-up
   when a change is read (`change_tracker.go:121`), and which part of `NoGap` and `ChangeFeed`
   survives it.
2. **Composition**: `MessageSync` with `WalSync`'s engine in place of polling, whether WAL mode
   implements the same `StoreAndForward`; and enrollment with sync, for messages to a user that
   changes device while they are pending, where polling and WAL mode differ
   (`change_tracker.go:121`).
3. **Start-up**: several engines that start against one database, each looking for the column,
   the index and the replication slot before it makes them.
4. **WAL mode proper**, once the reader is written.

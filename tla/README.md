# Ziyad Messenger: specifications, checks and proofs

The repository is a LAN messenger: Go services that share a SQLite file, an
admin API over the same file, a desktop client and an admin dashboard.  This
directory holds TLA+ models of the parts where steps of several actors meet,
the TLC instances that check them, and TLAPS proofs.  Paths below are relative
to the repository; `messaging/main.go` stands for
`backend/services/messaging/main.go`, `audit/main.go` likewise.

## 1. Inventory

| component | state it keeps | operations | talks to |
|---|---|---|---|
| messaging (`services/messaging`) | the table of connections under an RWMutex, one 256-message buffer each; `channels`, `channel_members`, `messages` in `platform.db` | WebSocket connect, read, write, leave; `/send`, `/history`, `/dm`, `/channel-members`, `/channels` | the shared tables; tokens of auth |
| admin API: channels, users (`admin-api/internal`) | `channels`, `channel_members`, `users` in the same file | create, delete, add and remove members; create, update, delete users | messaging, only through the tables |
| schema bootstrap (`initDB` of messaging and auth, `migrate` of the admin API) | which `CREATE TABLE IF NOT EXISTS` came first | one call per start of a service | every service on the file |
| audit (`services/audit`) | `lastHash` in memory, an append-only file | `/log` | reporters over HTTP |
| presence (`services/presence`) | `presence` rows | heartbeat, status, clean-up loop | desktop client |
| auth (`services/auth`) | `users`, a rate limiter | register, login, default user | everyone, through tokens |
| rate limiters (auth, audit, cluster, file transfer) | a window of times per client | `Allow` | the handlers they guard |
| admin hub (`admin-api/internal/websocket`) | its clients, a channel of 256 events | register, unregister, broadcast | dashboards |
| departments, roles, devices, administrators (admin API) | their tables | create, update, delete; the first administrator | users' tables |
| monitoring overview | a cached answer | `Overview` | reads the tables messaging fills |
| admin middleware | metrics per endpoint, the access log of the day | after every admin request | every admin handler |
| discovery, cluster | peers; this node's role | UDP announcements; join | other nodes |
| file transfer | files, a rate limiter | upload, download | clients |
| desktop client | the open channel and its messages | select a channel, receive, send | messaging |
| PKI, protocol types, dashboard | keys; none; none | generation; none; rendering | not modelled |

What is hard in this system, and what it must get right:

* **Messaging.**  Two goroutines per connection, HTTP handlers and the admin
  API act at once.  `Broadcast` asks the database whom a message is for, then
  takes the lock, then sends.  It must never send on a channel that
  `Unregister` closed, deliver each sender's messages in order and once, skip
  nobody who is connected, deliver nothing to outsiders although the tables
  change meanwhile, and never let one slow peer hold up the rest.
* **Audit.**  The hash chain lives in memory and the file on disk: requests
  overlap, writes fail or stop short, the process restarts.
* **Shared tables.**  Two services create the same tables with different
  columns; foreign keys are declared and never enforced, so rows outlive what
  they refer to.
* **The hub** is the only reader of a channel that it also writes to.
* **Limiters, presence, overview** read the clock or the tables before they
  take a lock, or before they write what they computed.
* **Directory.**  Handlers look and then act in statements of their own; only
  `UNIQUE` holds them together.  Names are reused, services start again.
* **History and monitoring** read a table whose rows are stamped before they
  are inserted; what one answer says must be possible, and later answers must
  not take it back without cause.
* **File transfer** acknowledges files that a failure or a crash may have cut.
* **Discovery** parses a buffer that the next packet may already overwrite.

`PROJECT.json` lists each hazard at its line, with the properties that cover it.

## 2. The modules

| module | what it is |
|---|---|
| `ChatStore` | the tables that messaging and the admin API share, one operator per statement or transaction |
| `Messaging` | the messaging service over `ChatStore`: connections, requests, the lock, buffers |
| `MCMessaging` | instances of it for TLC |
| `MessagingProofs` | its inductive invariant and theorems |
| `AuditLog` | the log that the audit service promises: abstract |
| `AuditChain` | the audit service, which implements it |
| `MCAuditChain`, `AuditProofs` | instances; inductive invariant, theorems and the refinement proof |
| `AdminHub`, `MCAdminHub`, `AdminHubProofs` | the hub of the admin API's WebSocket with its dashboards; instances; proofs |
| `RateLimiter`, `RateLimiterProofs` | the rate limiter of four services, in its two forms; proofs about it and about `FileTransfer` |
| `FileTransfer`, `MCFileTransfer` | the file transfer service composed with its limiter; instances of both |
| `Presence`, `MCPresence`, `PresenceProofs` | heartbeats, clean-up loop and status query; instances; proofs |
| `MessageTable` | the `messages` table while rows are stamped and inserted |
| `History`, `Overview` | what `/history` and the admin overview read from it |
| `Observability` | metrics and access log of the admin API |
| `Monitoring`, `MCMonitoring`, `MonitoringProofs` | these over one table, with every interleaving; instances; proofs |
| `Startup` | who creates the shared tables, and whose INSERTs they take |
| `Directory` | users, roles, departments, administrators |
| `Platform`, `MCDirectory`, `PlatformProofs` | `Startup` and `Directory` as one system; instances; proofs |
| `Discovery`, `MCDiscovery`, `DiscoveryProofs` | the discovery service of one node among others; instances; proof of its types |

### ChatStore and Messaging

A **step** is one SQL statement or transaction, one critical section, one send
on a channel or one call on a socket; between two steps any other actor may
act.  `pc[p]` says where a reader goroutine or an HTTP request `p` is:

| `pc` | code (`messaging/main.go`) |
|---|---|
| `resolve`, `finduser`, `finddm`, `makedm` | `resolveRequestedChannel` 363-385, `findOrCreateDMChannel` 442-480 |
| `authtype`, `authmember` | `authorizeChannelAccess` 301-317 |
| `save` | `SaveMessage` 538-560 |
| `casttype`, `castmembers` | `getChannelMembers` 236-260, before the lock |
| `rlock`, `push` | `Broadcast` 410-438, under the read lock |
| `rows` | the SELECT of `/history` and `/channel-members` |
| `off`, `register`, `read`, `unreg`, `close`, `gone` | the life of a connection in `HandleWS` 483-536 |

`sent[c]` is everything ever put in the connection's `Send` channel and
`taken[c]` how much of it the write loop has taken, so that the difference is
what is buffered.  History variables are `entitled` (who was a member since
message i was stored) and `full` (whom this broadcast of a request found with a
full buffer at the moment it came to them, `NoteFull`); `requests` and `events`
count against the bounds.  The
write lock is one step that needs `CanLock` (no broadcast is between `RLock`
and `RUnlock`); the read lock is held while `pc = "push"`.

What is abstracted: tokens (a request comes from a user in the table, its
result is the user's id), the text of messages, JSON, HTTP answers, UUIDs
(a new room has an id that was never used).  A message's place in `stored` is
its identity.  `Push` takes the connections in any order: Go's map iteration
has none for public channels, and for others the order of rows and of the
slice is one of those allowed.  The admin API does not restrict the type of a
channel it creates to the three of the schema's comment; rooms are created
here as `public` or `private`.  The admin who creates a channel becomes its
owner with an id from `admin_users`, no chat user's, so that row is left out.
`/channels` changes nothing and is not a step.

The database outlives the service, so `StoreInit` allows any contents an
earlier run can have left, under any schema in `Schemas`.

### AuditLog and AuditChain

`LogHandler` in five steps: come to the mutex, take it, chain (timestamp,
`PrevHash`, the new `lastHash`), write, answer.  `WriteFails` leaves the file
alone or with a torn line, which the next line continues; `Restart` goes back
to the genesis hash on the same file.  SHA-256 is taken to be injective, the
hash of the n-th event being n; the clock does not run backwards.  `gaps`
remembers after which lines a fault fell.

`AuditLog` promises a log that only grows at its end, in which each event
stands at most once, and acknowledgements only for what stands there in full;
`AuditChain` refines it with `log <- file`.

### AdminHub

`hub` says where the hub goroutine is: in its `select`, in `BroadcastEvent`
(`emit`), or in the loop of the broadcast case (`cast`, with `todo` the clients
it has still to reach).  The unbuffered channels `register` and `unregister`
make receiving one step with the client's sending.  A dashboard is its writer
goroutine: `Take` receives from `Send`, `Write` succeeds or fails, and the
deferred calls are `Unregister` and `CloseConn`.  Its reader tells the hub
nothing, so it is not part of the state.  `log` is a history variable of what
the hub cast; `sent` and `taken` are used as in `Messaging`.  Nothing but
arrivals and departures is ever broadcast: `Hub.Emit` has no caller.
`HubStopped` is the state in which the hub sends to its own full channel: it is
part of the model, and nothing bounds how many dashboards come and go but the
set `Clients` of the instance (one that comes back is another).

### RateLimiter

The four copies of `Allow` differ in one line, which `variant` tells apart:
auth, audit and cluster read the clock before the lock (`Arrive` sets `stamp`,
`AllowClockFirst` decides with it), filetransfer under it (`AllowLockFirst`).
`Decide` is the critical section: `Stale` says how many hits the loop drops (it
stops at the first one in the window, so that an older one behind that stays),
`Refuse` and `LetThrough` are its two ends.  `Restart` is a service that stops
and starts again with an empty map of hits.  History variables, which outlive a
restart, are `passed` (when each address was let through on the real clock) and
`restarts` (after how many of these the service started again).  The properties
are about `passed` as a whole: a restart excuses only a window that it falls
into.

### Presence

Each handler is two steps, the clock and the statement: `Heartbeat` and
`Upsert`, `SweepBegin` and `Sweep`, `Select` and `Answer` (this one reads the
row first).  Times are ages in whole seconds, because `Unix()` drops the rest;
at an age of exactly a minute the dropped fraction decides what `Answer` says.
An age of `Old` stands for all greater ones, so that time needs no bound.
`heard` is a history variable: the age of the newest stored heartbeat of each
user and status.  Users do not meet in any statement but `Sweep`, which treats
each row alone.

### FileTransfer

Extends `RateLimiter`: in the variant `lockFirst` a request that was let
through (`pc = "handle"`) goes on as an upload or a download.  `job` says what
its upload does next: receive the body, write the IV, write the ciphertext,
answer.  `Upload` starts receiving, which the server's `ReadTimeout` cuts off
(`Time` waits for it); `Reject` is every refusal before there is a file,
`UploadFails` every one after; `Crash` stops the service anywhere, with the
limiter's `Restart`.  `disk` has files of three kinds (none, part, whole),
and `known` is a history variable: the ids that were answered with a 201.

### MessageTable, History, Overview, Observability

`SaveMessage` is two steps, `Stamp` and `Insert`, so that rows come in another
order than their timestamps.  Rows are never deleted.  A row's `at` and `seen`
are history: when it came in, and how many rows its sender could know of.

`History` is one channel's page: the first 100 by timestamp, and by rowid among
equals, which is how the index holds them.  `page` is the last answer of each
reader.  The SELECT sees the rows of one moment (`Page`), but `HistoryHandler`
never looks at `rows.Err`: a read that fails on the way ends the list anywhere,
with status 200 (`ReadTo`).  Authorization is `Messaging`'s.

`Overview` has a request in one of the steps `check` (the cache, with the time
read before the lock), `cutoff`, one per SELECT, `store`.  `Miss` does not hold
the lock, so requests overlap and overwrite one another.  Any SELECT may fail,
which the code does not notice (`fault`).  The counts of nodes, users and files
are independent and only take time; `MaxBuild` bounds what one request may take.

`Observability` has a request record its latency and then write its line, each
under a lock of its own.  `TakeSink` takes the second and reads the date,
`WriteLog` does the rest; midnight may come in between, opening the file may
fail, and a write puts the line, a part of it or nothing at the end (`Pieces`:
what follows a part is joined to it).  Days are those of the machine's zone, and
the clock does not go back.  `Rank` is exact where the code rounds `p * n` in
floating point; for the percentiles and up to the 512 samples that occur both
give the same index.  Totals, maxima and last values are left out, as are the
service without a log directory, which writes no file, and its restarts.

`Monitoring` composes the four: any of them may take the next step, and only
`MessageTable` changes what `History` and `Overview` read.

### Startup and Directory

`Startup` runs the services' statements one by one.  `Required`, `Columns` and
`Given` are the columns in the code's SQL, and `Fits` says whether an INSERT can
succeed; what `WhoCanStore` finds is the `Schemas` that `ChatStore` starts from.

`Directory` has the tables of people, roles, departments and administrators.  A
handler with one statement is one action, others have a step each: `main` of
auth and of the admin API (look, then insert), deleting a department (count,
then delete), updating a role (two statements, neither checked).  In a request
under way, `late` and `excuse` are history: what came between two steps of it.  `count` is
what the handler that deletes a department knows: its SELECT counted nobody, or
failed, which the code takes for nobody.  Left out are
`audit_logs` (entries are added after a change and nobody decides by them),
password, full name and time columns, devices, which nothing inserts, and
logins, which write nothing.

`Platform` couples them: a service serves its directory once it is `Up`, when
its tables are there, and `StartStep`, a new start of a service, takes its
requests with it and goes back to its statements and its `main`.

### Discovery

The loop's one buffer is what matters: `parsing[h]` is the set of packets that
stood in it since the goroutine `h` was started.  `HandleAlone` parses what it
was started for; `HandleOverlapped` may see any of them, a mixture (`Torn`), or
nothing that parses.  A panic of the decoder is `Stop`.  All packets of this
build agree in everything but the node id.

## 3. The runs

| run | instance | what it shows |
|---|---|---|
| `messaging` | 2 users, 1 room, 2 connections, 1 HTTP request at a time, buffers of 1, 2 requests, 1 event (an admin call, a failing statement or read, or a restart), both schemas | `TypeOK`, `NoSendOnClosed`, `SenderOrder`, `Confidential`, `FanOut` |
| `messaging_live` | the same without HTTP requests and database failures | `DisconnectCleansUp`, `RequestEnds` |
| `dm_ensured` | an empty database, messaging's schema | violated: a deleted direct message cannot be created again (finding) |
| `audit` | 2 requests in flight, 4 in all, 2 faults, 3 instants | `TypeOK`, `BreaksExplained`, `Chronological`, `ImplementsLog`, `Answered` |
| `hub` | 2 dashboards, a channel of 2 events, buffers of 1 | `TypeOK`, `ClosedOnce`, `Unbroken`, `ClosedLeaves` |
| `hub_stops` | the same with 3 dashboards | violated: the hub waits for itself, and an open dashboard is never registered (finding) |
| `limiter` | 3 requests at a time, 4 in all, 2 addresses, limit 2, window 2, delay 1, read timeout 1, 4 instants, both forms, 2 files, 1 restart that makes the limiter forget an address, and any number of others; symmetric in requests, addresses and files | `StorageTypeOK` (with the limiter's `TypeOK`), `SlidingLimit`, `RefusedWhenFull`, `Stored`, `BodiesBounded` |
| `presence` | 1 user, 2 heartbeats at a time without end, a minute of 2 seconds, delay 1, 1 fault | `TypeOK`, `RowIsLastSaid`, `ShownWasSaid`, `SilentGoesOffline` |
| `monitoring` | 2 senders, 2 rows and 2 overlapping overviews, or 4 rows and a page of 2; 3 instants, windows of 0 and 1, 1 instant to live in the cache; 4 requests in 2 days, 3 latencies, 3 samples; reads, openings and writes that fail or stop short | `TypeOK`, `CountsNested`, `Fresh`, `HistoryCausal`, `ShownStays`, `Percentiles`, `DailyFiles` |
| `directory` | the 13 statements of 3 services in every order; then, on services that are up, 3 users, 2 names, 1 department, 2 roles, 2 requests at a time, 6 in all, 1 service started again | `TypeOK`, `WhoCanStore`, `FirstAdmin`, `RoleUpdated`, `DepartmentEmptied` |
| `nodes` | 2 other nodes, 2 goroutines that parse | `Discovered` |
| `chain_verifies` | 1 fault | violated: a restart breaks the documented verification (finding) |

**Bounds.**  A buffer of one message is full after one send, so that drops and
the freeing of room both happen with two messages; two messages are what it
takes for one to overtake another, from the same sender or in a second
broadcast that overlaps the first; two connections can belong to one user or
to two, and each may send, receive and leave.  One event is enough for each
hazard alone (a member is removed, a channel deleted, a statement fails, the
process restarts), at any point of the two requests.  Because the first state
has any membership and any channels, events before the run started are covered
too.  In `audit` four requests and two faults give faults next to each other,
before the first and after the last line.  In `hub` a buffer of one event is
full when the second dashboard's arrival is cast, so a client is too slow, and
its writer may fail as well.  Two
dashboards already fill a channel of two events: both come and one leaves
before the first arrival is cast, so that the run goes through `HubStopped`, and
`ClosedLeaves` says that nothing else keeps a dashboard whose `Send` was closed.  A third one
then waits in `Register` for ever, which is `hub_stops`.  The code's channel
holds 256 events, and the same takes 257 arrivals and departures that the
`select`, which chooses at random, takes up before the broadcast case
(`StoppedByBacklog` for any capacity).
In `limiter` four requests fill the window, are
refused, outlive it and overtake one another; the slack of `SlidingLimit` is
what the code needs, for without it TLC finds a request with an old time whose
hit is dropped too early.  `MaxRestarts` bounds, for each address, the restarts
after a request of its own got through; one is enough for an address to fill
the same window twice, which TLC finds when the exception is left out.  The read timeout is half the window, as in the
code; uploads fail at each step, crash and overlap with one another.  In
`monitoring` two rows are what it takes for one to be stamped first and stored
second, and for a count to change between two SELECTs; four rows overflow a page
of two by late ones.  The three readers change nothing that another reads, so
`MCSpec` lets one of them move at a time (`part`): every behaviour of it is one
of `Monitoring`'s `Spec`, which the proofs are about.  Likewise in `directory`,
where the requests about people and those about roles share no table, and where
the starts are looked at in every order without the directory, and the directory
on services that came up one after the other and start again.  Two nodes overwrite each other's
packet.  `MaxDelay` in `RateLimiter` and `Presence` names
what the code leaves open, how long a handler may be between reading the clock
and using it; the properties say what it costs.  Runs set `CHECK_DEADLOCK FALSE`
because the bounds let every behaviour come to its end.

**Fairness.**  A goroutine that can run does run: weak fairness of each
request's own steps and of `Connection`.  A goroutine that waits for the write
lock holds back new readers in Go's RWMutex, so it gets it.  A write to a
socket may block for ever, for no deadline is set; the write loop is fair only
once `conn.Close` makes every write fail.  Nothing outside is fair: peers need
not read, requests need not come, the database need not fail.  For `audit`,
weak fairness of `Handler` says that Go's mutex is handed over in turn and that
`write` returns.  For `hub`, `select` chooses at random among the ready cases,
so that a client's case that is ready time and again is taken (strong
fairness), and writes have a deadline of ten seconds, so they end.  For
`presence`, time passes, statements end, and the ticker goes on firing; nobody
need send heartbeats, and queries need not come.  For `nodes`, tickers fire and
goroutines run; of a node's packets some get through again and again, are read,
and now and then one is parsed before the next comes (strong fairness of `Read`
and `HandleAlone`): parsing takes microseconds and packets come every five
seconds.  No node need run.

**Findings.**
1. `DmEnsured`: the comment at main.go:441 says the channel exists afterwards;
   once the admin API deleted it, its member rows make every attempt fail.
2. `ChainVerifies`: compliance-logging.md:56 takes a break for tampering; the
   service breaks the chain itself at each restart (audit/main.go:152-157).
3. `OpenIsTakenIn`: dashboard/page.tsx:63 shows a page with an open socket as
   connected to the events; the hub can stop at hub.go:81, in a send to the
   channel that it alone receives from, and whoever comes then is never
   registered.

Also known, and part of what `FanOut` says: `Broadcast` drops what does not fit
into a full buffer (main.go:421, 432), tells no one and never sends it again,
although message-schemas.md:58 promises at-least-once delivery.

Each property of a passing run has a mutant (an operator `Mut...` beside the
definition it replaces) under which TLC finds it violated.

## 4. The proofs

**MessagingProofs**, for any sets of users, rooms, connections and requests,
any capacity and any bounds, from `StoreAssumption` and `MessagingAssumption`
(ids of different kinds differ, a buffer holds at least one message).  The
properties are not inductive alone; the invariant is built in layers, each
inductive relative to those before it:

1. `TypeInv`: types, and what a request knows at each step (who asks, that
   `chan` is a channel once it was looked up, that a direct message has two
   different users).
2. `LockInv`: only a request at `push` has connections left to reach, and all
   of them are registered and open.  `Unregister` needs the lock, which no one
   has then: `NoSendOnClosed`.
3. `Ordered`: what p is broadcasting is the newest message p stored and is not
   yet in the buffer of anyone it has still to reach: `SenderOrder`.
4. `Guarded`: entitlement follows the tables (`Remember`), the audience of a
   closed channel is a subset of those entitled to the message, and everyone
   left to reach belongs to the audience: `Confidential`.
5. `FanInv`: while a request holds the read lock, whoever it is for and is not
   left to reach has the message, or is in `full`: this very broadcast found no
   room for it.  Nobody registers then;
   `Still` is the kind of step that leaves this as it is, which all but
   `Register`, `RLock`, `Push` and `Restart` are: `FanOut`.
6. `WriterInv`: who has left is not in the table, and a write loop that runs is
   that of a connection in the table, or its `Send` is closed:
   `WritersReleased`, what `DisconnectCleansUp` rests on.

The theorems `TypeCorrect`, `SendsAreSafe`, `OrderKept`, `MembersOnly`,
`NobodyMissed` and `WritersReleased` follow from `Invariance`.

**AuditProofs**, for any requests and bounds.  `Mutex`, `TornInv` (a torn line
breaks the chain around it), `TailInv` (without a fault after it, the last
line is what `lastHash`, or the event being written, refers to), `AgeInv`
(times and hashes grow) and `AckInv` carry `BreaksExplained` and
`Chronological`; with them each step of `AuditChain` is a step of `AuditLog` or
leaves its variables alone: `Refinement`.

**AdminHubProofs**, for any finite set of dashboards and any capacities of at
least one.  `HubInv` (only the loop of the broadcast case has clients left to
reach, all of them in the table, and its event is the last of `log`),
`OpenInv` (who is in the table is open; who has not arrived has got nothing)
and `PieceInv` (what a client was sent is a piece of `log` which, while it is
in the table, lacks at most the event being cast) give `ClosedOnce` and
`Unbroken`.  `EventsInv` counts: as many events were cast, wait or are being
emitted as dashboards came and left.  So a hub that emits has stopped exactly
when one event more than the channel holds has not been cast:
`StoppedByBacklog`, without any bound on the dashboards.

**RateLimiterProofs**, for any limit of at least one, any window, delay,
addresses and requests.  `WaitInv` (a waiting request is late by `MaxDelay` at
most), `HitsInv` (the hits are the times of the last requests that got through,
each at most `Lateness` before it did) and `GoneInv` (what was dropped is past
by a window less `Lateness`, or was forgotten at a restart after it;
`RestartsInv`: nothing that is still among the hits came before a restart): a
request that gets through finds fewer than `Limit` hits, so the one `Limit`
places before it was dropped or forgotten, which is `SlidingLimit`; a refused
one finds `Limit` hits that all got through since the service started and after
the first of them was timed, which is `RefusedWhenFull`.

For the file transfer service on top of it (`FilesSpec`, any ids, any number of
uploads, failures and crashes, from `FileAssumption`: a read timeout no longer
than the window), `JobsInv` says which file each upload has written and how far,
and that no two write the same one, which carries `Stored`.  `BodiesBounded` is
about how many requests are between two steps at once, and needs more than the
limiter's theorem: `BodyInv` (an open body came in within the read timeout) and
`PlacesInv` (the requests of an address in the handlers have places of their own
in `passed`, at the times they were let through), so that as many open bodies
are as many places in one window, which `SlidingLimit` bounds.

**MonitoringProofs**, for any senders, rows, page, windows, times to live,
readers, overlapping overviews, latencies, sample limit and percentages in
1..100.  Each component has its part of the invariant:

* `TableInv`: a row was stamped no later than it came in, and after every row
  its sender could know of.
* `PageInv`: a whole page is `PageOf` the rows there were: those with fewer than
  `PageLimit` before them.  That `Before` is a strict order, and that a row left
  out of a full page comes behind all of it, give `HistoryCausal`; that a page
  only loses a row to an insertion before it gives `ShownStays`.  What a reader
  got is a beginning of such a page (`Begins`): a list that was cut short keeps
  causes, and loses only its end.
* `OverviewInv`: what a request has counted so far is no more than its next
  SELECT will find, rows only being added; a finished answer without a fault, in
  the request or in the cache, has at least what was stored before the request
  came, which was no more than `MaxBuild` ago.  It gives `CountsNested` and
  `Fresh`.
* `ObservabilityInv`: the samples are the last of what was `recorded`; one
  request has the sink, the date it read is no earlier than its line, and no
  file of a later day has anything (`LinesInv`), which gives `DailyFiles`.  `Percentiles` follows for any latencies:
  there is a sample of every rank (`RankedSample`, by the least latency that has
  so many samples up to it), and how many of the samples and of the latest
  recorded are below one is the same (`SamplesAndLatest`).

**PlatformProofs**, for any users, names, roles, departments, requests and
administrators, and any order of starts with failures between statements, from
`DirectoryAssumption`.  `StartupInv` (a table is that of a service that has a
statement for it, and is there once a service has run its own) gives
`WhoCanStore`.  `DataInv` says what holds between statements of different
requests: usernames are unique (`Unique`); who is in a department that a request counted empty came late
(`LateInv`); what an update read or wrote is still there unless it has an excuse
(`UpdateInv`); and the well-known administrator is there from the first one on
(`AdminsInv`).  They give `DepartmentEmptied`, `RoleUpdated`
and `FirstAdmin`.

**PresenceProofs**, for any users, minute, delay and number of faults, from
`PresenceAssumption`.  `RowInv` (a row is at most `MaxDelay` older than
anything heard of its user, and as old as what it says unless it was swept) and
`QueryInv` (what a query read was said no earlier than its row says) give
`RowIsLastSaid` and `ShownWasSaid`.

**DiscoveryProofs**, for any nodes and any number of goroutines: the types
are inductive alone.  They say more than types, `self` never being among its
own peers; TLC checks only `Discovered`, which the proof cannot reach.

**Only model-checked** are the liveness properties (`DisconnectCleansUp`,
`RequestEnds`, `Answered`, `ClosedLeaves`, `SilentGoesOffline`,
`Discovered`): the prover does not reach fairness.  What two of them rest on is
proved (`WritersReleased`, `StoppedByBacklog`).  The three violations are TLC's.
Every other property of a passing run is a theorem, for all values of the
constants that the assumptions allow.

## 5. Plan

Next theorems: an abstract specification of what messaging promises one
connection (a queue that only grows, in each sender's order, and stops when it is
closed), implemented by `Messaging`; the same for the limiter (a set of times of
which a window holds at most `Limit`); for `AuditChain` and `Presence`, what
`Answered` and `SilentGoesOffline` rest on.

Next module: the desktop client's list of messages (`chat_provider.dart:49`),
where an awaited history meets the live stream.

## 6. Not modelled

* Password hashing, tokens' signatures, encryption, TLS and PKI, JSON: pure.
* The cluster service beyond its limiter: a stub whose `State` is written once
  and read by nobody, and whose join only logs.
* `devices`: nothing inserts one.  `audit_logs` of the admin API: rows are added
  and listed, and errors ignored.
* What a username means over time: a token carries it, and a name that a renamed
  or deleted user gave up may go to another.  The code keeps nothing that a
  property could be about.
* The handlers of the single monitoring pages, which have no route.
* The map of hits in a limiter keeps an address for ever, which a finite set of
  addresses cannot show.
* The dashboard and the client's screens, which render answers; deployment files.

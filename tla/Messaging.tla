----------------------------- MODULE Messaging -----------------------------
(***************************************************************************)
(* The messaging service: WebSocket connections with a reader and a writer *)
(* goroutine each, HTTP requests, and the clients table with its RWMutex,  *)
(* over the tables of ChatStore, which the admin API changes at any time.  *)
(*                                                                         *)
(* One step is one SQL statement, one critical section of the mutex, one   *)
(* send on a channel or one call on a socket.  Between any two steps of a  *)
(* request any other goroutine may take steps.                             *)
(***************************************************************************)
EXTENDS ChatStore, Sequences

CONSTANTS
  Conns,        \* WebSocket connections, each used once
  Https,        \* HTTP requests in flight at the same time
  SendCap,      \* capacity of a client's Send channel (256 in the code)
  Targets,      \* what a request may name as its channel
  NoOne, NoChannel,  \* an owner and a channel not chosen yet
  DbFaults,     \* whether a SQL statement may fail
  MaxRequests,  \* bound: requests and messages of a behaviour
  MaxEvents     \* bound: admin calls, failures and restarts of a behaviour

Procs == Conns \cup Https

ASSUME MessagingAssumption ==
  /\ Conns \cap Https = {}
  /\ NoOne \notin Users
  /\ NoChannel \notin Channels \cup Users
  /\ SendCap \in Nat \ {0}
  /\ Targets \subseteq Channels \cup Users
  /\ DbFaults \in BOOLEAN
  /\ MaxRequests \in Nat
  /\ MaxEvents \in Nat

VARIABLES
  stored,     \* the rows of messages, in the order they were inserted
  clients,    \* the connections in r.clients
  owner,      \* the user a connection or request authenticated as
  sent,       \* all that was ever put in a connection's Send channel
  taken,      \* how much of it the write loop took: the rest is the buffer
  closed,     \* whether Send is closed
  writer,     \* the write loop: "off", "run" or "done"
  pc, op,     \* where the reader or the request is, what it was asked
  chan,       \* the channel asked for, then the one it resolved to
  audience,   \* whom Broadcast read from the database
  cur,        \* the message being broadcast: its place in stored, or 0
  todo,       \* the connections Broadcast has still to reach
  full,       \* history: those whose buffer was full when it reached them
  entitled,   \* history: who was a member since a message was stored
  requests, events  \* how much of the two bounds is used

procVars == <<owner, pc, op, chan, audience, cur, todo, full>>
queueVars == <<clients, sent, taken, closed, writer>>
counters == <<requests, events>>
vars == <<storeVars, procVars, queueVars, stored, entitled, counters>>

Ops == {"send", "history", "dm", "members"}

Resting == {"off", "gone", "idle", "read"}
DbSteps == {"resolve", "finduser", "finddm", "makedm", "authtype", "authmember",
            "save", "rows", "casttype", "castmembers"}
Labels == Resting \cup DbSteps \cup {"register", "rlock", "push", "unreg", "close"}

TypeOK ==
  /\ StoreTypeOK
  /\ stored \in Seq([src : Procs, sender : Users, ch : Channels])
  /\ entitled \in Seq(SUBSET Users)
  /\ clients \subseteq Conns
  /\ owner \in [Procs -> Users \cup {NoOne}]
  /\ sent \in [Conns -> Seq(Nat)]
  /\ taken \in [Conns -> Nat]
  /\ closed \in [Conns -> BOOLEAN]
  /\ writer \in [Conns -> {"off", "run", "done"}]
  /\ pc \in [Procs -> Labels]
  /\ op \in [Procs -> Ops]
  /\ chan \in [Procs -> Channels \cup Users \cup {NoChannel}]
  /\ audience \in [Procs -> SUBSET Users]
  /\ cur \in [Procs -> Nat]
  /\ todo \in [Procs -> SUBSET Conns]
  /\ full \in [Procs -> SUBSET Conns]
  /\ requests \in 0..MaxRequests
  /\ events \in 0..MaxEvents

Init ==
  /\ StoreInit
  /\ stored = << >> /\ entitled = << >>
  /\ clients = {}
  /\ owner = [p \in Procs |-> NoOne]
  /\ sent = [c \in Conns |-> << >>]
  /\ taken = [c \in Conns |-> 0]
  /\ closed = [c \in Conns |-> FALSE]
  /\ writer = [c \in Conns |-> "off"]
  /\ pc = [p \in Procs |-> IF p \in Conns THEN "off" ELSE "idle"]
  /\ op = [p \in Procs |-> "send"]
  /\ chan = [p \in Procs |-> NoChannel]
  /\ audience = [p \in Procs |-> {}]
  /\ cur = [p \in Procs |-> 0]
  /\ todo = [p \in Procs |-> {}]
  /\ full = [p \in Procs |-> {}]
  /\ requests = 0 /\ events = 0

-----------------------------------------------------------------------------
(***************************************************************************)
(* r.mu.  Broadcast holds the read lock while it is at "push"; a critical  *)
(* section of the write lock waits for no one but readers and so is one    *)
(* step, possible while no broadcast is under way.                         *)
(***************************************************************************)
Readers == {p \in Procs : pc[p] = "push"}
CanLock == Readers = {}

Goto(p, label) == pc' = [pc EXCEPT ![p] = label]

\* A statement or call that touches only the request itself.
Others == UNCHANGED <<storeVars, queueVars, stored, entitled, counters>>

\* The request moves on to label, or a reader goroutine leaves its loop.
Advance(p, label) ==
  /\ Goto(p, label)
  /\ UNCHANGED <<owner, op, chan, audience, cur, todo, full>>

(***************************************************************************)
(* The end of a request, with or without an error: a reader goroutine goes *)
(* on to ReadMessage, an HTTP handler returns.                             *)
(***************************************************************************)
Return(p) ==
  /\ Goto(p, IF p \in Conns THEN "read" ELSE "idle")
  /\ op' = [op EXCEPT ![p] = "send"]
  /\ chan' = [chan EXCEPT ![p] = NoChannel]
  /\ audience' = [audience EXCEPT ![p] = {}]
  /\ cur' = [cur EXCEPT ![p] = 0]
  /\ todo' = [todo EXCEPT ![p] = {}]
  /\ full' = [full EXCEPT ![p] = {}]
  /\ owner' = [owner EXCEPT ![p] = IF p \in Conns THEN @ ELSE NoOne]

Step(p, label) == Advance(p, label) /\ Others
End(p) == Return(p) /\ Others

Buffered(c) == Len(sent[c]) - taken[c]

\* History: the broadcast of p found no room for c.
NoteFull(p, c) ==
  full' = [full EXCEPT ![p] = IF Buffered(c) >= SendCap THEN @ \cup {c} ELSE @]

-----------------------------------------------------------------------------
(***************************************************************************)
(* Mutants: what a plausible bug would make of a definition below.  The    *)
(* specification uses none of them; each breaks one property.              *)
(***************************************************************************)

\* Register and Unregister without taking the mutex.
MutRegister(c) ==
  /\ pc[c] = "register"
  /\ clients' = clients \cup {c}
  /\ writer' = [writer EXCEPT ![c] = "run"]
  /\ Advance(c, "read")
  /\ UNCHANGED <<storeVars, stored, entitled, counters, sent, taken, closed>>

MutUnregister(c) ==
  /\ pc[c] = "unreg"
  /\ clients' = clients \ {c}
  /\ closed' = [closed EXCEPT ![c] = @ \/ c \in clients]
  /\ Advance(c, "close")
  /\ UNCHANGED <<storeVars, stored, entitled, counters, sent, taken, writer>>

\* Unregister leaves Send open.
MutUnregisterOpen(c) ==
  /\ pc[c] = "unreg"
  /\ CanLock
  /\ clients' = clients \ {c}
  /\ Advance(c, "close")
  /\ UNCHANGED <<storeVars, stored, entitled, counters, sent, taken, closed, writer>>

\* The requested id is used without being resolved.
MutResolveChannel(p) == pc[p] = "resolve" /\ Step(p, "save")

\* Only "private" channels have members.
MutIsPublic(id) == id \in Channels /\ chType[id] # "private"

\* A connection is listed twice, so that it is sent to twice.
MutPush(p, c) ==
  /\ pc[p] = "push"
  /\ c \in todo[p]
  /\ todo' = [todo EXCEPT ![p] = IF Buffered(c) < SendCap THEN @ ELSE @ \ {c}]
  /\ sent' = IF Buffered(c) < SendCap
             THEN [sent EXCEPT ![c] = Append(@, cur[p])]
             ELSE sent
  /\ NoteFull(p, c)
  /\ UNCHANGED <<storeVars, stored, entitled, counters, clients, taken, closed,
                 writer, owner, pc, op, chan, audience, cur>>

\* The send has no default branch: it waits for room.
MutPushWaits(p, c) ==
  /\ pc[p] = "push"
  /\ c \in todo[p]
  /\ Buffered(c) < SendCap
  /\ todo' = [todo EXCEPT ![p] = @ \ {c}]
  /\ sent' = [sent EXCEPT ![c] = Append(@, cur[p])]
  /\ NoteFull(p, c)
  /\ UNCHANGED <<storeVars, stored, entitled, counters, clients, taken, closed,
                 writer, owner, pc, op, chan, audience, cur>>

-----------------------------------------------------------------------------
(***************************************************************************)
(* Connections                                                             *)
(***************************************************************************)

\* HandleWS authenticates the upgrade request; the user must be in the table.
Authenticate(c, u) ==
  /\ pc[c] = "off"
  /\ u \in users
  /\ owner' = [owner EXCEPT ![c] = u]
  /\ Goto(c, "register")
  /\ UNCHANGED <<op, chan, audience, cur, todo, full>>
  /\ Others

\* Register, after which both goroutines of the connection run.
Register(c) ==
  /\ pc[c] = "register"
  /\ CanLock
  /\ clients' = clients \cup {c}
  /\ writer' = [writer EXCEPT ![c] = "run"]
  /\ Advance(c, "read")
  /\ UNCHANGED <<storeVars, stored, entitled, counters, sent, taken, closed>>

\* ReadMessage fails: the peer left, or the network lost it.
ReadError(c) ==
  /\ pc[c] = "read"
  /\ events < MaxEvents
  /\ events' = events + 1
  /\ Advance(c, "unreg")
  /\ UNCHANGED <<storeVars, queueVars, stored, entitled, requests>>

\* The deferred Unregister: out of the table and Send closed, under one lock.
Unregister(c) ==
  /\ pc[c] = "unreg"
  /\ CanLock
  /\ clients' = clients \ {c}
  /\ closed' = [closed EXCEPT ![c] = @ \/ c \in clients]
  /\ Advance(c, "close")
  /\ UNCHANGED <<storeVars, stored, entitled, counters, sent, taken, writer>>

\* The deferred conn.Close, after which every write fails.
CloseConn(c) == pc[c] = "close" /\ Step(c, "gone")

\* The write loop takes a message and writes it to the socket.
Write(c) ==
  /\ writer[c] = "run"
  /\ Buffered(c) > 0
  /\ pc[c] # "gone"
  /\ taken' = [taken EXCEPT ![c] = @ + 1]
  /\ UNCHANGED <<storeVars, procVars, stored, entitled, counters,
                 clients, sent, closed, writer>>

\* The write fails: the loop ends, and nobody unregisters the connection.
WriteError(c) ==
  /\ writer[c] = "run"
  /\ Buffered(c) > 0
  /\ \/ pc[c] = "gone" /\ UNCHANGED events
     \/ pc[c] # "gone" /\ events < MaxEvents /\ events' = events + 1
  /\ taken' = [taken EXCEPT ![c] = @ + 1]
  /\ writer' = [writer EXCEPT ![c] = "done"]
  /\ UNCHANGED <<storeVars, procVars, stored, entitled, requests,
                 clients, sent, closed>>

\* A closed and drained Send ends the write loop.
WriterEnd(c) ==
  /\ writer[c] = "run"
  /\ closed[c] /\ Buffered(c) = 0
  /\ writer' = [writer EXCEPT ![c] = "done"]
  /\ UNCHANGED <<storeVars, procVars, stored, entitled, counters,
                 clients, sent, taken, closed>>

-----------------------------------------------------------------------------
(***************************************************************************)
(* Requests                                                                *)
(***************************************************************************)

\* ReadMessage returns a request to send to target.
Receive(c, target) ==
  /\ pc[c] = "read"
  /\ requests < MaxRequests
  /\ requests' = requests + 1
  /\ Goto(c, "resolve")
  /\ chan' = [chan EXCEPT ![c] = target]
  /\ UNCHANGED <<storeVars, queueVars, stored, entitled, events,
                 owner, op, audience, cur, todo, full>>

FirstStep == [send |-> "resolve", history |-> "resolve", dm |-> "finduser",
              members |-> "authtype"]

\* /send, /history, /dm and /channel-members: the handler authenticates,
\* decodes, and goes on to its first query.
Request(h, u, what, target) ==
  /\ pc[h] = "idle"
  /\ u \in users
  /\ requests < MaxRequests
  /\ requests' = requests + 1
  /\ owner' = [owner EXCEPT ![h] = u]
  /\ op' = [op EXCEPT ![h] = what]
  /\ chan' = [chan EXCEPT ![h] = target]
  /\ Goto(h, FirstStep[what])
  /\ UNCHANGED <<storeVars, queueVars, stored, entitled, events,
                 audience, cur, todo, full>>

(***************************************************************************)
(* resolveRequestedChannel and findOrCreateDMChannel                       *)
(***************************************************************************)
IsChannel(id) == id \in Channels /\ Exists(id)
IsPublic(id) == id \in Channels /\ chType[id] = "public"
IsPrivate(id) == IsChannel(id) /\ ~IsPublic(id)

ResolveChannel(p) ==
  /\ pc[p] = "resolve"
  /\ \/ IsChannel(chan[p]) /\ Step(p, "authtype")
     \/ ~IsChannel(chan[p]) /\ Step(p, "finduser")

\* An unknown user, or the sender itself, ends the request.
ResolveUser(p) ==
  /\ pc[p] = "finduser"
  /\ \/ chan[p] \in users \ {owner[p]} /\ Step(p, "finddm")
     \/ chan[p] \notin users \ {owner[p]} /\ End(p)

Dm(p) == DmOf(owner[p], chan[p])

\* The channel's id goes to the client of /dm, or to authorizeChannelAccess.
UseDm(p) ==
  \/ op[p] = "dm" /\ Return(p)
  \/ /\ op[p] # "dm"
     /\ Goto(p, "authtype")
     /\ chan' = [chan EXCEPT ![p] = Dm(p)]
     /\ UNCHANGED <<owner, op, audience, cur, todo, full>>

FindDm(p) ==
  /\ pc[p] = "finddm"
  /\ \/ Exists(Dm(p)) /\ UseDm(p) /\ Others
     \/ ~Exists(Dm(p)) /\ Step(p, "makedm")

\* History: whoever is a member now was one since these messages were stored.
Remember ==
  entitled' = [i \in DOMAIN entitled |->
                 entitled[i] \cup {u \in Users : <<stored[i].ch, u>> \in members'}]

\* The transaction commits, or a row it would insert is there already (or
\* the tables refuse it) and the request fails.
MakeDm(p) ==
  /\ pc[p] = "makedm"
  /\ \/ /\ InsertDm(Dm(p))
        /\ UseDm(p)
        /\ Remember
        /\ UNCHANGED <<queueVars, stored, counters>>
     \/ ~DmInsertable(Dm(p)) /\ End(p)

(***************************************************************************)
(* authorizeChannelAccess, and what follows it                             *)
(***************************************************************************)
AfterAuth(p) == IF op[p] = "send" THEN "save" ELSE "rows"

AuthType(p) ==
  /\ pc[p] = "authtype"
  /\ \/ ~IsChannel(chan[p]) /\ End(p)
     \/ IsPublic(chan[p]) /\ Step(p, AfterAuth(p))
     \/ IsPrivate(chan[p]) /\ Step(p, "authmember")

AuthMember(p) ==
  /\ pc[p] = "authmember"
  /\ \/ owner[p] \in MembersOf(chan[p]) /\ Step(p, AfterAuth(p))
     \/ owner[p] \notin MembersOf(chan[p]) /\ End(p)

\* /history and /channel-members answer with the rows they select.
AnswerRows(p) == pc[p] = "rows" /\ End(p)

\* SaveMessage
Save(p) ==
  /\ pc[p] = "save"
  /\ stored' = Append(stored, [src |-> p, sender |-> owner[p], ch |-> chan[p]])
  /\ entitled' = Append(entitled, MembersOf(chan[p]))
  /\ cur' = [cur EXCEPT ![p] = Len(stored) + 1]
  /\ Goto(p, "casttype")
  /\ UNCHANGED <<storeVars, queueVars, counters, owner, op, chan,
                 audience, todo, full>>

(***************************************************************************)
(* Broadcast: getChannelMembers before the lock, then under the read lock  *)
(* one send per connection that takes the message or drops it.             *)
(***************************************************************************)
HeardBy(p, us) ==
  /\ audience' = [audience EXCEPT ![p] = us]
  /\ Goto(p, "rlock")
  /\ UNCHANGED <<owner, op, chan, cur, todo, full>>
  /\ Others

CastType(p) ==
  /\ pc[p] = "casttype"
  /\ \/ ~IsChannel(chan[p]) /\ End(p)
     \/ IsPublic(chan[p]) /\ HeardBy(p, Users)
     \/ IsPrivate(chan[p]) /\ Step(p, "castmembers")

\* rows.Err is never looked at: a failing scan shortens the list silently.
CastMembers(p) ==
  /\ pc[p] = "castmembers"
  /\ \E got \in SUBSET MembersOf(chan[p]) :
       /\ DbFaults \/ got = MembersOf(chan[p])
       /\ HeardBy(p, got)

RLock(p) ==
  /\ pc[p] = "rlock"
  /\ todo' = [todo EXCEPT ![p] = {c \in clients : owner[c] \in audience[p]}]
  /\ Goto(p, "push")
  /\ UNCHANGED <<owner, op, chan, audience, cur, full>>
  /\ Others

\* select { case client.Send <- data: default: }
Push(p, c) ==
  /\ pc[p] = "push"
  /\ c \in todo[p]
  /\ todo' = [todo EXCEPT ![p] = @ \ {c}]
  /\ sent' = IF Buffered(c) < SendCap
             THEN [sent EXCEPT ![c] = Append(@, cur[p])]
             ELSE sent
  /\ NoteFull(p, c)
  /\ UNCHANGED <<storeVars, stored, entitled, counters, clients, taken, closed,
                 writer, owner, pc, op, chan, audience, cur>>

RUnlock(p) == pc[p] = "push" /\ todo[p] = {} /\ End(p)

\* A SQL statement fails: the request ends with what it did so far.
DbError(p) ==
  /\ DbFaults
  /\ pc[p] \in DbSteps
  /\ events < MaxEvents
  /\ events' = events + 1
  /\ Return(p)
  /\ UNCHANGED <<storeVars, queueVars, stored, entitled, requests>>

-----------------------------------------------------------------------------
(***************************************************************************)
(* What happens around the service                                         *)
(***************************************************************************)
Admin ==
  /\ events < MaxEvents
  /\ events' = events + 1
  /\ \/ \E r \in Rooms, t \in {"public", "private"} : CreateChannel(r, t)
     \/ \E ch \in Channels : DeleteChannel(ch)
     \/ \E ch \in Channels, u \in Users : AddMember(ch, u) \/ RemoveMember(ch, u)
     \/ \E u \in Users : DeleteUser(u)
  /\ Remember
  /\ UNCHANGED <<procVars, queueVars, stored, requests>>

\* The process dies and starts again: its memory is gone, the tables stay.
Restart ==
  /\ events < MaxEvents
  /\ events' = events + 1
  /\ clients' = {}
  /\ writer' = [c \in Conns |-> IF writer[c] = "run" THEN "done" ELSE writer[c]]
  /\ pc' = [p \in Procs |-> IF p \in Https THEN "idle"
                            ELSE IF pc[p] = "off" THEN "off" ELSE "gone"]
  /\ owner' = [p \in Procs |-> IF p \in Conns THEN owner[p] ELSE NoOne]
  /\ op' = [p \in Procs |-> "send"]
  /\ chan' = [p \in Procs |-> NoChannel]
  /\ audience' = [p \in Procs |-> {}]
  /\ cur' = [p \in Procs |-> 0]
  /\ todo' = [p \in Procs |-> {}]
  /\ full' = [p \in Procs |-> {}]
  /\ UNCHANGED <<storeVars, stored, entitled, sent, taken, closed, requests>>

-----------------------------------------------------------------------------
\* What goroutine p does next by itself, once it has been started.
Progress(p) ==
  \/ ResolveChannel(p) \/ ResolveUser(p) \/ FindDm(p) \/ MakeDm(p)
  \/ AuthType(p) \/ AuthMember(p) \/ AnswerRows(p) \/ Save(p)
  \/ CastType(p) \/ CastMembers(p) \/ RLock(p) \/ RUnlock(p)
  \/ \E c \in Conns : Push(p, c)

Connection(c) == Register(c) \/ Unregister(c) \/ CloseConn(c)

WriteLoop(c) == Write(c) \/ WriteError(c) \/ WriterEnd(c)

Next ==
  \/ \E c \in Conns :
       \/ \E u \in Users : Authenticate(c, u)
       \/ \E t \in Targets : Receive(c, t)
       \/ Connection(c) \/ ReadError(c) \/ WriteLoop(c)
  \/ \E h \in Https, u \in Users, what \in Ops, t \in Targets : Request(h, u, what, t)
  \/ \E p \in Procs : Progress(p) \/ DbError(p)
  \/ Admin
  \/ Restart

Spec == Init /\ [][Next]_vars

(***************************************************************************)
(* The Go scheduler runs every goroutine that can run, and a goroutine     *)
(* that waits for the RWMutex's write lock holds back new readers.  A      *)
(* write to a peer that does not read may block for ever (no deadline is   *)
(* set): the write loop is fair only once conn.Close makes writes fail.    *)
(***************************************************************************)
FairSpec ==
  /\ Spec
  /\ \A p \in Procs : WF_vars(Progress(p))
  /\ \A c \in Conns :
       /\ WF_vars(Connection(c))
       /\ WF_vars(pc[c] = "gone" /\ WriteLoop(c))

-----------------------------------------------------------------------------
(***************************************************************************)
(* Properties                                                              *)
(***************************************************************************)

(***************************************************************************)
(* A send on a closed channel would take the whole process down.  Whatever *)
(* a broadcast (main.go Broadcast) has still to send to is registered and  *)
(* open until it gets there, although connections leave at any time.       *)
(***************************************************************************)
NoSendOnClosed ==
  \A p \in Procs : \A c \in todo[p] : c \in clients /\ ~closed[c]

(***************************************************************************)
(* What one connection or client sent arrives at every connection in the   *)
(* order it was stored, no message twice and none that was not stored,     *)
(* although the broadcasts of several senders overlap.                     *)
(***************************************************************************)
SenderOrder ==
  \A c \in Conns :
    /\ \A i \in 1..Len(sent[c]) : sent[c][i] \in 1..Len(stored)
    /\ \A i, j \in 1..Len(sent[c]) :
         i < j /\ stored[sent[c][i]].src = stored[sent[c][j]].src
           => sent[c][i] < sent[c][j]

\* Not open to every user: a direct message, or a room created as private.
Closed(ch) == ch \in Dms \/ chType[ch] = "private"

(***************************************************************************)
(* A message of a channel that is not public reaches only connections of   *)
(* users who were members at some moment since it was stored: a member who *)
(* was removed before never gets it.  (One who is removed between the read *)
(* of channel_members and the send still does.)                            *)
(***************************************************************************)
Confidential ==
  \A c \in Conns : \A i \in 1..Len(sent[c]) :
    Closed(stored[sent[c][i]].ch) => owner[c] \in entitled[sent[c][i]]

(***************************************************************************)
(* When a broadcast lets go of the read lock, every connection registered  *)
(* by then and meant by it has the message, or its buffer was full when    *)
(* the broadcast came to it (main.go:417-434), however far its write loop  *)
(* has come since: none is missed because it came in between.              *)
(***************************************************************************)
Holds(c, m) == \E i \in 1..Len(sent[c]) : sent[c][i] = m

Reached(p) ==
  \A c \in clients :
    owner[c] \in audience[p] => Holds(c, cur[p]) \/ c \in full[p]

FanOut == [][\A p \in Procs : RUnlock(p) => Reached(p)]_vars

(***************************************************************************)
(* After its reader stops, a connection leaves the table and its write     *)
(* loop ends, whatever broadcasts are under way: no goroutine is leaked.   *)
(***************************************************************************)
DisconnectCleansUp ==
  \A c \in Conns : pc[c] = "unreg" ~> c \notin clients /\ writer[c] = "done"

(***************************************************************************)
(* Every request ends: nobody waits for ever for the lock, for a slow      *)
(* receiver or for another request.                                        *)
(***************************************************************************)
RequestEnds == \A p \in Procs : pc[p] \notin Resting ~> pc[p] \in Resting

(***************************************************************************)
(* main.go:441 "findOrCreateDMChannel ensures a DM channel exists between  *)
(* two users": without database failures, the channel exists once it is    *)
(* through.                                                                *)
(***************************************************************************)
DmEnsured ==
  [][\A p \in Procs : MakeDm(p) => chType'[Dm(p)] = "dm"]_vars
=============================================================================

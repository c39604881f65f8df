------------------------------ MODULE AdminHub ------------------------------
(***************************************************************************)
(* The hub of the admin API's WebSocket: one goroutine that owns the set   *)
(* of dashboards, and per dashboard a goroutine that writes what the hub   *)
(* puts in its Send channel.  The hub announces every arrival and          *)
(* departure by sending to the broadcast channel, which only it receives   *)
(* from.                                                                   *)
(*                                                                         *)
(* A dashboard's reader (handler.go:63-68) ends without telling anyone, so *)
(* it is no part of the state: what the hub learns, it learns from writes  *)
(* that fail.                                                              *)
(***************************************************************************)
EXTENDS Integers, FiniteSets, SequencesExt

CONSTANTS
  Clients,    \* the dashboards, each connecting once
  QueueCap,   \* capacity of the broadcast channel (256 in the code)
  SendCap     \* capacity of a client's Send channel (256 in the code)

ASSUME HubAssumption ==
  /\ IsFiniteSet(Clients)
  /\ QueueCap \in Nat \ {0}
  /\ SendCap \in Nat \ {0}

VARIABLES
  clients,    \* h.clients
  queue,      \* the events in the broadcast channel
  hub,        \* the hub goroutine: in its "select", about to "emit", or in "cast"
  ev,         \* the event it emits or casts
  todo,       \* the clients its loop has still to reach
  pc,         \* where a client's handler and writer goroutine are
  sent,       \* all that was ever put in a client's Send channel
  taken,      \* how much of it the writer took
  closes,     \* how often Send was closed
  log         \* history: the events the hub has cast, the current one included

hubVars == <<clients, queue, hub, ev, todo, log>>
clientVars == <<pc, sent, taken, closes>>
vars == <<hubVars, clientVars>>

Events == [kind : {"USER_CONNECTED", "USER_DISCONNECTED"}, client : Clients]
None == [kind |-> "none"]

Buffered(c) == Len(sent[c]) - taken[c]

\* Types, and the channels hold no more than they are made for.
TypeOK ==
  /\ clients \subseteq Clients
  /\ queue \in Seq(Events) /\ Len(queue) <= QueueCap
  /\ hub \in {"select", "emit", "cast"}
  /\ ev \in Events \cup {None}
  /\ todo \subseteq Clients
  /\ pc \in [Clients -> {"off", "register", "run", "write", "unregister", "close", "gone"}]
  /\ sent \in [Clients -> Seq(Events)]
  /\ taken \in [Clients -> Nat]
  /\ closes \in [Clients -> Nat]
  /\ \A c \in Clients : taken[c] <= Len(sent[c]) /\ Buffered(c) <= SendCap
  /\ log \in Seq(Events)

Init ==
  /\ clients = {} /\ queue = << >> /\ hub = "select" /\ ev = None /\ todo = {}
  /\ pc = [c \in Clients |-> "off"]
  /\ sent = [c \in Clients |-> << >>]
  /\ taken = [c \in Clients |-> 0]
  /\ closes = [c \in Clients |-> 0]
  /\ log = << >>

Goto(c, label) == pc' = [pc EXCEPT ![c] = label]

-----------------------------------------------------------------------------
(***************************************************************************)
(* Mutants: what a plausible bug would make of a definition below.  The    *)
(* specification uses none of them; each breaks one property.              *)
(***************************************************************************)

\* Send is closed without looking whether the client is still in the table.
MutUnregister(c) ==
  /\ hub = "select"
  /\ pc[c] = "unregister"
  /\ clients' = clients \ {c}
  /\ closes' = [closes EXCEPT ![c] = @ + 1]
  /\ ev' = [kind |-> "USER_DISCONNECTED", client |-> c]
  /\ hub' = "emit"
  /\ Goto(c, "close")
  /\ UNCHANGED <<queue, todo, log, sent, taken>>

\* The default branch drops the event and keeps the client.
MutCast(c) ==
  /\ hub = "cast"
  /\ c \in todo
  /\ todo' = todo \ {c}
  /\ sent' = IF Buffered(c) < SendCap THEN [sent EXCEPT ![c] = Append(@, ev)] ELSE sent
  /\ UNCHANGED <<clients, queue, hub, ev, log, pc, taken, closes>>

\* The event is put in Send without the default branch.
MutCastUnbounded(c) ==
  /\ hub = "cast"
  /\ c \in todo
  /\ todo' = todo \ {c}
  /\ sent' = [sent EXCEPT ![c] = Append(@, ev)]
  /\ UNCHANGED <<clients, queue, hub, ev, log, pc, taken, closes>>

\* The hub takes back only clients it still knows.
MutUnregisterKnown(c) ==
  /\ hub = "select"
  /\ pc[c] = "unregister"
  /\ c \in clients
  /\ clients' = clients \ {c}
  /\ closes' = [closes EXCEPT ![c] = @ + 1]
  /\ ev' = [kind |-> "USER_DISCONNECTED", client |-> c]
  /\ hub' = "emit"
  /\ Goto(c, "close")
  /\ UNCHANGED <<queue, todo, log, sent, taken>>

-----------------------------------------------------------------------------
(***************************************************************************)
(* A dashboard's handler and writer goroutine                              *)
(***************************************************************************)

\* The upgrade succeeds; hub.Register waits for the hub to receive.
Connect(c) ==
  /\ pc[c] = "off"
  /\ Goto(c, "register")
  /\ UNCHANGED <<hubVars, sent, taken, closes>>

Take(c) ==
  /\ pc[c] = "run"
  /\ Buffered(c) > 0
  /\ taken' = [taken EXCEPT ![c] = @ + 1]
  /\ Goto(c, "write")
  /\ UNCHANGED <<hubVars, sent, closes>>

\* The write is over within its deadline, or it fails.
Write(c) ==
  /\ pc[c] = "write"
  /\ \/ Goto(c, "run")
     \/ Goto(c, "unregister")
  /\ UNCHANGED <<hubVars, sent, taken, closes>>

\* A closed and drained Send ends the loop.
WriterEnd(c) ==
  /\ pc[c] = "run"
  /\ closes[c] > 0 /\ Buffered(c) = 0
  /\ Goto(c, "unregister")
  /\ UNCHANGED <<hubVars, sent, taken, closes>>

CloseConn(c) ==
  /\ pc[c] = "close"
  /\ Goto(c, "gone")
  /\ UNCHANGED <<hubVars, sent, taken, closes>>

-----------------------------------------------------------------------------
(***************************************************************************)
(* Run: the select of the hub goroutine.  register and unregister have no  *)
(* buffer: receiving is one step with the client's sending.                *)
(***************************************************************************)
Register(c) ==
  /\ hub = "select"
  /\ pc[c] = "register"
  /\ clients' = clients \cup {c}
  /\ ev' = [kind |-> "USER_CONNECTED", client |-> c]
  /\ hub' = "emit"
  /\ Goto(c, "run")
  /\ UNCHANGED <<queue, todo, log, sent, taken, closes>>

\* Send is closed unless the hub closed it before; the departure is announced
\* in either case.
Unregister(c) ==
  /\ hub = "select"
  /\ pc[c] = "unregister"
  /\ clients' = clients \ {c}
  /\ closes' = [closes EXCEPT ![c] = IF c \in clients THEN @ + 1 ELSE @]
  /\ ev' = [kind |-> "USER_DISCONNECTED", client |-> c]
  /\ hub' = "emit"
  /\ Goto(c, "close")
  /\ UNCHANGED <<queue, todo, log, sent, taken>>

\* BroadcastEvent waits for room in the channel that no one else empties.
Emit ==
  /\ hub = "emit"
  /\ Len(queue) < QueueCap
  /\ queue' = Append(queue, ev)
  /\ hub' = "select"
  /\ ev' = None
  /\ UNCHANGED <<clients, todo, log, clientVars>>

Receive ==
  /\ hub = "select"
  /\ queue # << >>
  /\ ev' = Head(queue)
  /\ queue' = Tail(queue)
  /\ todo' = clients
  /\ log' = Append(log, Head(queue))
  /\ hub' = "cast"
  /\ UNCHANGED <<clients, clientVars>>

\* A client with a full buffer is closed and taken out.
Cast(c) ==
  /\ hub = "cast"
  /\ c \in todo
  /\ todo' = todo \ {c}
  /\ \/ /\ Buffered(c) < SendCap
        /\ sent' = [sent EXCEPT ![c] = Append(@, ev)]
        /\ UNCHANGED <<clients, closes>>
     \/ /\ Buffered(c) >= SendCap
        /\ clients' = clients \ {c}
        /\ closes' = [closes EXCEPT ![c] = @ + 1]
        /\ UNCHANGED sent
  /\ UNCHANGED <<queue, hub, ev, log, pc, taken>>

CastDone ==
  /\ hub = "cast"
  /\ todo = {}
  /\ hub' = "select"
  /\ ev' = None
  /\ UNCHANGED <<clients, queue, todo, log, clientVars>>

Writer(c) == Take(c) \/ Write(c) \/ WriterEnd(c) \/ CloseConn(c)

Run == Emit \/ Receive \/ CastDone \/ \E c \in Clients : Cast(c)

Next ==
  \/ Run
  \/ \E c \in Clients : Connect(c) \/ Register(c) \/ Unregister(c) \/ Writer(c)

Spec == Init /\ [][Next]_vars

(***************************************************************************)
(* Goroutines that can run do run; every write has a deadline.  select     *)
(* chooses at random among what is ready, so that no case of it that is    *)
(* ready time and again is passed over for ever.                           *)
(***************************************************************************)
FairSpec ==
  /\ Spec
  /\ WF_vars(Run)
  /\ \A c \in Clients : WF_vars(Writer(c)) /\ SF_vars(Register(c)) /\ SF_vars(Unregister(c))

-----------------------------------------------------------------------------
(***************************************************************************)
(* Properties                                                              *)
(***************************************************************************)

(***************************************************************************)
(* A second close, or a send after a close, would end the process.  The    *)
(* hub closes Send in two places (hub.go:56 and 67), for a writer that     *)
(* gave up and for a client that is too slow, and one client can be both.  *)
(***************************************************************************)
ClosedOnce ==
  \A c \in Clients : closes[c] <= 1 /\ (c \in clients \cup todo => closes[c] = 0)

(***************************************************************************)
(* What a dashboard receives (hub.go:61-70) is an unbroken piece of what   *)
(* the hub cast, from its arrival until it is closed: a full buffer ends   *)
(* the connection and never leaves a hole in it.                           *)
(***************************************************************************)
Unbroken ==
  \A c \in Clients :
    /\ \E i \in 0..Len(log) : sent[c] = SubSeq(log, i + 1, i + Len(sent[c]))
    /\ c \in clients \ todo /\ sent[c] # << >> => Last(sent[c]) = Last(log)

(***************************************************************************)
(* The hub waits for room in the channel that only it receives from        *)
(* (hub.go:50, 59, 81): nothing will ever happen in it again.              *)
(***************************************************************************)
HubStopped == hub = "emit" /\ Len(queue) = QueueCap

(***************************************************************************)
(* A dashboard whose Send was closed is let go (handler.go:50-61): its     *)
(* writer ends and its socket is closed, unless the hub stops before.      *)
(***************************************************************************)
ClosedLeaves == \A c \in Clients : closes[c] > 0 ~> pc[c] = "gone" \/ HubStopped

(***************************************************************************)
(* What the dashboard's page says (dashboard/page.tsx:63): one whose       *)
(* socket is open is connected to the events, that is, the hub takes it    *)
(* in.  The code does not keep it: handler.go:48 comes after the upgrade   *)
(* and waits for a hub that may have stopped.                              *)
(***************************************************************************)
OpenIsTakenIn == \A c \in Clients : pc[c] = "register" ~> pc[c] # "register"
=============================================================================

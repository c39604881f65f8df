--------------------------- MODULE AdminHubProofs ---------------------------
(***************************************************************************)
(* Proofs about AdminHub, for any finite set of dashboards and any         *)
(* capacities of the channels.                                             *)
(***************************************************************************)
EXTENDS AdminHub, SequenceTheorems, FiniteSetTheorems, TLAPS

-----------------------------------------------------------------------------
(***************************************************************************)
(* The inductive invariant, in parts.                                      *)
(***************************************************************************)

\* Where the hub is tells what its event and its loop hold.
HubInv ==
  /\ hub # "select" => ev \in Events
  /\ hub # "cast" => todo = {}
  /\ hub = "cast" => Len(log) > 0 /\ ev = log[Len(log)]
  /\ todo \subseteq clients

\* A client in the table is open; one that has not arrived is not in the table
\* and has got nothing.
OpenInv ==
  \A c \in Clients :
    /\ closes[c] <= 1
    /\ c \in clients => closes[c] = 0
    /\ pc[c] \in {"off", "register"} => c \notin clients /\ closes[c] = 0 /\ sent[c] = << >>

\* What c was sent is a piece of log, which begins after the first i events.
From(c, i) ==
  /\ i + Len(sent[c]) <= Len(log)
  /\ \A k \in 1..Len(sent[c]) : sent[c][k] = log[i + k]

\* A client in the table lacks nothing but the event that is being cast.
PieceInv ==
  \A c \in Clients : \E i \in 0..Len(log) :
    /\ From(c, i)
    /\ c \in clients \ todo => i + Len(sent[c]) = Len(log)
    /\ c \in todo => i + Len(sent[c]) = Len(log) - 1

IInv == TypeOK /\ HubInv /\ OpenInv /\ PieceInv

-----------------------------------------------------------------------------
USE HubAssumption

\* What a channel or the log holds after an event was added to it.
LEMMA AddEvent ==
  ASSUME NEW q \in Seq(Events), NEW e \in Events
  PROVE  /\ Append(q, e) \in Seq(Events)
         /\ Len(q) \in Nat
         /\ Len(Append(q, e)) = Len(q) + 1
         /\ \A k \in 1..Len(q) : Append(q, e)[k] = q[k]
         /\ Append(q, e)[Len(q) + 1] = e
  OBVIOUS

\* The specification starts in the invariant.
LEMMA InitInv == Init => IInv
  <1> SUFFICES ASSUME Init PROVE IInv
    OBVIOUS
  <1>1. TypeOK
    BY DEF Init, TypeOK, Buffered
  <1>2. HubInv /\ OpenInv
    BY DEF Init, HubInv, OpenInv
  <1>3. PieceInv
    BY DEF Init, PieceInv, From
  <1> QED
    BY <1>1, <1>2, <1>3 DEF IInv

\* A step that keeps the table, the loop, the log and what was sent keeps PieceInv.
LEMMA PieceStays ==
  ASSUME PieceInv, UNCHANGED <<clients, todo, log, sent>>
  PROVE  PieceInv'
  BY DEF PieceInv, From

\* A dashboard's own steps keep the invariant.
LEMMA ClientStep ==
  ASSUME IInv, NEW c \in Clients, Connect(c) \/ Writer(c)
  PROVE  IInv'
  <1> USE DEF IInv, Goto
  <1>1. CASE Connect(c)
    <2>1. TypeOK'
      BY <1>1 DEF Connect, hubVars, TypeOK, Buffered
    <2>2. HubInv' /\ OpenInv'
      BY <1>1 DEF Connect, hubVars, HubInv, OpenInv, TypeOK
    <2> QED
      BY <1>1, <2>1, <2>2, PieceStays DEF Connect, hubVars
  <1>2. CASE Take(c)
    <2>1. TypeOK'
      BY <1>2 DEF Take, hubVars, TypeOK, Buffered
    <2>2. HubInv' /\ OpenInv'
      BY <1>2 DEF Take, hubVars, HubInv, OpenInv, TypeOK
    <2> QED
      BY <1>2, <2>1, <2>2, PieceStays DEF Take, hubVars
  <1>3. CASE Write(c) \/ WriterEnd(c) \/ CloseConn(c)
    <2>1. TypeOK'
      BY <1>3 DEF Write, WriterEnd, CloseConn, hubVars, TypeOK, Buffered
    <2>2. HubInv' /\ OpenInv'
      BY <1>3 DEF Write, WriterEnd, CloseConn, hubVars, HubInv, OpenInv, TypeOK
    <2> QED
      BY <1>3, <2>1, <2>2, PieceStays DEF Write, WriterEnd, CloseConn, hubVars
  <1> QED
    BY <1>1, <1>2, <1>3 DEF Writer

\* The hub takes in a client, which lacks nothing of what was cast since.
LEMMA RegisterStep ==
  ASSUME IInv, NEW c \in Clients, Register(c)
  PROVE  IInv'
  <1> USE DEF IInv, Register, Goto
  <1>1. TypeOK'
    BY DEF TypeOK, Events, Buffered
  <1>2. HubInv' /\ OpenInv'
    BY DEF HubInv, OpenInv, TypeOK, Events
  <1>3. PieceInv'
    <2> SUFFICES ASSUME NEW d \in Clients
                 PROVE \E i \in 0..Len(log) :
                   /\ From(d, i)
                   /\ d \in clients' => i + Len(sent[d]) = Len(log)
      BY DEF PieceInv, From, HubInv
    <2>1. CASE d = c
      <3>1. sent[c] = << >> /\ Len(log) \in Nat
        BY DEF OpenInv, TypeOK
      <3>2. Len(sent[c]) = 0
        BY <3>1
      <3>3. From(c, Len(log))
        BY <3>1, <3>2 DEF From
      <3> QED
        BY <2>1, <3>1, <3>2, <3>3
    <2>2. CASE d # c
      BY <2>2 DEF PieceInv, HubInv
    <2> QED
      BY <2>1, <2>2
  <1> QED
    BY <1>1, <1>2, <1>3

\* The hub takes a client back and closes it if that was not done before.
LEMMA UnregisterStep ==
  ASSUME IInv, NEW c \in Clients, Unregister(c)
  PROVE  IInv'
  <1> USE DEF IInv, Unregister, Goto
  <1>1. TypeOK'
    BY DEF TypeOK, Events, Buffered
  <1>2. HubInv' /\ OpenInv'
    BY DEF HubInv, OpenInv, TypeOK, Events
  <1>3. PieceInv'
    BY DEF PieceInv, From, HubInv
  <1> QED
    BY <1>1, <1>2, <1>3

\* BroadcastEvent touches the queue only.
LEMMA EmitStep ==
  ASSUME IInv, Emit
  PROVE  IInv'
  <1> USE DEF IInv, Emit, clientVars
  <1>1. ev \in Events
    BY DEF HubInv
  <1>2. TypeOK'
    BY <1>1, AddEvent DEF TypeOK, Buffered
  <1>3. HubInv' /\ OpenInv'
    BY DEF HubInv, OpenInv
  <1> QED
    BY <1>2, <1>3, PieceStays

\* An event leaves the queue for the log: everyone in the table now lacks it.
LEMMA ReceiveStep ==
  ASSUME IInv, Receive
  PROVE  IInv'
  <1> USE DEF IInv, Receive, clientVars
  <1>1. Head(queue) \in Events /\ Tail(queue) \in Seq(Events) /\ Len(Tail(queue)) <= QueueCap
    BY DEF TypeOK
  <1>2. /\ log' \in Seq(Events) /\ Len(log) \in Nat /\ Len(log') = Len(log) + 1
        /\ \A k \in 1..Len(log) : log'[k] = log[k]
        /\ log'[Len(log')] = ev'
    BY <1>1, AddEvent DEF TypeOK
  <1>3. TypeOK'
    BY <1>1, <1>2 DEF TypeOK, Buffered
  <1>4. HubInv' /\ OpenInv'
    BY <1>1, <1>2 DEF HubInv, OpenInv
  <1>5. PieceInv'
    <2> SUFFICES ASSUME NEW d \in Clients
                 PROVE \E i \in 0..Len(log') :
                   /\ From(d, i)'
                   /\ d \in clients => i + Len(sent[d]) = Len(log') - 1
      BY DEF PieceInv
    <2>1. PICK i \in 0..Len(log) :
            From(d, i) /\ (d \in clients => i + Len(sent[d]) = Len(log))
      BY DEF PieceInv, HubInv
    <2>2. Len(sent[d]) \in Nat
      BY DEF TypeOK
    <2>3. From(d, i)'
      BY <1>2, <2>1, <2>2 DEF From
    <2> QED
      BY <1>2, <2>1, <2>2, <2>3
  <1> QED
    BY <1>3, <1>4, <1>5

\* A client gets the event, or is closed and taken out.
LEMMA CastStep ==
  ASSUME IInv, NEW c \in Clients, Cast(c)
  PROVE  IInv'
  <1> USE DEF IInv
  <1>0. /\ hub = "cast" /\ c \in todo /\ c \in clients /\ ev \in Events
        /\ todo' = todo \ {c}
        /\ UNCHANGED <<queue, hub, ev, log, pc, taken>>
    BY DEF Cast, HubInv
  <1>1. CASE Buffered(c) < SendCap /\ sent' = [sent EXCEPT ![c] = Append(@, ev)] /\ UNCHANGED <<clients, closes>>
    <2>1. /\ sent' \in [Clients -> Seq(Events)]
          /\ \A d \in Clients \ {c} : sent'[d] = sent[d]
          /\ Len(sent[c]) \in Nat /\ Len(sent'[c]) = Len(sent[c]) + 1
          /\ \A k \in 1..Len(sent[c]) : sent'[c][k] = sent[c][k]
          /\ sent'[c][Len(sent[c]) + 1] = ev
      BY <1>0, <1>1, AddEvent DEF TypeOK
    <2>2. TypeOK'
      BY <1>0, <1>1, <2>1 DEF TypeOK, Buffered
    <2>3. HubInv' /\ OpenInv'
      BY <1>0, <1>1, <2>1 DEF HubInv, OpenInv
    <2>4. PieceInv'
      <3> SUFFICES ASSUME NEW d \in Clients
                   PROVE \E i \in 0..Len(log) :
                     /\ From(d, i)'
                     /\ d \in clients \ todo' => i + Len(sent'[d]) = Len(log)
                     /\ d \in todo' => i + Len(sent'[d]) = Len(log) - 1
        BY <1>0, <1>1 DEF PieceInv
      <3>1. CASE d # c
        <4>1. PICK i \in 0..Len(log) :
                /\ From(d, i)
                /\ d \in clients \ todo => i + Len(sent[d]) = Len(log)
                /\ d \in todo => i + Len(sent[d]) = Len(log) - 1
          BY DEF PieceInv
        <4>2. From(d, i)'
          BY <1>0, <2>1, <3>1, <4>1 DEF From
        <4> QED
          BY <1>0, <2>1, <3>1, <4>1, <4>2
      <3>2. CASE d = c
        <4>1. PICK i \in 0..Len(log) : From(c, i) /\ i + Len(sent[c]) = Len(log) - 1
          BY <1>0 DEF PieceInv
        <4>2. ev = log[i + (Len(sent[c]) + 1)] /\ Len(log) \in Nat
          BY <1>0, <2>1, <4>1 DEF HubInv, TypeOK
        <4>3. From(c, i)'
          <5>1. i + Len(sent'[c]) <= Len(log)
            BY <2>1, <4>1, <4>2
          <5>2. ASSUME NEW k \in 1..Len(sent'[c]) PROVE sent'[c][k] = log[i + k]
            <6>1. CASE k \in 1..Len(sent[c])
              BY <2>1, <4>1, <6>1 DEF From
            <6>2. CASE k = Len(sent[c]) + 1
              BY <2>1, <4>2, <6>2
            <6> QED
              BY <2>1, <5>2, <6>1, <6>2
          <5> QED
            BY <1>0, <5>1, <5>2 DEF From
        <4> QED
          BY <1>0, <2>1, <3>2, <4>1, <4>2, <4>3
      <3> QED
        BY <3>1, <3>2
    <2> QED
      BY <2>2, <2>3, <2>4
  <1>2. CASE /\ clients' = clients \ {c}
             /\ closes' = [closes EXCEPT ![c] = @ + 1]
             /\ UNCHANGED sent
    <2>1. TypeOK'
      BY <1>0, <1>2 DEF TypeOK, Buffered
    <2>2. HubInv' /\ OpenInv'
      BY <1>0, <1>2 DEF HubInv, OpenInv, TypeOK
    <2>3. PieceInv'
      BY <1>0, <1>2 DEF PieceInv, From
    <2> QED
      BY <2>1, <2>2, <2>3
  <1> QED
    BY <1>1, <1>2 DEF Cast

\* Every step keeps the invariant.
LEMMA StepInv == IInv /\ [Next]_vars => IInv'
  <1> SUFFICES ASSUME IInv, [Next]_vars PROVE IInv'
    OBVIOUS
  <1>1. CASE CastDone
    <2>1. TypeOK' /\ HubInv' /\ OpenInv'
      BY <1>1 DEF IInv, CastDone, clientVars, TypeOK, HubInv, OpenInv, Buffered
    <2> QED
      BY <1>1, <2>1, PieceStays DEF IInv, CastDone, clientVars
  <1>2. CASE UNCHANGED vars
    <2>1. TypeOK' /\ HubInv' /\ OpenInv'
      BY <1>2 DEF IInv, vars, hubVars, clientVars, TypeOK, HubInv, OpenInv, Buffered
    <2> QED
      BY <1>2, <2>1, PieceStays DEF IInv, vars, hubVars, clientVars
  <1> QED
    BY <1>1, <1>2, ClientStep, RegisterStep, UnregisterStep, EmitStep, ReceiveStep, CastStep
    DEF Next, Run

\* The invariant holds in every behaviour of the hub and its dashboards.
THEOREM Invariance == Spec => []IInv
  BY InitInv, StepInv, PTL DEF Spec

\* No channel of the hub holds more than it was made for (hub.go:37,
\* handler.go:45), whatever the dashboards do.
THEOREM TypeCorrect == Spec => []TypeOK
  <1>1. IInv => TypeOK
    BY DEF IInv
  <1> QED
    BY <1>1, Invariance, PTL

\* Send is closed at most once and nothing is sent on it afterwards, although
\* two places close it (hub.go:56 and 67).
THEOREM SendClosedOnce == Spec => []ClosedOnce
  <1>1. IInv => ClosedOnce
    BY DEF IInv, HubInv, OpenInv, ClosedOnce
  <1> QED
    BY <1>1, Invariance, PTL

\* No dashboard has a hole in what the hub puts in its Send (hub.go:61-70).
THEOREM NoHoles == Spec => []Unbroken
  <1>1. ASSUME IInv PROVE Unbroken
    <2> SUFFICES ASSUME NEW c \in Clients
                 PROVE /\ \E i \in 0..Len(log) : sent[c] = SubSeq(log, i + 1, i + Len(sent[c]))
                       /\ c \in clients \ todo /\ sent[c] # << >> => Last(sent[c]) = Last(log)
      BY DEF Unbroken
    <2>1. sent[c] \in Seq(Events) /\ log \in Seq(Events) /\ Len(sent[c]) \in Nat /\ Len(log) \in Nat
      BY <1>1 DEF IInv, TypeOK
    <2>2. PICK i \in 0..Len(log) :
            From(c, i) /\ (c \in clients \ todo => i + Len(sent[c]) = Len(log))
      BY <1>1 DEF IInv, PieceInv
    <2>3. sent[c] = SubSeq(log, i + 1, i + Len(sent[c]))
      BY <2>1, <2>2 DEF From
    <2>4. ASSUME c \in clients \ todo, sent[c] # << >> PROVE Last(sent[c]) = Last(log)
      <3>1. Len(sent[c]) > 0
        BY <2>1, <2>4
      <3>2. sent[c][Len(sent[c])] = log[Len(log)]
        BY <2>1, <2>2, <2>4, <3>1 DEF From
      <3> QED
        BY <3>2 DEF Last
    <2> QED
      BY <2>3, <2>4
  <1> QED
    BY <1>1, Invariance, PTL

-----------------------------------------------------------------------------
(***************************************************************************)
(* How many events wait in the channel.                                    *)
(***************************************************************************)

Arrived == {c \in Clients : pc[c] \notin {"off", "register"}}
Departed == {c \in Clients : pc[c] \in {"close", "gone"}}
BeingEmitted == IF hub = "emit" THEN 1 ELSE 0

\* Every arrival and every departure was cast, waits, or is about to be emitted.
EventsInv ==
  Len(log) + Len(queue) + BeingEmitted = Cardinality(Arrived) + Cardinality(Departed)

LEMMA EventsTyped ==
  ASSUME TypeOK
  PROVE  /\ Len(log) \in Nat /\ Len(queue) \in Nat /\ BeingEmitted \in Nat
         /\ IsFiniteSet(Arrived) /\ IsFiniteSet(Departed)
         /\ Cardinality(Arrived) \in Nat /\ Cardinality(Departed) \in Nat
  <1>1. Arrived \in SUBSET Clients /\ Departed \in SUBSET Clients
    BY DEF Arrived, Departed
  <1>2. Len(log) \in Nat /\ Len(queue) \in Nat /\ BeingEmitted \in Nat
    BY DEF TypeOK, BeingEmitted
  <1> QED
    BY <1>1, <1>2, FS_Subset, FS_CardinalityType

\* A dashboard's own steps.
LEMMA ClientEvents ==
  ASSUME IInv, EventsInv, NEW c \in Clients, Connect(c) \/ Writer(c)
  PROVE  EventsInv'
  <1> USE DEF Goto, hubVars
  <1>1. UNCHANGED <<log, queue, hub>> /\ TypeOK
    BY DEF Connect, Writer, Take, Write, WriterEnd, CloseConn, IInv
  <1>2. UNCHANGED <<Arrived, Departed>>
    BY <1>1 DEF Connect, Writer, Take, Write, WriterEnd, CloseConn, Arrived, Departed, TypeOK
  <1> QED
    BY <1>1, <1>2 DEF EventsInv, BeingEmitted

LEMMA RegisterEvents ==
  ASSUME IInv, EventsInv, NEW c \in Clients, Register(c)
  PROVE  EventsInv'
  <1>1. TypeOK /\ pc \in [Clients -> {"off", "register", "run", "write", "unregister", "close", "gone"}]
    BY DEF IInv, TypeOK
  <1>2. Arrived' = Arrived \cup {c} /\ c \notin Arrived /\ Departed' = Departed
    BY <1>1 DEF Register, Goto, Arrived, Departed
  <1>3. Cardinality(Arrived') = Cardinality(Arrived) + 1
    BY <1>1, <1>2, EventsTyped, FS_AddElement
  <1>4. BeingEmitted = 0 /\ BeingEmitted' = 1 /\ UNCHANGED <<log, queue>>
    BY DEF Register, BeingEmitted
  <1> QED
    BY <1>1, <1>2, <1>3, <1>4, EventsTyped DEF EventsInv

LEMMA UnregisterEvents ==
  ASSUME IInv, EventsInv, NEW c \in Clients, Unregister(c)
  PROVE  EventsInv'
  <1>1. TypeOK /\ pc \in [Clients -> {"off", "register", "run", "write", "unregister", "close", "gone"}]
    BY DEF IInv, TypeOK
  <1>2. Departed' = Departed \cup {c} /\ c \notin Departed /\ Arrived' = Arrived
    BY <1>1 DEF Unregister, Goto, Arrived, Departed
  <1>3. Cardinality(Departed') = Cardinality(Departed) + 1
    BY <1>1, <1>2, EventsTyped, FS_AddElement
  <1>4. BeingEmitted = 0 /\ BeingEmitted' = 1 /\ UNCHANGED <<log, queue>>
    BY DEF Unregister, BeingEmitted
  <1> QED
    BY <1>1, <1>2, <1>3, <1>4, EventsTyped DEF EventsInv

\* The hub passes an event on or waits with it; it loses none.
LEMMA RunEvents ==
  ASSUME IInv, EventsInv, Run
  PROVE  EventsInv'
  <1>1. TypeOK /\ Len(log) \in Nat /\ Len(queue) \in Nat
    BY EventsTyped DEF IInv
  <1>2. UNCHANGED <<Arrived, Departed>>
    BY DEF Run, Emit, Receive, CastDone, Cast, clientVars, Arrived, Departed
  <1>3. CASE Emit
    <2>1. Len(queue') = Len(queue) + 1
      BY <1>1, <1>3, AddEvent DEF Emit, IInv, HubInv, TypeOK
    <2>2. BeingEmitted = 1 /\ BeingEmitted' = 0 /\ UNCHANGED log
      BY <1>3 DEF Emit, BeingEmitted
    <2> QED
      BY <1>1, <1>2, <2>1, <2>2 DEF EventsInv
  <1>4. CASE Receive
    <2>1. Len(queue') = Len(queue) - 1 /\ Len(log') = Len(log) + 1
      <3>1. Head(queue) \in Events /\ Len(Tail(queue)) = Len(queue) - 1
        BY <1>1, <1>4 DEF Receive, TypeOK
      <3> QED
        BY <1>1, <1>4, <3>1, AddEvent DEF Receive, TypeOK
    <2>2. BeingEmitted = 0 /\ BeingEmitted' = 0
      BY <1>4 DEF Receive, BeingEmitted
    <2> QED
      BY <1>1, <1>2, <2>1, <2>2 DEF EventsInv
  <1>5. CASE CastDone \/ \E c \in Clients : Cast(c)
    <2>1. BeingEmitted = 0 /\ BeingEmitted' = 0 /\ UNCHANGED <<log, queue>>
      BY <1>5 DEF CastDone, Cast, BeingEmitted
    <2> QED
      BY <1>2, <2>1 DEF EventsInv
  <1> QED
    BY <1>3, <1>4, <1>5 DEF Run

LEMMA EventsNext == IInv /\ EventsInv /\ [Next]_vars => EventsInv'
  <1> SUFFICES ASSUME IInv, EventsInv, [Next]_vars PROVE EventsInv'
    OBVIOUS
  <1>1. CASE UNCHANGED vars
    BY <1>1 DEF vars, hubVars, clientVars, EventsInv, Arrived, Departed, BeingEmitted
  <1> QED
    BY <1>1, ClientEvents, RegisterEvents, UnregisterEvents, RunEvents DEF Next

\* A hub that emits (hub.go:50, 59, 81) stops if, and only if, QueueCap + 1
\* arrivals and departures have not been cast, the one it emits included: one
\* more than the channel holds, since its select last caught up.
THEOREM StoppedByBacklog ==
  Spec => [](hub = "emit" =>
               (HubStopped <=>
                 Cardinality(Arrived) + Cardinality(Departed) = Len(log) + QueueCap + 1))
  <1>1. Init => EventsInv
    <2> SUFFICES ASSUME Init PROVE EventsInv
      OBVIOUS
    <2>1. Arrived = {} /\ Departed = {} /\ BeingEmitted = 0 /\ Len(log) = 0 /\ Len(queue) = 0
      BY DEF Init, Arrived, Departed, BeingEmitted
    <2> QED
      BY <2>1, FS_EmptySet DEF EventsInv
  <1>2. IInv /\ EventsInv =>
          (hub = "emit" =>
             (HubStopped <=>
                Cardinality(Arrived) + Cardinality(Departed) = Len(log) + QueueCap + 1))
    BY EventsTyped DEF IInv, EventsInv, BeingEmitted, HubStopped
  <1> QED
    BY <1>1, <1>2, EventsNext, Invariance, PTL DEF Spec
=============================================================================

----------------------------- MODULE Discovery -----------------------------
(***************************************************************************)
(* The discovery service of one node, `self': every node announces itself  *)
(* by UDP every five seconds, and this one collects whom it hears.  Its    *)
(* loop reads each packet into one buffer and starts a goroutine that      *)
(* parses the buffer, while the loop may already read the next packet into *)
(* it.  What that goroutine then sees is any packet that stood there since *)
(* it was started, a mixture of them with an id that nobody has, no JSON,  *)
(* or JSON that changes between the decoder's two passes, which is a panic *)
(* and ends the process.                                                   *)
(*                                                                         *)
(* Cluster, address and key are the same in all packets that main sends,   *)
(* so a packet is the id of its node.                                      *)
(***************************************************************************)
EXTENDS Naturals, FiniteSets

CONSTANTS
  Nodes, self,
  Torn,        \* ids that are mixtures of others
  Handlers     \* bound: goroutines that have not parsed yet

ASSUME NodesAssumption == self \in Nodes /\ Torn \notin Nodes

VARIABLES
  running,  \* the nodes that run; self may crash
  air,      \* the nodes of which the socket of self holds a packet
  parsing,  \* per goroutine: whose packets the buffer has held since it started
  peers     \* Peers

vars == <<running, air, parsing, peers>>

TypeOK ==
  /\ running \subseteq Nodes
  /\ air \subseteq Nodes
  /\ parsing \in [Handlers -> SUBSET Nodes]
  /\ peers \subseteq (Nodes \ {self}) \cup {Torn}

Nothing == [h \in Handlers |-> {}]

Init ==
  /\ running \in SUBSET Nodes
  /\ air = {}
  /\ parsing = Nothing
  /\ peers = {}

\* broadcast, at a tick; the packet comes through to the socket of self, or
\* UDP loses it and nothing has happened.
Announce(n) ==
  /\ {n, self} \subseteq running
  /\ air' = air \cup {n}
  /\ UNCHANGED <<running, parsing, peers>>

\* ReadFromUDP into the buffer, and go handlePacket.
Read(n) ==
  /\ self \in running
  /\ n \in air
  /\ air' = air \ {n}
  /\ \E h \in Handlers :
       /\ parsing[h] = {}
       /\ parsing' = [g \in Handlers |-> IF parsing[g] # {} \/ g = h
                                         THEN parsing[g] \cup {n} ELSE {}]
  /\ UNCHANGED <<running, peers>>

\* Mutant, unused by the specification: Peers is keyed by the cluster, of which
\* there is one.
MutMeetOne(id) == IF id = self \/ peers # {} THEN peers ELSE {id}

\* An id is new, or its LastSeen is renewed.
Meet(id) == IF id = self THEN peers ELSE peers \cup {id}

Parsed(h, known) ==
  /\ parsing' = [parsing EXCEPT ![h] = {}]
  /\ peers' = known
  /\ UNCHANGED <<running, air>>

\* handlePacket before the next read.
HandleAlone(n) == \E h \in Handlers : parsing[h] = {n} /\ Parsed(h, Meet(n))

\* handlePacket when another packet has come into the buffer.
HandleOverlapped ==
  \E h \in Handlers :
    /\ Cardinality(parsing[h]) > 1
    /\ \/ \E id \in parsing[h] \cup {Torn} : Parsed(h, Meet(id))
       \/ Parsed(h, peers)

\* The service ends: by such a panic, or stopped.  Its memory is gone.
Stop(n) ==
  /\ n \in running
  /\ running' = running \ {n}
  /\ IF n = self THEN parsing' = Nothing /\ peers' = {} /\ air' = {}
     ELSE UNCHANGED <<air, parsing, peers>>

Start(n) ==
  /\ n \notin running
  /\ running' = running \cup {n}
  /\ UNCHANGED <<air, parsing, peers>>

Next ==
  \/ \E n \in Nodes : \/ Announce(n) \/ Read(n) \/ HandleAlone(n)
                      \/ Stop(n) \/ Start(n)
  \/ HandleOverlapped

(***************************************************************************)
(* Tickers fire, goroutines run, and of the packets of a node that is      *)
(* there some get through again and again (WF of Announce), of which now   *)
(* and then one is parsed before the next one comes: microseconds against  *)
(* five seconds.                                                           *)
(***************************************************************************)
Fairness ==
  /\ \A n \in Nodes : WF_vars(Announce(n)) /\ SF_vars(Read(n)) /\ SF_vars(HandleAlone(n))
  /\ WF_vars(HandleOverlapped)

Spec == Init /\ [][Next]_vars /\ Fairness

(***************************************************************************)
(* Once a node and this one run for good, this one comes to know it for    *)
(* good, however many of its packets were lost or overwritten, although    *)
(* nobody is ever forgotten, answered or asked again                       *)
(* (discovery/main.go 69-135).                                             *)
(***************************************************************************)
Discovered ==
  \A n \in Nodes \ {self} :
    <>[]({n, self} \subseteq running) => <>[](n \in peers)
=============================================================================

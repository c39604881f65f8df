---------------------------- MODULE MessageTable ----------------------------
(***************************************************************************)
(* The messages table as those who read it see it fill: SaveMessage takes  *)
(* the timestamp, and the row is inserted some time later.  Rows are never *)
(* changed and never deleted.                                              *)
(***************************************************************************)
EXTENDS Integers, Sequences, FiniteSets

CONSTANTS
  Senders,      \* users, each with at most one message on its way
  MaxMessages,  \* bound: rows
  MaxTime       \* bound: the last instant

ASSUME TableAssumption == MaxMessages \in Nat /\ MaxTime \in Nat

VARIABLES
  now,       \* the clock of the host that all services run on
  exists,    \* whether messaging has created the table
  messages,  \* rows in the order of their rowids
  draft      \* per sender: the row it is about to insert, or NoDraft

tableVars == <<now, exists, messages, draft>>

NoDraft == [ts |-> -1, seen |-> 0]

\* ts is the timestamp; at, when the row came in, and seen, how many rows there
\* were when its timestamp was taken, are history.
Row == [ts : Nat, at : Nat, seen : Nat]

TableTypeOK ==
  /\ now \in 0..MaxTime
  /\ exists \in BOOLEAN
  /\ messages \in Seq(Row)
  /\ draft \in [Senders -> [ts : Nat, seen : Nat] \cup {NoDraft}]

TableInit ==
  /\ now = 0
  /\ exists \in BOOLEAN
  /\ messages = << >>
  /\ draft = [s \in Senders |-> NoDraft]

\* Messaging starts for the first time.
CreateTable ==
  /\ ~ exists
  /\ exists' = TRUE
  /\ UNCHANGED <<now, messages, draft>>

Stamp(s) ==
  /\ exists
  /\ draft[s] = NoDraft
  /\ draft' = [draft EXCEPT ![s] = [ts |-> now, seen |-> Len(messages)]]
  /\ UNCHANGED <<now, exists, messages>>

\* Mutant, unused by the specification: the timestamp rounded down by one.
MutInsert(s) ==
  /\ draft[s] # NoDraft
  /\ Len(messages) < MaxMessages
  /\ messages' = Append(messages, [ts |-> draft[s].ts - 1, at |-> now, seen |-> draft[s].seen])
  /\ draft' = [draft EXCEPT ![s] = NoDraft]
  /\ UNCHANGED <<now, exists>>

Insert(s) ==
  /\ draft[s] # NoDraft
  /\ Len(messages) < MaxMessages
  /\ messages' = Append(messages, [ts |-> draft[s].ts, at |-> now, seen |-> draft[s].seen])
  /\ draft' = [draft EXCEPT ![s] = NoDraft]
  /\ UNCHANGED <<now, exists>>

\* The INSERT fails, and the sender is told so.
InsertFails(s) ==
  /\ draft[s] # NoDraft
  /\ draft' = [draft EXCEPT ![s] = NoDraft]
  /\ UNCHANGED <<now, exists, messages>>

TableNext ==
  \/ CreateTable
  \/ \E s \in Senders : Stamp(s) \/ Insert(s) \/ InsertFails(s)
=============================================================================

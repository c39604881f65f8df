------------------------------ MODULE AuditLog ------------------------------
(***************************************************************************)
(* What the audit service promises to those who report to it: a log that   *)
(* only ever grows at its end, in which every event stands at most once,   *)
(* and an acknowledgement that is given only for an event that stands in   *)
(* the log in full.                                                        *)
(***************************************************************************)
EXTENDS Naturals, Sequences

VARIABLES
  log,     \* the entries, each with the hash of its event and whether whole
  acked    \* the hashes of the events that were acknowledged

Logged == {log[i].hash : i \in 1..Len(log)}
LoggedWhole == {log[i].hash : i \in {j \in 1..Len(log) : log[j].whole}}

Init == log = << >> /\ acked = {}

\* An entry is appended: its event is new to the log.
Record ==
  /\ Len(log') = Len(log) + 1
  /\ \A i \in 1..Len(log) : log'[i] = log[i]
  /\ log'[Len(log) + 1].hash \notin Logged
  /\ UNCHANGED acked

Acknowledge ==
  /\ \E h \in LoggedWhole \ acked : acked' = acked \cup {h}
  /\ UNCHANGED log

Next == Record \/ Acknowledge

Spec == Init /\ [][Next]_<<log, acked>>
=============================================================================

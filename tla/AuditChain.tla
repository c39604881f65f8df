----------------------------- MODULE AuditChain -----------------------------
(***************************************************************************)
(* The audit service: LogHandler chains each event to the one before it    *)
(* through lastHash, kept in memory under a mutex, and appends it to a     *)
(* file that outlives the process.  A write can fail, or stop short, and   *)
(* the process can be restarted at any point.                              *)
(*                                                                         *)
(* SHA-256 is taken to be injective: the hash of an entry is a number no   *)
(* other entry has, and 0 is the genesis hash of 64 zeros.  The clock does *)
(* not run backwards.                                                      *)
(***************************************************************************)
EXTENDS Integers, Sequences

CONSTANTS
  Reqs,       \* the requests that can be in flight together
  MaxEvents,  \* bound: requests of a behaviour
  MaxFaults,  \* bound: failed writes and restarts
  MaxTime     \* bound: the clock

ASSUME AuditAssumption ==
  MaxEvents \in Nat /\ MaxFaults \in Nat /\ MaxTime \in Nat

VARIABLES
  file,      \* what was written, oldest first: whole lines and torn ones
  lastHash,  \* the hash the next event is chained to
  minted,    \* how many hashes were computed
  now,       \* the clock
  pc,        \* where a request is
  event,     \* the event a request is about to write
  acked,     \* the hashes answered with 201
  gaps,      \* history: positions after which a fault breaks the chain
  faults,    \* how many faults there were
  arrived    \* how many requests came to the mutex

vars == <<file, lastHash, minted, now, pc, event, acked, gaps, faults, arrived>>

Genesis == 0

Entry == [hash : Nat, prev : Nat, time : Nat, whole : BOOLEAN]

NoEvent == [hash |-> Genesis, prev |-> Genesis, time |-> 0, whole |-> TRUE]

Inside == {"locked", "chained", "written"}   \* between Lock and Unlock

TypeOK ==
  /\ file \in Seq(Entry)
  /\ lastHash \in Nat
  /\ minted \in Nat
  /\ now \in 0..MaxTime
  /\ pc \in [Reqs -> {"idle", "waiting"} \cup Inside]
  /\ event \in [Reqs -> Entry]
  /\ acked \subseteq Nat
  /\ gaps \subseteq Nat
  /\ faults \in 0..MaxFaults
  /\ arrived \in 0..MaxEvents

Init ==
  /\ file = << >>
  /\ lastHash = Genesis
  /\ minted = 0
  /\ now = 0
  /\ pc = [r \in Reqs |-> "idle"]
  /\ event = [r \in Reqs |-> NoEvent]
  /\ acked = {} /\ gaps = {} /\ faults = 0 /\ arrived = 0

Goto(r, label) == pc' = [pc EXCEPT ![r] = label]

-----------------------------------------------------------------------------
(***************************************************************************)
(* Mutants: what a plausible bug would make of a definition below.  The    *)
(* specification uses none of them; each breaks one property.              *)
(***************************************************************************)

\* The mutex is not taken.
MutLock(r) ==
  /\ pc[r] = "waiting"
  /\ Goto(r, "locked")
  /\ UNCHANGED <<file, lastHash, minted, now, event, acked, gaps, faults, arrived>>

\* A failed write returns without unlocking.
MutUnlocked == faults = 0 /\ \A r \in Reqs : pc[r] \notin Inside

\* The timestamp that the client put into the request is kept.
MutChain(r) ==
  /\ pc[r] = "locked"
  /\ \E t \in 0..now :
       event' = [event EXCEPT ![r] =
                   [hash |-> minted + 1, prev |-> lastHash, time |-> t, whole |-> TRUE]]
  /\ lastHash' = minted + 1
  /\ minted' = minted + 1
  /\ Goto(r, "chained")
  /\ UNCHANGED <<file, now, acked, gaps, faults, arrived>>

\* lastHash starts as Go's zero value: the empty string, which is no hash.
MutRestart ==
  /\ faults < MaxFaults
  /\ faults' = faults + 1
  /\ pc' = [r \in Reqs |-> "idle"]
  /\ lastHash' = -1
  /\ gaps' = gaps \cup {Len(file)}
  /\ UNCHANGED <<file, minted, now, event, acked, arrived>>

\* The error of Write is not looked at.
MutWriteFails(r) ==
  /\ pc[r] = "chained"
  /\ faults < MaxFaults
  /\ faults' = faults + 1
  /\ gaps' = gaps \cup {Len(file)}
  /\ Goto(r, "written")
  /\ UNCHANGED <<file, lastHash, minted, now, event, acked, arrived>>

-----------------------------------------------------------------------------
Unlocked == \A r \in Reqs : pc[r] \notin Inside

\* A request passes the validation and comes to s.mu.Lock.  (One that does not
\* pass is answered 400 and changes nothing.)
Arrive(r) ==
  /\ pc[r] = "idle"
  /\ arrived < MaxEvents
  /\ arrived' = arrived + 1
  /\ Goto(r, "waiting")
  /\ UNCHANGED <<file, lastHash, minted, now, event, acked, gaps, faults>>

Lock(r) ==
  /\ pc[r] = "waiting"
  /\ Unlocked
  /\ Goto(r, "locked")
  /\ UNCHANGED <<file, lastHash, minted, now, event, acked, gaps, faults, arrived>>

\* Timestamp, PrevHash and the new lastHash, before anything is written.
Chain(r) ==
  /\ pc[r] = "locked"
  /\ event' = [event EXCEPT ![r] =
                 [hash |-> minted + 1, prev |-> lastHash, time |-> now, whole |-> TRUE]]
  /\ lastHash' = minted + 1
  /\ minted' = minted + 1
  /\ Goto(r, "chained")
  /\ UNCHANGED <<file, now, acked, gaps, faults, arrived>>

Write(r) ==
  /\ pc[r] = "chained"
  /\ file' = Append(file, event[r])
  /\ Goto(r, "written")
  /\ UNCHANGED <<lastHash, minted, now, event, acked, gaps, faults, arrived>>

\* Write fails: 500, and lastHash stays at the hash of an event that is not in
\* the file, or stands there as a torn line that the next line continues.
WriteFails(r) ==
  /\ pc[r] = "chained"
  /\ faults < MaxFaults
  /\ faults' = faults + 1
  /\ \/ /\ UNCHANGED file
        /\ gaps' = gaps \cup {Len(file)}
     \/ /\ file' = Append(file, [event[r] EXCEPT !.whole = FALSE])
        /\ gaps' = gaps \cup {Len(file), Len(file) + 1, Len(file) + 2}
  /\ Goto(r, "idle")
  /\ UNCHANGED <<lastHash, minted, now, event, acked, arrived>>

\* 201 Created, then the deferred Unlock.
Respond(r) ==
  /\ pc[r] = "written"
  /\ acked' = acked \cup {event[r].hash}
  /\ Goto(r, "idle")
  /\ UNCHANGED <<file, lastHash, minted, now, event, gaps, faults, arrived>>

\* NewAuditService of the next process: genesis again, on the same file.
Restart ==
  /\ faults < MaxFaults
  /\ faults' = faults + 1
  /\ pc' = [r \in Reqs |-> "idle"]
  /\ lastHash' = Genesis
  /\ gaps' = gaps \cup {Len(file)}
  /\ UNCHANGED <<file, minted, now, event, acked, arrived>>

Tick ==
  /\ now < MaxTime
  /\ now' = now + 1
  /\ UNCHANGED <<file, lastHash, minted, pc, event, acked, gaps, faults, arrived>>

Handler(r) == Lock(r) \/ Chain(r) \/ Write(r) \/ WriteFails(r) \/ Respond(r)

Next == Tick \/ Restart \/ \E r \in Reqs : Arrive(r) \/ Handler(r)

Spec == Init /\ [][Next]_vars

\* The scheduler runs every goroutine that can run, and Go's mutex is handed
\* over in turn.
FairSpec == Spec /\ \A r \in Reqs : WF_vars(Handler(r))

-----------------------------------------------------------------------------
(***************************************************************************)
(* Properties                                                              *)
(***************************************************************************)

\* A verifier can read line i: it is whole, and does not continue a torn one.
Readable(i) == file[i].whole /\ (i > 1 => file[i-1].whole)

Linked(i) == file[i+1].prev = file[i].hash

(***************************************************************************)
(* LogHandler chains under the mutex, so that two neighbouring lines are   *)
(* readable and linked, however the requests overlap, unless the service   *)
(* was restarted or a write failed between them.                           *)
(***************************************************************************)
BreaksExplained ==
  \A i \in 1..(Len(file) - 1) :
    i \notin gaps => Readable(i) /\ Readable(i+1) /\ Linked(i)

(***************************************************************************)
(* The timestamp is taken under the mutex (main.go:194): the lines of the  *)
(* file are in the order of their timestamps.                              *)
(***************************************************************************)
Chronological ==
  \A i, j \in 1..Len(file) : i < j => file[i].time <= file[j].time

(***************************************************************************)
(* LogHandler implements the append-only log with honest acknowledgements. *)
(***************************************************************************)
Log == INSTANCE AuditLog WITH log <- file

ImplementsLog == Log!Spec

(***************************************************************************)
(* Every request that reaches the mutex is answered, also after writes     *)
(* failed (the deferred Unlock).                                           *)
(***************************************************************************)
Answered == \A r \in Reqs : pc[r] = "waiting" ~> pc[r] = "idle"

(***************************************************************************)
(* docs/compliance/compliance-logging.md:56: each entry's hash is compared *)
(* "with next entry's prev_hash; break indicates tampering".  Nobody       *)
(* tampers here, and yet a restart breaks the chain.                       *)
(***************************************************************************)
ChainVerifies == \A i \in 1..(Len(file) - 1) : Linked(i)
=============================================================================

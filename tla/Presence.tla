------------------------------ MODULE Presence ------------------------------
(***************************************************************************)
(* The presence service: heartbeats that write a user's row, a loop that   *)
(* sets rows without heartbeats offline, and a query that does the same    *)
(* for what it answers.                                                    *)
(*                                                                         *)
(* Each handler reads the clock and runs one SQL statement, the heartbeat  *)
(* and the loop in this order, the query in the other; anything may happen *)
(* in between.  Times are kept as ages in whole seconds, as Unix() leaves  *)
(* them.  An age of Old stands for that age and all greater ones.          *)
(***************************************************************************)
EXTENDS Naturals

CONSTANTS
  Users,
  Statuses,   \* what a heartbeat may say, "offline" among it
  Beats,      \* heartbeats being handled at one time
  None,       \* no row
  Minute,     \* after how many seconds a user counts as offline
  MaxDelay,   \* bound: seconds between a handler's clock and its statement
  MaxFaults   \* bound: failing statements and restarts

ASSUME PresenceAssumption ==
  /\ "offline" \in Statuses
  /\ None \notin [status : Statuses, age : Nat]
  /\ Minute \in Nat \ {0}
  /\ MaxDelay \in Nat
  /\ MaxFaults \in Nat

Old == Minute + MaxDelay + 1
Ages == 0..Old
Older(a) == IF a < Old THEN a + 1 ELSE Old

VARIABLES
  row,      \* user_presence: a status and the age of last_seen
  beat,     \* a heartbeat between its clock and its upsert
  sweep,    \* the age of the clean-up loop's clock before its UPDATE
  query,    \* what /status read, before it looks at the clock
  answer,   \* the last answer of /status
  faults,
  heard     \* history: the age of the newest stored heartbeat of each kind

vars == <<row, beat, sweep, query, answer, faults, heard>>

Row == [status : Statuses, age : Ages]
Beat == [user : Users, status : Statuses, age : 0..MaxDelay]
Query == [user : Users, status : Statuses, age : Ages]

\* Types, and a query always has something to answer.
TypeOK ==
  /\ row \in [Users -> Row \cup {None}]
  /\ beat \in [Beats -> Beat \cup {None}]
  /\ sweep \in 0..MaxDelay \cup {None}
  /\ query \in Query \cup {None}
  /\ answer \in [user : Users, status : Statuses] \cup {None}
  /\ faults \in 0..MaxFaults
  /\ heard \in [Users -> [Statuses -> Ages]]

\* The table may be new, or hold what was said long ago.
Init ==
  /\ row \in [Users -> [status : Statuses, age : {Old}] \cup {None}]
  /\ beat = [b \in Beats |-> None]
  /\ sweep = None
  /\ query = None
  /\ answer = None
  /\ faults = 0
  /\ heard = [u \in Users |-> [s \in Statuses |-> Old]]

\* A second passes.  Statements do not take longer than MaxDelay.
Tick ==
  /\ \A b \in Beats : beat[b] # None => beat[b].age < MaxDelay
  /\ sweep # None => sweep < MaxDelay
  /\ row' = [u \in Users |->
       IF row[u] = None THEN None ELSE [row[u] EXCEPT !.age = Older(@)]]
  /\ beat' = [b \in Beats |->
       IF beat[b] = None THEN None ELSE [beat[b] EXCEPT !.age = @ + 1]]
  /\ sweep' = IF sweep = None THEN None ELSE sweep + 1
  /\ query' = IF query = None THEN None ELSE [query EXCEPT !.age = Older(@)]
  /\ heard' = [u \in Users |-> [s \in Statuses |-> Older(heard[u][s])]]
  /\ answer' = None
  /\ UNCHANGED faults

-----------------------------------------------------------------------------
(***************************************************************************)
(* Mutants: what a plausible bug would make of a definition below.  The    *)
(* specification uses none of them.                                        *)
(***************************************************************************)

\* The conflict clause forgets the status.
MutUpsert(b) ==
  /\ beat[b] # None
  /\ LET u == beat[b].user IN
     /\ row' = [row EXCEPT ![u] =
          [status |-> IF row[u] = None THEN beat[b].status ELSE row[u].status,
           age |-> beat[b].age]]
     /\ heard' = [heard EXCEPT ![u][beat[b].status] = IF beat[b].age < @ THEN beat[b].age ELSE @]
  /\ beat' = [beat EXCEPT ![b] = None]
  /\ UNCHANGED <<sweep, query, answer, faults>>

\* Only users who are online are set offline, not those busy.
MutSweep ==
  /\ sweep # None
  /\ row' = [u \in Users |->
       IF row[u] # None /\ row[u].age > sweep + Minute /\ row[u].status = "online"
       THEN [row[u] EXCEPT !.status = "offline"] ELSE row[u]]
  /\ sweep' = None
  /\ UNCHANGED <<beat, query, answer, faults, heard>>

\* A missing row is not looked for.
MutSelect(u) ==
  /\ query = None
  /\ query' = [user |-> u,
               status |-> IF row[u] = None THEN None ELSE row[u].status,
               age |-> IF row[u] = None THEN Old ELSE row[u].age]
  /\ answer' = None
  /\ UNCHANGED <<row, beat, sweep, faults, heard>>

\* The answer is left to the clean-up loop.
MutAnswer ==
  /\ query # None
  /\ answer' = [user |-> query.user, status |-> query.status]
  /\ query' = None
  /\ UNCHANGED <<row, beat, sweep, faults, heard>>

-----------------------------------------------------------------------------
(***************************************************************************)
(* HeartbeatHandler                                                        *)
(***************************************************************************)

\* The body is decoded and the clock read.
Heartbeat(b, u, s) ==
  /\ beat[b] = None
  /\ beat' = [beat EXCEPT ![b] = [user |-> u, status |-> s, age |-> 0]]
  /\ UNCHANGED <<row, sweep, query, answer, faults, heard>>

\* The row gets the status and the time, whatever it had: an older heartbeat
\* that comes late takes the place of a newer one.
Upsert(b) ==
  /\ beat[b] # None
  /\ LET u == beat[b].user IN
     /\ row' = [row EXCEPT ![u] = [status |-> beat[b].status, age |-> beat[b].age]]
     /\ heard' = [heard EXCEPT ![u][beat[b].status] = IF beat[b].age < @ THEN beat[b].age ELSE @]
  /\ beat' = [beat EXCEPT ![b] = None]
  /\ UNCHANGED <<sweep, query, answer, faults>>

\* A database error: 500.
UpsertFails(b) ==
  /\ beat[b] # None
  /\ faults < MaxFaults
  /\ faults' = faults + 1
  /\ beat' = [beat EXCEPT ![b] = None]
  /\ UNCHANGED <<row, sweep, query, answer, heard>>

-----------------------------------------------------------------------------
(***************************************************************************)
(* CleanupLoop                                                             *)
(***************************************************************************)

\* The ticker fires and the cutoff is computed.
SweepBegin ==
  /\ sweep = None
  /\ sweep' = 0
  /\ UNCHANGED <<row, beat, query, answer, faults, heard>>

Sweep ==
  /\ sweep # None
  /\ row' = [u \in Users |->
       IF row[u] # None /\ row[u].age > sweep + Minute
       THEN [row[u] EXCEPT !.status = "offline"] ELSE row[u]]
  /\ sweep' = None
  /\ UNCHANGED <<beat, query, answer, faults, heard>>

\* The error is not looked at; the next tick tries again.
SweepFails ==
  /\ sweep # None
  /\ faults < MaxFaults
  /\ faults' = faults + 1
  /\ sweep' = None
  /\ UNCHANGED <<row, beat, query, answer, heard>>

-----------------------------------------------------------------------------
(***************************************************************************)
(* StatusHandler                                                           *)
(***************************************************************************)

\* A user without a row was last seen in 1970.
Select(u) ==
  /\ query = None
  /\ query' = [user |-> u,
               status |-> IF row[u] = None THEN "offline" ELSE row[u].status,
               age |-> IF row[u] = None THEN Old ELSE row[u].age]
  /\ answer' = None
  /\ UNCHANGED <<row, beat, sweep, faults, heard>>

\* At an age of just a Minute in whole seconds, the fraction that Unix() cut
\* off decides.
Answer ==
  /\ query # None
  /\ \E s \in {query.status, "offline"} :
       /\ query.age > Minute => s = "offline"
       /\ query.age < Minute => s = query.status
       /\ answer' = [user |-> query.user, status |-> s]
  /\ query' = None
  /\ UNCHANGED <<row, beat, sweep, faults, heard>>

\* A database error: 500.
SelectFails ==
  /\ query # None
  /\ faults < MaxFaults
  /\ faults' = faults + 1
  /\ query' = None
  /\ UNCHANGED <<row, beat, sweep, answer, heard>>

\* The process ends and starts again on the same table.
Restart ==
  /\ faults < MaxFaults
  /\ faults' = faults + 1
  /\ beat' = [b \in Beats |-> None]
  /\ sweep' = None
  /\ query' = None
  /\ answer' = None
  /\ UNCHANGED <<row, heard>>

Next ==
  \/ Tick
  \/ \E b \in Beats :
       \/ \E u \in Users, s \in Statuses : Heartbeat(b, u, s)
       \/ Upsert(b) \/ UpsertFails(b)
  \/ SweepBegin \/ Sweep \/ SweepFails
  \/ \E u \in Users : Select(u)
  \/ Answer \/ SelectFails
  \/ Restart

Spec == Init /\ [][Next]_vars

(***************************************************************************)
(* Time passes, statements come to an end and the ticker keeps firing.     *)
(***************************************************************************)
FairSpec ==
  /\ Spec
  /\ WF_vars(Tick)
  /\ \A b \in Beats : WF_vars(Upsert(b))
  /\ WF_vars(SweepBegin) /\ WF_vars(Sweep)

-----------------------------------------------------------------------------
(***************************************************************************)
(* Properties                                                              *)
(***************************************************************************)

(***************************************************************************)
(* A row is what the user said last (HeartbeatHandler, main.go:131-140),   *)
(* but for heartbeats that overtook each other, and those lie no further   *)
(* apart than a statement may be late; or it was swept, and then nothing   *)
(* was heard for a minute less that delay (CleanupLoop, 191-195).          *)
(***************************************************************************)
RowIsLastSaid ==
  \A u \in Users : row[u] # None =>
    \/ \A s \in Statuses : heard[u][row[u].status] <= heard[u][s] + MaxDelay
    \/ row[u].status = "offline" /\ \A s \in Statuses : heard[u][s] + MaxDelay > Minute

(***************************************************************************)
(* Whom /status shows as present (main.go:173-177) said so within the last *)
(* minute, however long ago the row was read and whatever the clean-up     *)
(* loop did.                                                               *)
(***************************************************************************)
ShownWasSaid ==
  answer # None /\ answer.status # "offline" => heard[answer.user][answer.status] <= Minute

(***************************************************************************)
(* A user who falls silent is offline in the table after a while and       *)
(* stays so (CleanupLoop, main.go:188-197).                                *)
(***************************************************************************)
Silent(u) == \A b \in Beats : beat[b] # None => beat[b].user # u

SilentGoesOffline ==
  \A u \in Users :
    <>[]Silent(u) => <>[](row[u] # None => row[u].status = "offline")
=============================================================================

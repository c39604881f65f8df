------------------------------ MODULE Overview ------------------------------
(***************************************************************************)
(* /admin/monitoring/overview: a number of counts, each by a SELECT of its *)
(* own while messages come in, kept for Ttl in a cache whose lock is not   *)
(* held while they are counted.  The counts of messages are told apart;    *)
(* those of nodes, users and files, which are independent of them, are the *)
(* time that passes before and after.                                      *)
(***************************************************************************)
EXTENDS MessageTable

CONSTANTS
  Reqs,                \* overview requests at one time
  Hour, Day,           \* the windows of the counts
  Ttl,                 \* 5 seconds
  MaxBuild             \* bound: how long a request may take to count

ASSUME OverviewAssumption ==
  /\ {Hour, Day, Ttl, MaxBuild} \subseteq Nat
  /\ Hour <= Day

VARIABLES
  cache,  \* overviewCache: value and expiresAt
  req     \* per request: where it is, its clock readings, what it counted
          \* (and, as history, whether one of its SELECTs failed: fault)

overviewVars == <<cache, req>>

Counts == {"hour", "day", "total"}
Zero == [c \in Counts |-> 0]
Stages == {"idle", "check", "cutoff", "store"} \cup Counts
Building == Stages \ {"idle", "check"}
\* since is when the request came in and, once it counts, when it began to.
Idle == [pc |-> "idle", since |-> 0, cut |-> 0, got |-> Zero, fault |-> "none"]

Faults == {"none", "select"}
Requests == [pc : Stages, since : 0..now, cut : 0..now, got : [Counts -> Nat], fault : Faults]

OverviewTypeOK ==
  /\ cache \in [value : [Counts -> Nat], expires : Nat, fault : Faults]
  /\ req \in [Reqs -> Requests]

OverviewInit ==
  /\ cache = [value |-> Zero, expires |-> 0, fault |-> "none"]
  /\ req = [r \in Reqs |-> Idle]

\* What is left to MaxBuild is how long the SELECTs of one request take.
Tick ==
  /\ now < MaxTime
  /\ \A r \in Reqs : req[r].pc \in Building => now < req[r].since + MaxBuild
  /\ now' = now + 1
  /\ UNCHANGED <<exists, messages, draft>>

Rows(since) == {i \in 1..Len(messages) : messages[i].ts >= since}

-----------------------------------------------------------------------------
(***************************************************************************)
(* Mutants: what a plausible bug would make of a definition below.  The    *)
(* specification uses none of them.                                        *)
(***************************************************************************)

\* An entry that has just expired is still good, although its time was read
\* before the lock.
MutHit(r) ==
  /\ req[r].pc = "check"
  /\ req[r].since <= cache.expires
  /\ req' = [req EXCEPT ![r] = Idle]
  /\ UNCHANGED cache

\* The day is counted before the hour.
MutAfter(stage) ==
  CASE stage = "cutoff" -> "day" [] stage = "day" -> "hour"
    [] stage = "hour" -> "total" [] stage = "total" -> "store"

-----------------------------------------------------------------------------
Arrive(r) ==
  /\ req[r].pc = "idle"
  /\ req' = [req EXCEPT ![r] = [Idle EXCEPT !.pc = "check", !.since = now]]
  /\ UNCHANGED cache

\* Under the lock, with the time read before it.
Hit(r) ==
  /\ req[r].pc = "check"
  /\ req[r].since < cache.expires
  /\ req' = [req EXCEPT ![r] = Idle]
  /\ UNCHANGED cache

Miss(r) ==
  /\ req[r].pc = "check"
  /\ req[r].since >= cache.expires
  /\ req' = [req EXCEPT ![r] = [Idle EXCEPT !.pc = "cutoff", !.since = now]]
  /\ UNCHANGED cache

\* The order of buildOverview.
After(stage) ==
  CASE stage = "cutoff" -> "hour" [] stage = "hour" -> "day"
    [] stage = "day" -> "total" [] stage = "total" -> "store"

CountOf(r) ==
  CASE req[r].pc = "hour"  -> Cardinality(Rows(req[r].cut - Hour))
    [] req[r].pc = "day"   -> Cardinality(Rows(req[r].cut - Day))
    [] req[r].pc = "total" -> Len(messages)

\* One SELECT.
Select(r) ==
  /\ req[r].pc \in Counts
  /\ LET counted == [req[r].got EXCEPT ![req[r].pc] = CountOf(r)] IN
     req' = [req EXCEPT ![r] = [@ EXCEPT !.pc = After(req[r].pc), !.got = counted]]
  /\ UNCHANGED cache

\* Its error is not looked at, and the count stays zero.  What such a request
\* counts otherwise is not told apart, and only its time is kept.
SelectFails(r) ==
  /\ req[r].pc \in Counts
  /\ req' = [req EXCEPT ![r] = [@ EXCEPT !.pc = "store", !.got = Zero, !.fault = "select"]]
  /\ UNCHANGED cache

\* Both cutoffs are taken before the first of the three counts.
Cutoff(r) ==
  /\ req[r].pc = "cutoff"
  /\ exists
  /\ req' = [req EXCEPT ![r] = [@ EXCEPT !.pc = After(req[r].pc), !.cut = now]]
  /\ UNCHANGED cache

\* Without the table the audit log is searched for actions about messages, of
\* which the admin API has none.  An error of tableExists is taken for that.
NoMessages(r) ==
  /\ req[r].pc = "cutoff"
  /\ req' = [req EXCEPT ![r] = [@ EXCEPT !.pc = "store", !.fault = IF exists THEN "select" ELSE "none"]]
  /\ UNCHANGED cache

\* Under the lock again, and the answer: the last to finish overwrites what the
\* others stored.
Store(r) ==
  /\ req[r].pc = "store"
  /\ cache' = [value |-> req[r].got, expires |-> now + Ttl, fault |-> req[r].fault]
  /\ req' = [req EXCEPT ![r] = Idle]

OverviewNext ==
  \E r \in Reqs : \/ Arrive(r) \/ Hit(r) \/ Miss(r) \/ Select(r) \/ SelectFails(r)
                  \/ Cutoff(r) \/ NoMessages(r) \/ Store(r)

-----------------------------------------------------------------------------
(***************************************************************************)
(* Properties                                                              *)
(***************************************************************************)

(***************************************************************************)
(* What an overview says of one hour, one day and all time can be true     *)
(* together, although each was counted at a time of its own while messages *)
(* came in: both windows end at one time, and they grow in the order of    *)
(* the SELECTs.  Only a SELECT that failed breaks this                     *)
(* (monitoring/handler.go 212-224).                                        *)
(***************************************************************************)
Possible(v) == v.hour <= v.day /\ v.day <= v.total
CountsNested ==
  /\ cache.fault = "none" => Possible(cache.value)
  /\ \A r \in Reqs : req[r].pc = "store" /\ req[r].fault = "none" => Possible(req[r].got)

(***************************************************************************)
(* However requests overlap and overwrite one another's entry, an answer   *)
(* from the cache counts every message that was stored a Ttl and the time  *)
(* of one count before the request came in, and a fresh one every message  *)
(* stored before it began to count, unless a SELECT failed (266-284).      *)
(***************************************************************************)
StoredBy(t) == Cardinality({i \in 1..Len(messages) : messages[i].at <= t})
Fresh ==
  [][ \A r \in Reqs : req'[r].pc = "idle" =>
        /\ req[r].pc = "check" /\ cache.fault = "none" =>
             cache.value.total >= StoredBy(req[r].since - Ttl - MaxBuild)
        /\ req[r].pc = "store" /\ req[r].fault = "none" =>
             req[r].got.total >= StoredBy(req[r].since - 1) ]_<<tableVars, overviewVars>>
=============================================================================

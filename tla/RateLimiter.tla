----------------------------- MODULE RateLimiter -----------------------------
(***************************************************************************)
(* The rate limiter that auth, audit, cluster and filetransfer put before  *)
(* their handlers: per client address the times of the requests it let     *)
(* through, those of the last window at most `Limit'.                      *)
(*                                                                         *)
(* The four copies of Allow differ in one line.  Auth, audit and cluster   *)
(* read the clock before they take the lock, so that a request may decide  *)
(* with a time older than that of one that overtook it; filetransfer reads *)
(* it under the lock.  `variant' says which copy this is.                  *)
(*                                                                         *)
(* Allow is one critical section, in which nothing but the clock moves.  A *)
(* service that stops and starts again has forgotten all of it.            *)
(***************************************************************************)
EXTENDS Integers, Sequences, FiniteSets

CONSTANTS
  Reqs,        \* requests being handled at one time
  Ips,         \* addresses of clients
  Limit,       \* 60 for auth, 120 for audit and cluster, 45 for filetransfer
  Window,      \* a minute
  Variants,    \* the copies of Allow to consider
  MaxDelay,    \* bound: how long a request may wait between clock and lock
  MaxTime,     \* bound: the last instant
  MaxRequests, \* bound: requests in all
  MaxRestarts  \* bound: restarts that make the limiter forget an address

ASSUME LimiterAssumption ==
  /\ Limit \in Nat \ {0}
  /\ Window \in Nat
  /\ Variants \subseteq {"clockFirst", "lockFirst"}
  /\ MaxDelay \in Nat
  /\ MaxTime \in Nat
  /\ MaxRequests \in Nat
  /\ MaxRestarts \in Nat

VARIABLES
  variant,
  now,        \* the clock
  hits,       \* l.hits
  pc,         \* where a request is in withRequestTrace
  ip,         \* its address
  stamp,      \* `now' of its call of Allow
  requests,   \* requests so far
  passed,     \* history: when each address was let through, on the real clock
  restarts    \* history: after how many of these the service started again

vars == <<variant, now, hits, pc, ip, stamp, requests, passed, restarts>>

\* Types, and no address has more hits than the limit.
TypeOK ==
  /\ variant \in Variants
  /\ now \in Nat
  /\ hits \in [Ips -> Seq(Nat)]
  /\ \A a \in Ips : Len(hits[a]) <= Limit
  /\ pc \in [Reqs -> {"idle", "wait", "handle", "refuse"}]
  /\ ip \in [Reqs -> Ips]
  /\ stamp \in [Reqs -> 0..now]
  /\ requests \in Nat
  /\ passed \in [Ips -> Seq(Nat)]
  /\ restarts \in [Ips -> SUBSET Nat]

Init ==
  /\ variant \in Variants
  /\ now = 0
  /\ hits = [a \in Ips |-> << >>]
  /\ pc = [r \in Reqs |-> "idle"]
  /\ ip \in [Reqs -> Ips]
  /\ stamp = [r \in Reqs |-> 0]
  /\ requests = 0
  /\ passed = [a \in Ips |-> << >>]
  /\ restarts = [a \in Ips |-> {}]

\* The clock moves.  MaxDelay is the only thing that keeps a request that read
\* it before the lock from being arbitrarily late.
Tick ==
  /\ now < MaxTime
  /\ variant = "clockFirst" => \A r \in Reqs : pc[r] = "wait" => now < stamp[r] + MaxDelay
  /\ now' = now + 1
  /\ UNCHANGED <<variant, hits, pc, ip, stamp, requests, passed, restarts>>

\* A request comes in from a: with the clock first, it reads it here.
Arrive(r, a) ==
  /\ pc[r] = "idle"
  /\ requests < MaxRequests
  /\ pc' = [pc EXCEPT ![r] = "wait"]
  /\ ip' = [ip EXCEPT ![r] = a]
  /\ stamp' = [stamp EXCEPT ![r] = now]
  /\ requests' = requests + 1
  /\ UNCHANGED <<variant, now, hits, passed, restarts>>

-----------------------------------------------------------------------------
(***************************************************************************)
(* Mutants: what a plausible bug would make of a definition below.  The    *)
(* specification uses none of them.                                        *)
(***************************************************************************)

\* The window is closed one instant early.
MutStale(list, i, t) ==
  /\ \A j \in 1..i : list[j] <= t - Window
  /\ i < Len(list) => list[i + 1] > t - Window

\* A refused request takes the place of the oldest hit.
MutRefuse(r, list) ==
  /\ Len(list) >= Limit
  /\ hits' = [hits EXCEPT ![ip[r]] = Append(Tail(list), now)]
  /\ pc' = [pc EXCEPT ![r] = "refuse"]
  /\ UNCHANGED passed

\* One too many is let through.
MutLetThrough(r, list, t) ==
  /\ Len(list) <= Limit
  /\ hits' = [hits EXCEPT ![ip[r]] = Append(list, t)]
  /\ pc' = [pc EXCEPT ![r] = "handle"]
  /\ passed' = [passed EXCEPT ![ip[r]] = Append(@, now)]

-----------------------------------------------------------------------------
(***************************************************************************)
(* Allow                                                                   *)
(***************************************************************************)

\* The first i hits are those that stand before the first one in the window
\* that ends at t.  An older hit behind that one stays.
Stale(list, i, t) ==
  /\ \A j \in 1..i : list[j] < t - Window
  /\ i < Len(list) => list[i + 1] >= t - Window

Refuse(r, list) ==
  /\ Len(list) >= Limit
  /\ hits' = [hits EXCEPT ![ip[r]] = list]
  /\ pc' = [pc EXCEPT ![r] = "refuse"]
  /\ UNCHANGED passed

LetThrough(r, list, t) ==
  /\ Len(list) < Limit
  /\ hits' = [hits EXCEPT ![ip[r]] = Append(list, t)]
  /\ pc' = [pc EXCEPT ![r] = "handle"]
  /\ passed' = [passed EXCEPT ![ip[r]] = Append(@, now)]

\* What stands between Lock and Unlock, for a call whose `now' is t.
Decide(r, t) ==
  \E i \in 0..Len(hits[ip[r]]) :
    LET list == SubSeq(hits[ip[r]], i + 1, Len(hits[ip[r]])) IN
    /\ Stale(hits[ip[r]], i, t)
    /\ Refuse(r, list) \/ LetThrough(r, list, t)

\* Auth, audit, cluster: the time is the one read before the lock.
AllowClockFirst(r) ==
  /\ variant = "clockFirst"
  /\ pc[r] = "wait"
  /\ Decide(r, stamp[r])
  /\ UNCHANGED <<variant, now, ip, stamp, requests, restarts>>

\* Filetransfer: the clock is read under the lock.
AllowLockFirst(r) ==
  /\ variant = "lockFirst"
  /\ pc[r] = "wait"
  /\ stamp' = [stamp EXCEPT ![r] = now]
  /\ Decide(r, now)
  /\ UNCHANGED <<variant, now, ip, requests, restarts>>

\* 429, or the handler's own answer.
Finish(r) ==
  /\ pc[r] \in {"handle", "refuse"}
  /\ pc' = [pc EXCEPT ![r] = "idle"]
  /\ UNCHANGED <<variant, now, hits, ip, stamp, requests, passed, restarts>>

\* The service stops anywhere and starts again: its limiter is a new one, which
\* has forgotten whom the old one let through.
Restart ==
  /\ hits' = [a \in Ips |-> << >>]
  /\ pc' = [r \in Reqs |-> "idle"]
  /\ restarts' = [a \in Ips |-> restarts[a] \cup ({Len(passed[a])} \ {0})]
  /\ \A a \in Ips : Cardinality(restarts'[a]) <= MaxRestarts
  /\ UNCHANGED <<variant, now, ip, stamp, requests, passed>>

Next ==
  \/ Tick
  \/ \E r \in Reqs :
       \/ \E a \in Ips : Arrive(r, a)
       \/ AllowClockFirst(r) \/ AllowLockFirst(r) \/ Finish(r)
  \/ Restart

Spec == Init /\ [][Next]_vars

-----------------------------------------------------------------------------
(***************************************************************************)
(* Properties                                                              *)
(***************************************************************************)

\* How late a decision's time can be.
Lateness == IF variant = "clockFirst" THEN MaxDelay ELSE 0

(***************************************************************************)
(* Any Limit + 1 requests that one address got through (auth 68-90) lie    *)
(* more than a window apart on the real clock, less the time that a        *)
(* request waited for the lock with an old clock reading: what             *)
(* filetransfer (58-79) promises exactly, the others promise so much less. *)
(* The one exception is a service that started again between them, which   *)
(* has forgotten the first of them and lets Limit more through.            *)
(***************************************************************************)
Forgotten(a, i, n) == \E k \in restarts[a] : i <= k /\ k < n

SlidingLimit ==
  \A a \in Ips : \A n \in (Limit + 1)..Len(passed[a]) :
    \/ passed[a][n] - passed[a][n - Limit] > Window - Lateness
    \/ Forgotten(a, n - Limit, n)

(***************************************************************************)
(* A request is refused only if its address got Limit requests through     *)
(* since the service started, within the window that ends at the request's *)
(* own time: neither refused requests nor other addresses nor the stale    *)
(* hits that stay behind a newer one count against it (auth 76-86).        *)
(***************************************************************************)
FullFor(a, t) ==
  LET oldest == Len(passed[a]) - Limit + 1 IN
  /\ oldest >= 1
  /\ passed[a][oldest] >= t - Window
  /\ \A k \in restarts[a] : k < oldest

RefusedWhenFull ==
  [][ \A r \in Reqs :
        pc[r] = "wait" /\ pc'[r] = "refuse" => FullFor(ip[r], stamp'[r]) ]_vars
=============================================================================

------------------------- MODULE RateLimiterProofs -------------------------
(***************************************************************************)
(* Proofs about RateLimiter, for any limit, window, delay and number of    *)
(* requests and addresses; then about FileTransfer, the handlers behind    *)
(* one of its copies, for any number of file ids and any ReadTimeout.      *)
(***************************************************************************)
EXTENDS FileTransfer, FiniteSetTheorems, FunctionTheorems, TLAPS

-----------------------------------------------------------------------------
(***************************************************************************)
(* The inductive invariant, in parts.                                      *)
(***************************************************************************)

\* How many of the requests that a got through are no longer in its hits.
Gone(a) == Len(passed[a]) - Len(hits[a])

\* A waiting request's time is not later than the clock, and late by Lateness
\* at most.
WaitInv ==
  variant = "clockFirst" => \A r \in Reqs : pc[r] = "wait" => now <= stamp[r] + MaxDelay

\* The hits are the times of the last requests that got through, each read
\* before its request did and at most Lateness before.
HitsInv ==
  \A a \in Ips :
    /\ Len(hits[a]) <= Len(passed[a])
    /\ \A k \in 1..Len(hits[a]) :
         /\ hits[a][k] <= passed[a][Gone(a) + k]
         /\ passed[a][Gone(a) + k] <= hits[a][k] + Lateness

\* The j-th request that a got through is past, by a window less Lateness, or
\* was let through before a restart.
Left(a, j) ==
  \/ passed[a][j] + Window < now + Lateness
  \/ \E k \in restarts[a] : j <= k

\* What is no longer in the hits is past or forgotten.
GoneInv == \A a \in Ips : \A j \in 1..Gone(a) : Left(a, j)

\* What was let through before a restart is no longer in the hits.
RestartsInv == \A a \in Ips : \A k \in restarts[a] : k <= Gone(a)

IInv == TypeOK /\ WaitInv /\ HitsInv /\ GoneInv /\ RestartsInv /\ SlidingLimit

-----------------------------------------------------------------------------
USE LimiterAssumption

LEMMA LatenessType == ASSUME TypeOK PROVE Lateness \in Nat
  BY DEF TypeOK, Lateness

\* Every place of a list of times holds a time.
LEMMA IsTime == ASSUME NEW q \in Seq(Nat), NEW k \in 1..Len(q) PROVE q[k] \in Nat
  OBVIOUS

\* What a sequence holds after a time was added to it.
LEMMA AddTime ==
  ASSUME NEW q \in Seq(Nat), NEW e \in Nat
  PROVE  /\ Append(q, e) \in Seq(Nat)
         /\ Len(q) \in Nat
         /\ Len(Append(q, e)) = Len(q) + 1
         /\ \A k \in 1..Len(q) : Append(q, e)[k] = q[k]
         /\ Append(q, e)[Len(q) + 1] = e
  OBVIOUS

\* list is q without its first i elements.
IsRest(list, q, i) ==
  /\ Len(list) = Len(q) - i
  /\ \A k \in 1..(Len(q) - i) : list[k] = q[i + k]

LEMMA Rest ==
  ASSUME NEW q \in Seq(Nat), NEW i \in 0..Len(q)
  PROVE  /\ SubSeq(q, i + 1, Len(q)) \in Seq(Nat)
         /\ IsRest(SubSeq(q, i + 1, Len(q)), q, i)
  BY DEF IsRest

\* The specification starts in the invariant.
LEMMA InitInv == Init => IInv
  <1> SUFFICES ASSUME Init PROVE IInv
    OBVIOUS
  <1>1. TypeOK
    BY DEF Init, TypeOK
  <1>2. WaitInv
    BY DEF Init, WaitInv
  <1>3. HitsInv /\ GoneInv /\ RestartsInv /\ SlidingLimit
    BY DEF Init, HitsInv, GoneInv, RestartsInv, Gone, SlidingLimit
  <1> QED
    BY <1>1, <1>2, <1>3 DEF IInv

\* A step that lets nobody through keeps SlidingLimit.
LEMMA SlidingStays ==
  ASSUME SlidingLimit, UNCHANGED <<variant, passed, restarts>>
  PROVE  SlidingLimit'
  BY DEF SlidingLimit, Lateness, Forgotten

\* The clock moves on, for a waiting request no further than it may.
LEMMA TickStep ==
  ASSUME IInv, Tick
  PROVE  IInv'
  <1> USE DEF IInv, Tick
  <1>1. TypeOK'
    BY DEF TypeOK
  <1>2. WaitInv'
    BY DEF WaitInv, TypeOK
  <1>3. HitsInv'
    BY DEF HitsInv, Gone, Lateness
  <1>4. GoneInv'
    <2> SUFFICES ASSUME NEW a \in Ips, NEW j \in 1..Gone(a)
                 PROVE \/ passed[a][j] + Window < now + 1 + Lateness
                       \/ \E k \in restarts[a] : j <= k
      BY DEF GoneInv, Gone, Lateness, Left
    <2>1. Left(a, j)
      BY DEF GoneInv
    <2>2. Len(passed[a]) \in Nat /\ Len(hits[a]) \in Nat /\ Gone(a) <= Len(passed[a])
      BY DEF TypeOK, Gone
    <2>3. passed[a][j] \in Nat
      BY <2>2 DEF TypeOK, Gone
    <2> QED
      BY <2>1, <2>3, LatenessType DEF TypeOK, Left
  <1>5. RestartsInv'
    BY DEF RestartsInv, Gone
  <1> QED
    BY <1>1, <1>2, <1>3, <1>4, <1>5, SlidingStays

\* A step that moves neither the clock nor what the limiter knows keeps what is
\* said of these.
LEMMA LimiterStays ==
  ASSUME IInv, UNCHANGED <<variant, now, hits, passed, restarts>>
  PROVE  HitsInv' /\ GoneInv' /\ RestartsInv' /\ SlidingLimit'
  BY SlidingStays DEF IInv, HitsInv, GoneInv, RestartsInv, Left, Gone, Lateness

LEMMA ArriveStep ==
  ASSUME IInv, NEW r \in Reqs, NEW a \in Ips, Arrive(r, a)
  PROVE  IInv'
  <1> USE DEF IInv, Arrive
  <1>1. TypeOK'
    BY DEF TypeOK
  <1>2. WaitInv'
    BY DEF WaitInv, TypeOK
  <1> QED
    BY <1>1, <1>2, LimiterStays

LEMMA FinishStep ==
  ASSUME IInv, NEW r \in Reqs, Finish(r)
  PROVE  IInv'
  <1> USE DEF IInv, Finish
  <1>1. TypeOK'
    BY DEF TypeOK
  <1>2. WaitInv'
    BY DEF WaitInv, TypeOK
  <1> QED
    BY <1>1, <1>2, LimiterStays

\* A new limiter knows of nobody; what was let through is forgotten.
LEMMA RestartStep ==
  ASSUME IInv, Restart
  PROVE  IInv'
  <1>1. /\ hits' = [a \in Ips |-> << >>] /\ pc' = [r \in Reqs |-> "idle"]
        /\ UNCHANGED <<variant, now, ip, stamp, requests, passed>>
        /\ \A a \in Ips : restarts'[a] = restarts[a] \cup ({Len(passed[a])} \ {0})
    BY DEF Restart
  <1>2. /\ \A a \in Ips : Len(passed[a]) \in Nat /\ Len(hits[a]) \in Nat
        /\ \A a \in Ips : Gone(a) <= Len(passed[a]) /\ Gone(a)' = Len(passed[a])
    BY <1>1 DEF IInv, TypeOK, Gone
  <1>3. TypeOK'
    <2>1. restarts' \in [Ips -> SUBSET Nat]
      BY <1>2 DEF IInv, TypeOK, Restart
    <2> QED
      BY <1>1, <2>1 DEF IInv, TypeOK
  <1>4. WaitInv' /\ HitsInv'
    BY <1>1, <1>2 DEF WaitInv, HitsInv
  <1>5. GoneInv'
    <2> SUFFICES ASSUME NEW a \in Ips, NEW j \in 1..Len(passed[a])
                 PROVE \E k \in restarts'[a] : j <= k
      BY <1>2 DEF GoneInv, Left
    <2>1. Len(passed[a]) \in restarts'[a] /\ j <= Len(passed[a])
      BY <1>1, <1>2
    <2> QED
      BY <2>1
  <1>6. RestartsInv'
    <2> SUFFICES ASSUME NEW a \in Ips, NEW k \in restarts'[a]
                 PROVE k <= Len(passed[a])
      BY <1>2 DEF RestartsInv
    <2>1. CASE k = Len(passed[a])
      BY <1>2, <2>1
    <2>2. CASE k \in restarts[a]
      <3>1. k \in Nat /\ k <= Gone(a) /\ Gone(a) \in Int
        BY <1>2, <2>2 DEF IInv, TypeOK, RestartsInv, Gone
      <3> QED
        BY <1>2, <3>1
    <2> QED
      BY <1>1, <2>1, <2>2
  <1>7. SlidingLimit'
    BY <1>1 DEF IInv, SlidingLimit, Forgotten, Lateness
  <1> QED
    BY <1>3, <1>4, <1>5, <1>6, <1>7 DEF IInv

\* Pruning takes only what is past: what is left still stands for the last
\* requests that got through.
LEMMA Pruned ==
  ASSUME IInv, NEW a \in Ips, NEW t \in Nat, t <= now, now <= t + Lateness,
         NEW i \in 0..Len(hits[a]), Stale(hits[a], i, t),
         NEW list \in Seq(Nat), IsRest(list, hits[a], i),
         NEW g \in Int, g = Len(passed[a]) - Len(list)
  PROVE  /\ g \in Nat
         /\ \A k \in 1..Len(list) :
              list[k] <= passed[a][g + k] /\ passed[a][g + k] <= list[k] + Lateness
         /\ \A j \in 1..g : Left(a, j)
         /\ \A k \in restarts[a] : k <= g
         /\ Len(list) > 0 => list[1] >= t - Window
  <1>1. PICK h \in Nat, n \in Nat : h = Len(hits[a]) /\ n = Len(passed[a])
    BY DEF IInv, TypeOK
  <1>2. /\ i \in 0..h /\ Len(list) = h - i /\ g = (n - h) + i
        /\ Gone(a) = n - h /\ h <= n
    <2>1. Len(list) = h - i
      BY <1>1 DEF IsRest
    <2>2. h <= n
      BY <1>1 DEF IInv, HitsInv
    <2> QED
      BY <1>1, <2>1, <2>2 DEF Gone
  <1>3. g \in Nat /\ n - h \in Nat /\ Len(list) \in Nat
    BY <1>2
  <1>4. Lateness \in Nat /\ now \in Nat
    BY LatenessType DEF IInv, TypeOK
  <1>5. \A k \in 1..h :
          /\ hits[a][k] \in Nat
          /\ passed[a][(n - h) + k] \in Nat
          /\ hits[a][k] <= passed[a][(n - h) + k]
          /\ passed[a][(n - h) + k] <= hits[a][k] + Lateness
    <2> SUFFICES ASSUME NEW k \in 1..h
                 PROVE  /\ hits[a][k] \in Nat
                        /\ passed[a][(n - h) + k] \in Nat
                        /\ hits[a][k] <= passed[a][(n - h) + k]
                        /\ passed[a][(n - h) + k] <= hits[a][k] + Lateness
      OBVIOUS
    <2>1. hits[a][k] \in Nat
      BY <1>1 DEF IInv, TypeOK
    <2>2. (n - h) + k \in 1..n
      BY <1>2
    <2>3. passed[a][(n - h) + k] \in Nat
      <3>1. passed[a] \in Seq(Nat)
        BY DEF IInv, TypeOK
      <3> QED
        BY <1>1, <2>2, <3>1, IsTime
    <2> QED
      BY <1>1, <1>2, <2>1, <2>3 DEF IInv, HitsInv
  <1>6. \A k \in 1..(h - i) : list[k] = hits[a][i + k]
    BY <1>1 DEF IsRest
  <1>7. ASSUME NEW k \in 1..Len(list)
        PROVE list[k] <= passed[a][g + k] /\ passed[a][g + k] <= list[k] + Lateness
    <2>1. k \in 1..(h - i) /\ i + k \in 1..h /\ g + k = (n - h) + (i + k)
      BY <1>2
    <2> QED
      BY <1>5, <1>6, <2>1
  <1>8. ASSUME NEW j \in 1..g PROVE Left(a, j)
    <2>1. CASE j <= n - h
      BY <1>2, <1>3, <2>1 DEF IInv, GoneInv
    <2>2. CASE j > n - h
      <3>1. PICK k \in 1..i : j = (n - h) + k
        <4>1. j - (n - h) \in 1..i /\ j = (n - h) + (j - (n - h))
          BY <1>2, <2>2
        <4> QED
          BY <4>1
      <3>2. k \in 1..h
        BY <1>2
      <3>3. hits[a][k] < t - Window
        BY DEF Stale
      <3>4. hits[a][k] \in Nat /\ passed[a][j] \in Nat /\ passed[a][j] <= hits[a][k] + Lateness
        BY <1>5, <3>1, <3>2
      <3>5. PICK x \in Nat, y \in Nat : x = hits[a][k] /\ y = passed[a][j]
        BY <3>4
      <3>6. x < t - Window /\ y <= x + Lateness
        BY <3>3, <3>4, <3>5
      <3>7. y + Window < now + Lateness
        BY <1>4, <3>6
      <3> QED
        BY <3>5, <3>7 DEF Left
    <2> QED
      BY <1>3, <2>1, <2>2
  <1>9. ASSUME Len(list) > 0 PROVE list[1] >= t - Window
    <2>1. i < h /\ 1 \in 1..(h - i)
      BY <1>2, <1>9
    <2>2. hits[a][i + 1] >= t - Window
      BY <1>1, <2>1 DEF Stale
    <2> QED
      BY <1>6, <2>1, <2>2
  <1>10. ASSUME NEW k \in restarts[a] PROVE k <= g
    <2>1. k \in Nat /\ k <= n - h
      BY <1>2 DEF IInv, TypeOK, RestartsInv
    <2> QED
      BY <1>2, <2>1
  <1> QED
    BY <1>3, <1>7, <1>8, <1>9, <1>10

\* A refused request leaves only the pruned list behind.
LEMMA RefuseStep ==
  ASSUME IInv, NEW r \in Reqs, NEW a \in Ips, a = ip[r],
         NEW t \in Nat, t <= now, now <= t + Lateness,
         NEW i \in 0..Len(hits[a]), Stale(hits[a], i, t),
         NEW list \in Seq(Nat), IsRest(list, hits[a], i),
         Refuse(r, list), UNCHANGED <<variant, now, restarts>>
  PROVE  /\ hits' \in [Ips -> Seq(Nat)] /\ passed' \in [Ips -> Seq(Nat)]
         /\ \A b \in Ips : Len(hits'[b]) <= Limit
         /\ HitsInv' /\ GoneInv' /\ RestartsInv' /\ SlidingLimit'
  <1>1. PICK h \in Nat, n \in Nat : h = Len(hits[a]) /\ n = Len(passed[a]) /\ h <= Limit
    BY DEF IInv, TypeOK
  <1>2. Len(list) = h - i /\ Len(list) \in Nat /\ Len(list) <= Limit /\ n - Len(list) \in Int
    <2>1. Len(list) = h - i
      BY <1>1 DEF IsRest
    <2> QED
      BY <1>1, <2>1
  <1>3. /\ n - Len(list) \in Nat
        /\ \A k \in 1..Len(list) :
             /\ list[k] <= passed[a][(n - Len(list)) + k]
             /\ passed[a][(n - Len(list)) + k] <= list[k] + Lateness
        /\ \A j \in 1..(n - Len(list)) : Left(a, j)
        /\ \A k \in restarts[a] : k <= n - Len(list)
    BY <1>1, <1>2, Pruned
  <1>4. /\ hits' \in [Ips -> Seq(Nat)] /\ hits'[a] = list /\ passed' = passed
        /\ \A b \in Ips \ {a} : hits'[b] = hits[b]
    BY DEF Refuse, IInv, TypeOK
  <1>5. /\ passed' \in [Ips -> Seq(Nat)]
        /\ \A b \in Ips : Len(hits'[b]) <= Limit
    BY <1>2, <1>4 DEF IInv, TypeOK
  <1>6. Lateness' = Lateness
    BY DEF Lateness
  <1>7. HitsInv'
    <2> SUFFICES ASSUME NEW b \in Ips
                 PROVE /\ Len(hits'[b]) <= Len(passed[b])
                       /\ \A k \in 1..Len(hits'[b]) :
                            /\ hits'[b][k] <= passed[b][(Len(passed[b]) - Len(hits'[b])) + k]
                            /\ passed[b][(Len(passed[b]) - Len(hits'[b])) + k]
                                 <= hits'[b][k] + Lateness
      BY <1>4, <1>6 DEF HitsInv, Gone
    <2>1. CASE b = a
      <3>1. Len(list) <= n
        BY <1>2, <1>3
      <3> QED
        BY <1>1, <1>3, <1>4, <2>1, <3>1
    <2>2. CASE b # a
      BY <1>4, <2>2 DEF IInv, HitsInv, Gone
    <2> QED
      BY <2>1, <2>2
  <1>8. GoneInv'
    <2> SUFFICES ASSUME NEW b \in Ips, NEW j \in 1..(Len(passed[b]) - Len(hits'[b]))
                 PROVE Left(b, j)
      BY <1>4, <1>6 DEF GoneInv, Gone, Left
    <2>1. CASE b = a
      BY <1>1, <1>3, <1>4, <2>1
    <2>2. CASE b # a
      BY <1>4, <2>2 DEF IInv, GoneInv, Gone
    <2> QED
      BY <2>1, <2>2
  <1>9. RestartsInv'
    <2> SUFFICES ASSUME NEW b \in Ips, NEW k \in restarts[b]
                 PROVE k <= Len(passed[b]) - Len(hits'[b])
      BY <1>4 DEF RestartsInv, Gone
    <2>1. CASE b = a
      BY <1>1, <1>3, <1>4, <2>1
    <2>2. CASE b # a
      BY <1>4, <2>2 DEF IInv, RestartsInv, Gone
    <2> QED
      BY <2>1, <2>2
  <1> QED
    BY <1>4, <1>5, <1>7, <1>8, <1>9, SlidingStays DEF IInv

\* A request that gets through is the newest hit, and the one that got through
\* Limit before it is no longer among the hits.
LEMMA LetThroughStep ==
  ASSUME IInv, NEW r \in Reqs, NEW a \in Ips, a = ip[r],
         NEW t \in Nat, t <= now, now <= t + Lateness,
         NEW i \in 0..Len(hits[a]), Stale(hits[a], i, t),
         NEW list \in Seq(Nat), IsRest(list, hits[a], i),
         LetThrough(r, list, t), UNCHANGED <<variant, now, restarts>>
  PROVE  /\ hits' \in [Ips -> Seq(Nat)] /\ passed' \in [Ips -> Seq(Nat)]
         /\ \A b \in Ips : Len(hits'[b]) <= Limit
         /\ HitsInv' /\ GoneInv' /\ RestartsInv' /\ SlidingLimit'
  <1>1. PICK m \in Nat, n \in Nat : m = Len(list) /\ n = Len(passed[a])
    BY DEF IInv, TypeOK
  <1>2. /\ n - m \in Nat
        /\ \A k \in 1..m :
             /\ list[k] <= passed[a][(n - m) + k]
             /\ passed[a][(n - m) + k] <= list[k] + Lateness
        /\ \A j \in 1..(n - m) : Left(a, j)
        /\ \A k \in restarts[a] : k <= n - m
    <2>1. n - m \in Int
      OBVIOUS
    <2> QED
      BY <1>1, <2>1, Pruned
  <1>3. /\ Len(Append(list, t)) = m + 1 /\ Append(list, t) \in Seq(Nat)
        /\ \A k \in 1..m : Append(list, t)[k] = list[k]
        /\ Append(list, t)[m + 1] = t
    BY <1>1, AddTime
  <1>4. now \in Nat /\ passed[a] \in Seq(Nat) /\ m < Limit /\ m \in Nat
    BY <1>1 DEF IInv, TypeOK, LetThrough
  <1>5. /\ Len(Append(passed[a], now)) = n + 1 /\ Append(passed[a], now) \in Seq(Nat)
        /\ \A k \in 1..n : Append(passed[a], now)[k] = passed[a][k]
        /\ Append(passed[a], now)[n + 1] = now
    BY <1>1, <1>4, AddTime
  <1>6. /\ hits' \in [Ips -> Seq(Nat)] /\ hits'[a] = Append(list, t)
        /\ passed' \in [Ips -> Seq(Nat)] /\ passed'[a] = Append(passed[a], now)
        /\ \A b \in Ips \ {a} : hits'[b] = hits[b] /\ passed'[b] = passed[b]
    BY <1>3, <1>5 DEF LetThrough, IInv, TypeOK
  <1>7. \A b \in Ips : Len(hits'[b]) <= Limit
    <2> SUFFICES ASSUME NEW b \in Ips PROVE Len(hits'[b]) <= Limit
      OBVIOUS
    <2>1. CASE b = a
      <3>1. m + 1 <= Limit
        BY <1>4
      <3> QED
        BY <1>3, <1>6, <2>1, <3>1
    <2>2. CASE b # a
      BY <1>6, <2>2 DEF IInv, TypeOK
    <2> QED
      BY <2>1, <2>2
  <1>8. Lateness' = Lateness /\ Lateness \in Nat
    BY LatenessType DEF Lateness, IInv
  <1>9. HitsInv'
    <2> SUFFICES ASSUME NEW b \in Ips
                 PROVE /\ Len(hits'[b]) <= Len(passed'[b])
                       /\ \A k \in 1..Len(hits'[b]) :
                            /\ hits'[b][k] <= passed'[b][(Len(passed'[b]) - Len(hits'[b])) + k]
                            /\ passed'[b][(Len(passed'[b]) - Len(hits'[b])) + k]
                                 <= hits'[b][k] + Lateness
      BY <1>8 DEF HitsInv, Gone
    <2>1. CASE b = a
      <3>1. m + 1 <= n + 1 /\ (n + 1) - (m + 1) = n - m
        BY <1>2
      <3>2. ASSUME NEW k \in 1..(m + 1)
            PROVE  /\ Append(list, t)[k] <= Append(passed[a], now)[(n - m) + k]
                   /\ Append(passed[a], now)[(n - m) + k] <= Append(list, t)[k] + Lateness
        <4>1. CASE k \in 1..m
          <5>1. (n - m) + k \in 1..n
            BY <1>2, <4>1
          <5> QED
            BY <1>2, <1>3, <1>5, <4>1, <5>1
        <4>2. CASE k = m + 1
          <5>1. (n - m) + k = n + 1
            BY <4>2
          <5> QED
            BY <1>3, <1>5, <4>2, <5>1
        <4>3. k \in 1..m \/ k = m + 1
          BY <1>4, <3>2
        <4> QED
          BY <4>1, <4>2, <4>3
      <3>3. /\ hits'[b] = Append(list, t) /\ Len(hits'[b]) = m + 1
            /\ passed'[b] = Append(passed[a], now)
            /\ Len(passed'[b]) - Len(hits'[b]) = n - m
            /\ Len(hits'[b]) <= Len(passed'[b])
        BY <1>3, <1>5, <1>6, <2>1, <3>1
      <3> QED
        BY <3>2, <3>3
    <2>2. CASE b # a
      BY <1>6, <2>2 DEF IInv, HitsInv, Gone
    <2> QED
      BY <2>1, <2>2
  <1>10. GoneInv'
    <2> SUFFICES ASSUME NEW b \in Ips, NEW j \in 1..(Len(passed'[b]) - Len(hits'[b]))
                 PROVE \/ passed'[b][j] + Window < now + Lateness
                       \/ \E k \in restarts[b] : j <= k
      BY <1>8 DEF GoneInv, Gone, Left
    <2>1. CASE b = a
      <3>1. j \in 1..(n - m) /\ j \in 1..n
        BY <1>2, <1>3, <1>5, <1>6, <2>1
      <3> QED
        BY <1>2, <1>5, <1>6, <2>1, <3>1 DEF Left
    <2>2. CASE b # a
      BY <1>6, <2>2 DEF IInv, GoneInv, Gone, Left
    <2> QED
      BY <2>1, <2>2
  <1>11. RestartsInv'
    <2> SUFFICES ASSUME NEW b \in Ips, NEW k \in restarts[b]
                 PROVE k <= Len(passed'[b]) - Len(hits'[b])
      BY DEF RestartsInv, Gone
    <2>1. CASE b = a
      <3>1. Len(passed'[b]) = n + 1 /\ Len(hits'[b]) = m + 1
        BY <1>3, <1>5, <1>6, <2>1
      <3>2. (n + 1) - (m + 1) = n - m
        BY <1>2
      <3> QED
        BY <1>2, <2>1, <3>1, <3>2
    <2>2. CASE b # a
      BY <1>6, <2>2 DEF IInv, RestartsInv, Gone
    <2> QED
      BY <2>1, <2>2
  <1>12. SlidingLimit'
    <2> SUFFICES ASSUME NEW b \in Ips, NEW l \in (Limit + 1)..Len(passed'[b])
                 PROVE \/ passed'[b][l] - passed'[b][l - Limit] > Window - Lateness
                       \/ Forgotten(b, l - Limit, l)
      BY <1>8 DEF SlidingLimit, Forgotten
    <2>1. CASE b # a \/ l <= n
      <3>1. Len(passed[b]) \in Nat /\ (b = a => Len(passed[b]) = n)
        BY <1>1 DEF IInv, TypeOK
      <3>2. l \in (Limit + 1)..Len(passed[b]) /\ l - Limit \in 1..Len(passed[b])
        <4>1. l <= Len(passed[b]) /\ Limit \in Nat \ {0}
          BY <1>1, <1>6, <2>1, <3>1
        <4> QED
          BY <3>1, <4>1
      <3>3. passed'[b][l] = passed[b][l] /\ passed'[b][l - Limit] = passed[b][l - Limit]
        <4>1. CASE b # a
          BY <1>6, <4>1
        <4>2. CASE b = a
          <5>1. l \in 1..n /\ l - Limit \in 1..n
            BY <3>1, <3>2, <4>2
          <5> QED
            BY <1>5, <1>6, <4>2, <5>1
        <4> QED
          BY <4>1, <4>2
      <3> QED
        BY <3>2, <3>3 DEF IInv, SlidingLimit
    <2>2. CASE b = a /\ l > n
      <3>1. l = n + 1
        BY <1>5, <1>6, <2>2
      <3>2. l - Limit \in 1..(n - m) /\ l - Limit \in 1..n
        BY <1>2, <1>4, <3>1
      <3>3. Left(a, l - Limit)
        BY <1>2, <3>2
      <3>4. CASE \E k \in restarts[a] : l - Limit <= k
        <4>1. PICK k \in restarts[a] : l - Limit <= k
          BY <3>4
        <4>2. k \in Nat /\ k <= n - m
          BY <1>2 DEF IInv, TypeOK
        <4>3. k < l
          BY <1>2, <1>4, <3>1, <4>2
        <4> QED
          BY <2>2, <4>1, <4>3 DEF Forgotten
      <3>5. CASE passed[a][l - Limit] + Window < now + Lateness
        <4>1. PICK x \in Nat : x = passed[a][l - Limit]
          <5>1. passed[a][l - Limit] \in Nat
            BY <1>1, <1>4, <3>2, IsTime
          <5> QED
            BY <5>1
        <4>2. x + Window < now + Lateness
          BY <3>5, <4>1
        <4>3. now - x > Window - Lateness
          BY <1>4, <1>8, <4>2
        <4> QED
          BY <1>5, <1>6, <2>2, <3>1, <3>2, <4>1, <4>3
      <3> QED
        BY <3>3, <3>4, <3>5 DEF Left
    <2> QED
      BY <1>1, <2>1, <2>2
  <1> QED
    BY <1>6, <1>7, <1>9, <1>10, <1>12, <1>11

\* What a decision does to what the limiter knows.
LEMMA DecideStep ==
  ASSUME IInv, NEW r \in Reqs, NEW t \in Nat, t <= now, now <= t + Lateness,
         Decide(r, t), UNCHANGED <<variant, now, restarts>>
  PROVE  /\ hits' \in [Ips -> Seq(Nat)] /\ passed' \in [Ips -> Seq(Nat)]
         /\ \A b \in Ips : Len(hits'[b]) <= Limit
         /\ HitsInv' /\ GoneInv' /\ RestartsInv' /\ SlidingLimit'
         /\ \/ pc' = [pc EXCEPT ![r] = "refuse"]
            \/ pc' = [pc EXCEPT ![r] = "handle"]
  <1>1. PICK a \in Ips : a = ip[r]
    BY DEF IInv, TypeOK
  <1>2. PICK i \in 0..Len(hits[a]) :
          /\ Stale(hits[a], i, t)
          /\ \/ Refuse(r, SubSeq(hits[a], i + 1, Len(hits[a])))
             \/ LetThrough(r, SubSeq(hits[a], i + 1, Len(hits[a])), t)
    BY <1>1 DEF Decide
  <1> DEFINE list == SubSeq(hits[a], i + 1, Len(hits[a]))
  <1>3. list \in Seq(Nat) /\ IsRest(list, hits[a], i)
    BY Rest DEF IInv, TypeOK
  <1>4. Stale(hits[a], i, t) /\ (Refuse(r, list) \/ LetThrough(r, list, t))
    BY <1>2
  <1> HIDE DEF list
  <1>5. CASE Refuse(r, list)
    BY <1>1, <1>3, <1>4, <1>5, RefuseStep DEF Refuse
  <1>6. CASE LetThrough(r, list, t)
    BY <1>1, <1>3, <1>4, <1>6, LetThroughStep DEF LetThrough
  <1> QED
    BY <1>4, <1>5, <1>6

\* A decision with the time read before the lock, or under it.
LEMMA AllowStep ==
  ASSUME IInv, NEW r \in Reqs, AllowClockFirst(r) \/ AllowLockFirst(r)
  PROVE  IInv'
  <1>1. stamp[r] \in Nat /\ stamp[r] <= now /\ now \in Nat
    BY DEF IInv, TypeOK
  <1>2. CASE AllowClockFirst(r)
    <2>1. now <= stamp[r] + Lateness
      BY <1>2 DEF AllowClockFirst, IInv, WaitInv, Lateness
    <2>2. /\ hits' \in [Ips -> Seq(Nat)] /\ passed' \in [Ips -> Seq(Nat)]
          /\ \A b \in Ips : Len(hits'[b]) <= Limit
          /\ HitsInv' /\ GoneInv' /\ RestartsInv' /\ SlidingLimit'
          /\ \/ pc' = [pc EXCEPT ![r] = "refuse"]
             \/ pc' = [pc EXCEPT ![r] = "handle"]
      BY <1>1, <1>2, <2>1, DecideStep DEF AllowClockFirst
    <2>3. TypeOK' /\ WaitInv'
      BY <1>2, <2>2 DEF AllowClockFirst, IInv, TypeOK, WaitInv
    <2> QED
      BY <2>2, <2>3 DEF IInv
  <1>3. CASE AllowLockFirst(r)
    <2>1. now <= now + Lateness
      BY <1>1, LatenessType DEF IInv
    <2>2. /\ hits' \in [Ips -> Seq(Nat)] /\ passed' \in [Ips -> Seq(Nat)]
          /\ \A b \in Ips : Len(hits'[b]) <= Limit
          /\ HitsInv' /\ GoneInv' /\ RestartsInv' /\ SlidingLimit'
          /\ \/ pc' = [pc EXCEPT ![r] = "refuse"]
             \/ pc' = [pc EXCEPT ![r] = "handle"]
      BY <1>1, <1>3, <2>1, DecideStep DEF AllowLockFirst
    <2>3. TypeOK' /\ WaitInv'
      <3>1. stamp' \in [Reqs -> 0..now'] /\ pc' \in [Reqs -> {"idle", "wait", "handle", "refuse"}]
        <4>1. stamp' = [stamp EXCEPT ![r] = now] /\ now' = now /\ now \in 0..now
          BY <1>1, <1>3 DEF AllowLockFirst
        <4> QED
          BY <2>2, <4>1 DEF IInv, TypeOK
      <3>2. TypeOK'
        BY <1>3, <2>2, <3>1 DEF AllowLockFirst, IInv, TypeOK
      <3>3. WaitInv'
        BY <1>3 DEF AllowLockFirst, WaitInv
      <3> QED
        BY <3>2, <3>3
    <2> QED
      BY <2>2, <2>3 DEF IInv
  <1> QED
    BY <1>2, <1>3

\* Every step keeps the invariant.
LEMMA StepInv == IInv /\ [Next]_vars => IInv'
  <1> SUFFICES ASSUME IInv, [Next]_vars PROVE IInv'
    OBVIOUS
  <1>1. CASE UNCHANGED vars
    <2>1. TypeOK' /\ WaitInv'
      BY <1>1 DEF vars, IInv, TypeOK, WaitInv
    <2> QED
      BY <1>1, <2>1, LimiterStays DEF vars, IInv
  <1> QED
    BY <1>1, TickStep, ArriveStep, AllowStep, FinishStep, RestartStep DEF Next

\* The invariant holds in every behaviour of a limiter.
THEOREM Invariance == Spec => []IInv
  BY InitInv, StepInv, PTL DEF Spec

\* The limiter never keeps more than Limit times for an address (auth 83-86).
THEOREM TypeCorrect == Spec => []TypeOK
  <1>1. IInv => TypeOK
    BY DEF IInv
  <1> QED
    BY <1>1, Invariance, PTL

\* A step that refuses a request.
LEMMA RefusalStep ==
  ASSUME IInv, [Next]_vars, NEW r \in Reqs, pc[r] = "wait", pc'[r] = "refuse"
  PROVE  FullFor(ip[r], stamp'[r])
  <1>1. PICK t \in Nat : /\ t <= now /\ now <= t + Lateness /\ stamp'[r] = t
                         /\ Decide(r, t)
    <2>1. now \in Nat /\ stamp[r] \in Nat /\ stamp[r] <= now /\ Lateness \in Nat
      BY LatenessType DEF IInv, TypeOK
    <2>2. CASE AllowClockFirst(r)
      BY <2>1, <2>2 DEF AllowClockFirst, IInv, WaitInv, Lateness
    <2>3. CASE AllowLockFirst(r)
      BY <2>1, <2>3 DEF AllowLockFirst, IInv, TypeOK
    <2>4. AllowClockFirst(r) \/ AllowLockFirst(r)
      <3>1. pc \in [Reqs -> {"idle", "wait", "handle", "refuse"}]
        BY DEF IInv, TypeOK
      <3>2. ~ UNCHANGED vars /\ ~ Tick /\ ~ Restart
        BY DEF vars, Tick, Restart
      <3>3. PICK s \in Reqs : \/ \E a \in Ips : Arrive(s, a)
                              \/ AllowClockFirst(s) \/ AllowLockFirst(s) \/ Finish(s)
        BY <3>2 DEF Next
      <3>4. ~ Finish(s) /\ ~ \E a \in Ips : Arrive(s, a)
        BY <3>1 DEF Finish, Arrive
      <3>5. s = r
        BY <3>1, <3>3, <3>4
        DEF AllowClockFirst, AllowLockFirst, Decide, Refuse, LetThrough
      <3> QED
        BY <3>3, <3>4, <3>5
    <2> QED
      BY <2>2, <2>3, <2>4
  <1>2. PICK a \in Ips : a = ip[r]
    BY DEF IInv, TypeOK
  <1>3. PICK i \in 0..Len(hits[a]) :
          /\ Stale(hits[a], i, t)
          /\ \/ Refuse(r, SubSeq(hits[a], i + 1, Len(hits[a])))
             \/ LetThrough(r, SubSeq(hits[a], i + 1, Len(hits[a])), t)
    BY <1>1, <1>2 DEF Decide
  <1> DEFINE list == SubSeq(hits[a], i + 1, Len(hits[a]))
  <1>4. list \in Seq(Nat) /\ IsRest(list, hits[a], i)
    BY Rest DEF IInv, TypeOK
  <1>5. Refuse(r, list) \/ LetThrough(r, list, t)
    BY <1>3
  <1> HIDE DEF list
  <1>6. Len(list) >= Limit
    BY <1>5 DEF Refuse, LetThrough, IInv, TypeOK
  <1>7. PICK h \in Nat, n \in Nat : h = Len(hits[a]) /\ n = Len(passed[a]) /\ h <= Limit
    BY DEF IInv, TypeOK
  <1>8. Len(list) = h - i
    BY <1>4, <1>7 DEF IsRest
  <1>9. Len(list) = Limit /\ Limit > 0 /\ Limit \in Nat /\ n - Limit \in Int
    BY <1>6, <1>7, <1>8
  <1>10. /\ n - Limit \in Nat
         /\ list[1] <= passed[a][(n - Limit) + 1]
         /\ list[1] >= t - Window
         /\ \A k \in restarts[a] : k <= n - Limit
    <2>1. 1 \in 1..Len(list)
      BY <1>9
    <2> QED
      BY <1>1, <1>3, <1>4, <1>7, <1>9, <2>1, Pruned
  <1>11. list[1] \in Nat /\ passed[a][(n - Limit) + 1] \in Nat
    <2>1. 1 \in 1..Len(list) /\ (n - Limit) + 1 \in 1..n
      BY <1>9, <1>10
    <2>2. passed[a] \in Seq(Nat)
      BY DEF IInv, TypeOK
    <2>3. list[1] \in Nat
      BY <1>4, <2>1
    <2> QED
      BY <1>7, <2>1, <2>2, <2>3, IsTime
  <1>12. passed[a][(n - Limit) + 1] >= t - Window
    BY <1>10, <1>11
  <1>13. \A k \in restarts[a] : k < (n - Limit) + 1
    BY <1>9, <1>10 DEF IInv, TypeOK
  <1>14. (n - Limit) + 1 = n - Limit + 1 /\ n - Limit + 1 >= 1
    BY <1>9, <1>10
  <1> QED
    BY <1>1, <1>2, <1>7, <1>12, <1>13, <1>14 DEF FullFor

\* Refusals are right at every step, of either copy of Allow (auth 76-86).
THEOREM RefusalsAreRight == Spec => RefusedWhenFull
  <1>1. IInv /\ [Next]_vars =>
          [ \A r \in Reqs :
              pc[r] = "wait" /\ pc'[r] = "refuse" => FullFor(ip[r], stamp'[r]) ]_vars
    BY RefusalStep
  <1> QED
    BY <1>1, Invariance, PTL DEF Spec, RefusedWhenFull

\* What a limiter lets through in a window in which it does not start again
\* (auth 68-90, filetransfer 58-79).
THEOREM Bounded == Spec => []SlidingLimit
  <1>1. IInv => SlidingLimit
    BY DEF IInv
  <1> QED
    BY <1>1, Invariance, PTL

-----------------------------------------------------------------------------
(***************************************************************************)
(* FileTransfer: the inductive invariant of the limiter with the handlers  *)
(* behind it, in parts.                                                    *)
(***************************************************************************)

\* Nobody is let through after the present.
PassedInv == \A a \in Ips : \A k \in 1..Len(passed[a]) : passed[a][k] <= now

\* Only the copy of this service has handlers behind it; an upload has an id
\* from the moment its file is made, its own, and its file is as it left it.
JobsInv ==
  /\ variant # "lockFirst" => job = [r \in Reqs |-> NoJob]
  /\ \A r \in Reqs : job[r].id = NoFile <=> job[r].next \in {"none", "body"}
  /\ \A r, s \in Reqs : job[r].id = job[s].id /\ job[r].id # NoFile => r = s
  /\ \A r \in Reqs : job[r].next \in {"iv", "ciphertext"} => disk[job[r].id] = "part"
  /\ \A r \in Reqs : job[r].next = "answer" => disk[job[r].id] = "whole"

\* A body is read no longer than the server's ReadTimeout.
BodyInv == \A r \in Reqs : job[r].next = "body" => now <= stamp[r] + ReadTimeout

\* The requests of an address that are in the handlers.
Held(a) == {r \in Reqs : pc[r] = "handle" /\ ip[r] = a}

\* f gives each request that a has in the handlers its own place in `passed',
\* which holds the time it was let through, since the service started.
IsPlacement(f, a) ==
  /\ f \in [Held(a) -> 1..Len(passed[a])]
  /\ \A r, s \in Held(a) : f[r] = f[s] => r = s
  /\ \A r \in Held(a) : passed[a][f[r]] = stamp[r]
  /\ \A r \in Held(a) : \A k \in restarts[a] : k < f[r]

PlacesInv ==
  variant = "lockFirst" =>
    \A a \in Ips : \E f \in [Held(a) -> 1..Len(passed[a])] : IsPlacement(f, a)

FilesInv ==
  IInv /\ StorageTypeOK /\ PassedInv /\ JobsInv /\ Stored /\ BodyInv /\ PlacesInv

-----------------------------------------------------------------------------
\* What is known of a single upload.
LEMMA JobType ==
  ASSUME FilesInv, NEW r \in Reqs
  PROVE  /\ job[r].next \in {"none", "body", "iv", "ciphertext", "answer"}
         /\ job[r].id \in Ids \cup {NoFile}
         /\ job[r] = [next |-> job[r].next, id |-> job[r].id]
         /\ NoJob.next = "none" /\ NoJob.id = NoFile
         /\ NoJob \in [next : {"none", "body", "iv", "ciphertext", "answer"}, id : Ids \cup {NoFile}]
         /\ job[r] = NoJob <=> job[r].next = "none"
         /\ job[r].next # "none" => pc[r] = "handle" /\ variant = "lockFirst"
  <1>1. job[r] \in [next : {"none", "body", "iv", "ciphertext", "answer"}, id : Ids \cup {NoFile}]
    BY DEF FilesInv, StorageTypeOK
  <1>2. NoJob = [next |-> "none", id |-> NoFile]
    BY DEF NoJob
  <1>3. job[r].next = "none" => job[r].id = NoFile
    BY DEF FilesInv, JobsInv
  <1>4. job[r] = NoJob <=> job[r].next = "none"
    BY <1>1, <1>2, <1>3
  <1>5. job[r].next # "none" => pc[r] = "handle" /\ variant = "lockFirst"
    <2>1. pc[r] # "handle" => job[r] = NoJob
      BY DEF FilesInv, StorageTypeOK
    <2>2. variant # "lockFirst" => job[r] = NoJob
      BY DEF FilesInv, JobsInv
    <2> QED
      BY <1>4, <2>1, <2>2
  <1> QED
    BY <1>1, <1>2, <1>4, <1>5

LEMMA FilesInitInv == FilesInit => FilesInv
  <1> SUFFICES ASSUME FilesInit PROVE FilesInv
    OBVIOUS
  <1>1. IInv /\ TypeOK
    BY InitInv DEF FilesInit, IInv
  <1>2. StorageTypeOK
    BY <1>1 DEF FilesInit, StorageTypeOK, NoJob, NoFile
  <1>3. PassedInv
    BY DEF FilesInit, Init, PassedInv
  <1>4. JobsInv /\ Stored /\ BodyInv
    BY DEF FilesInit, JobsInv, Stored, BodyInv, NoJob, NoFile
  <1>5. PlacesInv
    <2> SUFFICES ASSUME NEW a \in Ips
                 PROVE \E f \in [Held(a) -> 1..Len(passed[a])] : IsPlacement(f, a)
      BY DEF PlacesInv
    <2>1. Held(a) = {}
      BY DEF FilesInit, Init, Held
    <2>2. [r \in {} |-> 0] \in [Held(a) -> 1..Len(passed[a])]
      BY <2>1
    <2>3. IsPlacement([r \in {} |-> 0], a)
      BY <2>1, <2>2 DEF IsPlacement
    <2> QED
      BY <2>2, <2>3
  <1> QED
    BY <1>1, <1>2, <1>3, <1>4, <1>5 DEF FilesInv

\* Places stay where nobody new is let through.
LEMMA PlacesStay ==
  ASSUME FilesInv, variant = "lockFirst", NEW a \in Ips,
         Held(a)' \subseteq Held(a), passed'[a] = passed[a], restarts'[a] = restarts[a],
         \A r \in Held(a) : stamp'[r] = stamp[r]
  PROVE  \E f \in [Held(a)' -> 1..Len(passed'[a])] : IsPlacement(f, a)'
  <1>1. PICK f \in [Held(a) -> 1..Len(passed[a])] : IsPlacement(f, a)
    BY DEF FilesInv, PlacesInv
  <1>0. PICK g : g = [r \in Held(a)' |-> f[r]]
    OBVIOUS
  <1>2. g \in [Held(a)' -> 1..Len(passed'[a])]
    BY <1>0, <1>1
  <1>3. IsPlacement(g, a)'
    BY <1>0, <1>1, <1>2 DEF IsPlacement
  <1> QED
    BY <1>2, <1>3

\* A request that is let through takes the new last place.
LEMMA PlaceTaken ==
  ASSUME FilesInv, variant = "lockFirst", NEW a \in Ips, NEW r \in Reqs, r \notin Held(a),
         Held(a)' = Held(a) \cup {r}, passed'[a] = Append(passed[a], now), stamp'[r] = now,
         restarts'[a] = restarts[a],
         \A s \in Held(a) : stamp'[s] = stamp[s]
  PROVE  \E f \in [Held(a)' -> 1..Len(passed'[a])] : IsPlacement(f, a)'
  <1>1. PICK f \in [Held(a) -> 1..Len(passed[a])] : IsPlacement(f, a)
    BY DEF FilesInv, PlacesInv
  <1>2. now \in Nat /\ passed[a] \in Seq(Nat)
    BY DEF FilesInv, IInv, TypeOK
  <1>3. PICK n \in Nat : n = Len(passed[a])
    BY <1>2
  <1>4. /\ Len(passed'[a]) = n + 1
        /\ \A k \in 1..n : passed'[a][k] = passed[a][k]
        /\ passed'[a][n + 1] = now
    BY <1>2, <1>3, AddTime
  <1>5. PICK g : g = [s \in Held(a)' |-> IF s = r THEN n + 1 ELSE f[s]]
    OBVIOUS
  <1>6. g \in [Held(a)' -> 1..Len(passed'[a])]
    BY <1>5, <1>1, <1>3, <1>4
  <1>7. \A s, t \in Held(a)' : g[s] = g[t] => s = t
    <2> SUFFICES ASSUME NEW s \in Held(a)', NEW t \in Held(a)', g[s] = g[t]
                 PROVE s = t
      OBVIOUS
    <2>1. \A u \in Held(a) : f[u] \in 1..n
      BY <1>1, <1>3
    <2> QED
      BY <1>5, <1>1, <2>1 DEF IsPlacement
  <1>8. \A s \in Held(a)' : passed'[a][g[s]] = stamp'[s]
    BY <1>5, <1>1, <1>3, <1>4 DEF IsPlacement
  <1>9. ASSUME NEW k \in restarts[a] PROVE k < n + 1
    <2>1. k \in Nat /\ k <= Gone(a) /\ Len(hits[a]) \in Nat
      BY DEF FilesInv, IInv, TypeOK, RestartsInv
    <2> QED
      BY <1>3, <2>1 DEF Gone
  <1>10. \A s \in Held(a)' : \A k \in restarts[a] : k < g[s]
    BY <1>5, <1>1, <1>9 DEF IsPlacement
  <1>11. IsPlacement(g, a)'
    BY <1>6, <1>7, <1>8, <1>10 DEF IsPlacement
  <1> QED
    BY <1>6, <1>11

\* The clock moves on while no body is at its deadline.
LEMMA TimeStep ==
  ASSUME FilesInv, Time
  PROVE  FilesInv'
  <1>1. IInv' /\ TypeOK'
    BY TickStep DEF Time, FilesInv, IInv
  <1>2. /\ now \in Nat /\ now' = now + 1 /\ stamp' = stamp
        /\ passed' = passed /\ restarts' = restarts
    BY DEF Time, Tick, FilesInv, IInv, TypeOK
  <1>3. StorageTypeOK' /\ JobsInv' /\ Stored'
    BY <1>1 DEF Time, Tick, storageVars, FilesInv, StorageTypeOK, JobsInv, Stored
  <1>4. PassedInv'
    <2> SUFFICES ASSUME NEW a \in Ips, NEW k \in 1..Len(passed[a])
                 PROVE passed[a][k] <= now + 1
      BY <1>2 DEF PassedInv
    <2>1. passed[a] \in Seq(Nat) /\ passed[a][k] <= now
      BY DEF FilesInv, IInv, TypeOK, PassedInv
    <2>2. passed[a][k] \in Nat
      BY <2>1, IsTime
    <2> QED
      BY <1>2, <2>1, <2>2
  <1>5. BodyInv'
    <2> SUFFICES ASSUME NEW r \in Reqs, job[r].next = "body"
                 PROVE now + 1 <= stamp[r] + ReadTimeout
      BY <1>2 DEF Time, storageVars, BodyInv
    <2>1. stamp[r] \in Nat /\ ReadTimeout \in Nat
      BY FileAssumption DEF FilesInv, IInv, TypeOK
    <2>2. now < stamp[r] + ReadTimeout
      BY DEF Time
    <2> QED
      BY <1>2, <2>1, <2>2
  <1>6. PlacesInv'
    BY <1>2, PlacesStay DEF Time, Tick, PlacesInv, Held
  <1> QED
    BY <1>1, <1>3, <1>4, <1>5, <1>6 DEF FilesInv

\* Nothing but job, disk and known changes.
LEMMA LimiterUnchanged ==
  ASSUME FilesInv, UNCHANGED vars
  PROVE  IInv' /\ TypeOK' /\ PassedInv' /\ PlacesInv'
  <1>1. IInv' /\ TypeOK'
    BY StepInv DEF FilesInv, IInv
  <1>2. PassedInv'
    BY DEF vars, FilesInv, PassedInv
  <1>3. PlacesInv'
    BY PlacesStay DEF vars, PlacesInv, Held
  <1> QED
    BY <1>1, <1>2, <1>3

\* What concerns the storage alone stays when it and variant stay, as long as
\* no upload under way leaves the handlers.
LEMMA StorageStays ==
  ASSUME FilesInv, IInv', UNCHANGED <<variant, now, job, disk, known>>,
         \A r \in Reqs : job[r] # NoJob => pc'[r] = "handle" /\ stamp'[r] = stamp[r]
  PROVE  StorageTypeOK' /\ JobsInv' /\ Stored' /\ BodyInv'
  <1>1. StorageTypeOK'
    BY DEF FilesInv, IInv, StorageTypeOK
  <1>2. JobsInv' /\ Stored'
    BY DEF FilesInv, JobsInv, Stored
  <1>3. BodyInv'
    BY JobType DEF FilesInv, BodyInv
  <1> QED
    BY <1>1, <1>2, <1>3

LEMMA ArriveFiles ==
  ASSUME FilesInv, NEW r \in Reqs, NEW a \in Ips, Arrive(r, a), UNCHANGED storageVars
  PROVE  FilesInv'
  <1>1. IInv'
    BY ArriveStep DEF FilesInv
  <1>2. pc[r] = "idle" /\ \A s \in Reqs \ {r} : /\ pc'[s] = pc[s] /\ ip'[s] = ip[s]
                                                /\ stamp'[s] = stamp[s]
    BY DEF Arrive, FilesInv, IInv, TypeOK
  <1>3. pc'[r] = "wait" /\ UNCHANGED <<variant, now, passed, restarts>>
    BY DEF Arrive, FilesInv, IInv, TypeOK
  <1>4. StorageTypeOK' /\ JobsInv' /\ Stored' /\ BodyInv'
    BY <1>1, <1>2, <1>3, JobType, StorageStays DEF storageVars
  <1>5. PassedInv'
    BY <1>3 DEF FilesInv, PassedInv
  <1>6. PlacesInv'
    <2> SUFFICES ASSUME variant = "lockFirst", NEW b \in Ips
                 PROVE \E f \in [Held(b)' -> 1..Len(passed'[b])] : IsPlacement(f, b)'
      BY <1>3 DEF PlacesInv
    <2>1. Held(b)' \subseteq Held(b) /\ \A s \in Held(b) : stamp'[s] = stamp[s]
      BY <1>2, <1>3 DEF Held
    <2> QED
      BY <1>3, <2>1, PlacesStay
  <1> QED
    BY <1>1, <1>4, <1>5, <1>6 DEF FilesInv

\* A decision of Allow, with either clock; only the variant "lockFirst" has
\* places to keep.
LEMMA AllowFiles ==
  ASSUME FilesInv, NEW r \in Reqs, AllowClockFirst(r) \/ AllowLockFirst(r),
         UNCHANGED storageVars
  PROVE  FilesInv'
  <1>1. IInv'
    BY AllowStep DEF FilesInv
  <1>2. /\ pc[r] = "wait" /\ UNCHANGED <<variant, now, ip, restarts>>
        /\ \A s \in Reqs \ {r} : stamp'[s] = stamp[s]
        /\ variant = "lockFirst" => stamp'[r] = now
    BY DEF AllowClockFirst, AllowLockFirst, FilesInv, IInv, TypeOK
  <1>3. \/ /\ pc' = [pc EXCEPT ![r] = "refuse"] /\ passed' = passed
        \/ /\ pc' = [pc EXCEPT ![r] = "handle"]
           /\ passed' = [passed EXCEPT ![ip[r]] = Append(@, now)]
    BY DEF AllowClockFirst, AllowLockFirst, Decide, Refuse, LetThrough
  <1>4. /\ pc \in [Reqs -> {"idle", "wait", "handle", "refuse"}]
        /\ passed \in [Ips -> Seq(Nat)] /\ ip[r] \in Ips /\ now \in Nat
    BY DEF FilesInv, IInv, TypeOK
  <1>5. StorageTypeOK' /\ JobsInv' /\ Stored' /\ BodyInv'
    <2>1. \A s \in Reqs : job[s] # NoJob => s # r /\ pc'[s] = "handle" /\ stamp'[s] = stamp[s]
      BY <1>2, <1>3, <1>4, JobType
    <2> QED
      BY <1>1, <1>2, <2>1, StorageStays DEF storageVars
  <1>6. PassedInv'
    <2> SUFFICES ASSUME NEW a \in Ips, NEW k \in 1..Len(passed'[a])
                 PROVE passed'[a][k] <= now
      BY <1>2 DEF PassedInv
    <2>1. CASE passed'[a] = passed[a]
      BY <2>1 DEF FilesInv, PassedInv
    <2>2. CASE passed'[a] # passed[a]
      <3>1. passed'[a] = Append(passed[a], now) /\ passed[a] \in Seq(Nat)
        BY <1>3, <1>4, <2>2
      <3>2. PICK n \in Nat : n = Len(passed[a])
        BY <3>1
      <3>3. /\ Len(passed'[a]) = n + 1
            /\ \A j \in 1..n : passed'[a][j] = passed[a][j]
            /\ passed'[a][n + 1] = now
        BY <1>4, <3>1, <3>2, AddTime
      <3>4. CASE k = n + 1
        BY <1>4, <3>3, <3>4
      <3>5. CASE k \in 1..n
        BY <3>2, <3>3, <3>5 DEF FilesInv, PassedInv
      <3> QED
        BY <3>2, <3>3, <3>4, <3>5
    <2> QED
      BY <2>1, <2>2
  <1>7. PlacesInv'
    <2> SUFFICES ASSUME variant = "lockFirst", NEW b \in Ips
                 PROVE \E f \in [Held(b)' -> 1..Len(passed'[b])] : IsPlacement(f, b)'
      BY <1>2 DEF PlacesInv
    <2>1. r \notin Held(b) /\ \A s \in Held(b) : stamp'[s] = stamp[s]
      BY <1>2 DEF Held
    <2>2. CASE pc'[r] = "handle" /\ b = ip[r]
      <3>1. Held(b)' = Held(b) \cup {r}
        BY <1>2, <1>3, <1>4, <2>2 DEF Held
      <3>2. passed'[b] = Append(passed[b], now)
        BY <1>3, <1>4, <2>2
      <3> QED
        BY <1>2, <2>1, <3>1, <3>2, PlaceTaken
    <2>3. CASE ~ (pc'[r] = "handle" /\ b = ip[r])
      <3>1. Held(b)' \subseteq Held(b)
        BY <1>2, <1>3, <1>4, <2>3 DEF Held
      <3>2. passed'[b] = passed[b]
        BY <1>3, <1>4, <2>3
      <3> QED
        BY <1>2, <2>1, <3>1, <3>2, PlacesStay
    <2> QED
      BY <2>2, <2>3
  <1> QED
    BY <1>1, <1>5, <1>6, <1>7 DEF FilesInv

\* A request leaves, its place in `passed' stays.
LEMMA FinishParts ==
  ASSUME FilesInv, NEW r \in Reqs, Finish(r)
  PROVE  /\ IInv' /\ PassedInv' /\ PlacesInv'
         /\ pc' \in [Reqs -> {"idle", "wait", "handle", "refuse"}]
         /\ \A s \in Reqs \ {r} : pc'[s] = pc[s]
         /\ UNCHANGED <<variant, now, stamp>>
  <1>1. IInv'
    BY FinishStep DEF FilesInv
  <1>2. /\ UNCHANGED <<variant, now, stamp, ip, passed, restarts>>
        /\ pc' = [pc EXCEPT ![r] = "idle"]
        /\ pc \in [Reqs -> {"idle", "wait", "handle", "refuse"}]
    BY DEF Finish, FilesInv, IInv, TypeOK
  <1>3. PassedInv'
    BY <1>2 DEF FilesInv, PassedInv
  <1>4. PlacesInv'
    <2> SUFFICES ASSUME variant = "lockFirst", NEW b \in Ips
                 PROVE \E f \in [Held(b)' -> 1..Len(passed'[b])] : IsPlacement(f, b)'
      BY <1>2 DEF PlacesInv
    <2>1. Held(b)' \subseteq Held(b) /\ \A s \in Held(b) : stamp'[s] = stamp[s]
      BY <1>2 DEF Held
    <2> QED
      BY <1>2, <2>1, PlacesStay
  <1> QED
    BY <1>1, <1>2, <1>3, <1>4

LEMMA LimitedStep ==
  ASSUME FilesInv, NEW r \in Reqs, Limited(r)
  PROVE  FilesInv'
  <1>1. CASE (variant = "clockFirst" \/ pc[r] = "refuse") /\ Finish(r)
    <2>1. job[r] = NoJob
      BY <1>1, JobType
    <2>2. ASSUME NEW s \in Reqs, job[s] # NoJob PROVE pc'[s] = "handle"
      <3>1. pc[s] = "handle" /\ s # r
        BY <2>1, <2>2, JobType
      <3> QED
        BY <1>1, <3>1, FinishParts
    <2>3. StorageTypeOK' /\ JobsInv' /\ Stored' /\ BodyInv'
      BY <1>1, <2>2, FinishParts, StorageStays DEF Limited, storageVars
    <2> QED
      BY <1>1, <2>3, FinishParts DEF FilesInv
  <1> QED
    BY <1>1, ArriveFiles, AllowFiles DEF Limited

\* An answer ends the upload; a client may learn of one that is whole.
LEMMA AnswerStep ==
  ASSUME FilesInv, NEW r \in Reqs, Answer(r), disk' = disk,
         \/ known' = known
         \/ job[r].next = "answer" /\ known' = known \cup {job[r].id}
  PROVE  FilesInv'
  <1>1. Finish(r) /\ job' = [job EXCEPT ![r] = NoJob]
    BY DEF Answer
  <1>2. /\ IInv' /\ TypeOK' /\ PassedInv' /\ PlacesInv'
        /\ \A s \in Reqs \ {r} : pc'[s] = pc[s]
        /\ UNCHANGED <<variant, now, stamp>>
    BY <1>1, FinishParts DEF IInv
  <1>3. /\ job'[r] = NoJob /\ \A s \in Reqs \ {r} : job'[s] = job[s]
        /\ job' \in [Reqs -> [next : {"none", "body", "iv", "ciphertext", "answer"},
                              id : Ids \cup {NoFile}]]
    BY <1>1, JobType DEF FilesInv, StorageTypeOK
  <1>4. known' \in SUBSET Ids /\ job[r].next = "answer" => job[r].id \in Ids
    BY JobType DEF FilesInv, StorageTypeOK, JobsInv
  <1>5. StorageTypeOK'
    <2>1. known' \in SUBSET Ids
      BY JobType DEF FilesInv, StorageTypeOK, JobsInv
    <2>2. \A s \in Reqs : pc'[s] # "handle" => job'[s] = NoJob
      BY <1>2, <1>3 DEF FilesInv, StorageTypeOK
    <2>3. disk' \in [Ids -> {NoFile, "part", "whole"}]
      BY DEF FilesInv, StorageTypeOK
    <2> QED
      BY <1>2, <1>3, <2>1, <2>2, <2>3 DEF StorageTypeOK
  <1>6. JobsInv'
    <2>1. variant' # "lockFirst" => job' = [s \in Reqs |-> NoJob]
      BY <1>1, <1>2 DEF FilesInv, JobsInv
    <2>2. NoJob.next = "none" /\ NoJob.id = NoFile
      BY DEF NoJob
    <2>3. \A s \in Reqs : job'[s].id = NoFile <=> job'[s].next \in {"none", "body"}
      BY <1>3, <2>2 DEF FilesInv, JobsInv
    <2>4. \A s, t \in Reqs : job'[s].id = job'[t].id /\ job'[s].id # NoFile => s = t
      BY <1>3, <2>2 DEF FilesInv, JobsInv
    <2>5. \A s \in Reqs : /\ job'[s].next \in {"iv", "ciphertext"} => disk[job'[s].id] = "part"
                          /\ job'[s].next = "answer" => disk[job'[s].id] = "whole"
      BY <1>3, <2>2 DEF FilesInv, JobsInv
    <2> QED
      BY <2>1, <2>3, <2>4, <2>5 DEF JobsInv
  <1>7. Stored'
    <2> SUFFICES ASSUME NEW i \in known'
                 PROVE disk[i] = "whole" /\ \A s \in Reqs : job'[s].id # i
      BY DEF Stored
    <2>1. NoJob.id = NoFile /\ NoFile \notin Ids
      BY FileAssumption DEF NoJob
    <2>2. CASE i \in known
      <3>1. i \in Ids
        BY <2>2 DEF FilesInv, StorageTypeOK
      <3> QED
        BY <1>3, <2>1, <2>2, <3>1 DEF FilesInv, Stored
    <2>3. CASE i \notin known
      <3>1. i = job[r].id /\ job[r].next = "answer"
        BY <2>3
      <3>2. i # NoFile /\ disk[i] = "whole"
        BY <3>1 DEF FilesInv, JobsInv
      <3>3. \A s \in Reqs \ {r} : job[s].id # i
        BY <3>1, <3>2 DEF FilesInv, JobsInv
      <3> QED
        BY <1>3, <2>1, <3>2, <3>3
    <2> QED
      BY <2>2, <2>3
  <1>8. BodyInv'
    <2>1. NoJob.next = "none"
      BY DEF NoJob
    <2> QED
      BY <1>2, <1>3, <2>1 DEF FilesInv, BodyInv
  <1> QED
    BY <1>2, <1>5, <1>6, <1>7, <1>8 DEF FilesInv

\* A step of an upload that changes nothing of the limiter: what it writes and
\* where it stands fit together, and it takes no one else's file.
LEMMA ProceedStep ==
  ASSUME FilesInv, NEW r \in Reqs, UNCHANGED <<vars, known>>,
         NEW step \in {"body", "iv", "ciphertext", "answer"},
         NEW i \in Ids \cup {NoFile},
         pc[r] = "handle", variant = "lockFirst",
         job' = [job EXCEPT ![r] = [next |-> step, id |-> i]],
         disk' \in [Ids -> {NoFile, "part", "whole"}],
         i = NoFile <=> step = "body",
         step \in {"iv", "ciphertext"} => disk'[i] = "part",
         step = "answer" => disk'[i] = "whole",
         step = "body" => now <= stamp[r] + ReadTimeout,
         i # NoFile => \A s \in Reqs \ {r} : job[s].id # i,
         \A k \in Ids : k # i => disk'[k] = disk[k],
         i \notin known
  PROVE  FilesInv'
  <1>1. IInv' /\ TypeOK' /\ PassedInv' /\ PlacesInv'
    BY LimiterUnchanged
  <1>2. /\ job' \in [Reqs -> [next : {"none", "body", "iv", "ciphertext", "answer"},
                              id : Ids \cup {NoFile}]]
        /\ job'[r] = [next |-> step, id |-> i]
        /\ \A s \in Reqs \ {r} : job'[s] = job[s]
    BY DEF FilesInv, StorageTypeOK
  <1>3. job'[r].next = step /\ job'[r].id = i
    BY <1>2
  <1>4. UNCHANGED <<variant, pc, now, stamp, known>>
    BY DEF vars
  <1>5. StorageTypeOK'
    <2>1. known' \in SUBSET Ids
      BY <1>4 DEF FilesInv, StorageTypeOK
    <2>2. \A s \in Reqs : pc'[s] # "handle" => job'[s] = NoJob
      BY <1>2, <1>4 DEF FilesInv, StorageTypeOK
    <2> QED
      BY <1>1, <1>2, <2>1, <2>2 DEF StorageTypeOK
  <1>6. JobsInv'
    <2>1. variant' # "lockFirst" => job' = [s \in Reqs |-> NoJob]
      BY <1>4
    <2>2. \A s \in Reqs : job'[s].id = NoFile <=> job'[s].next \in {"none", "body"}
      BY <1>2, <1>3 DEF FilesInv, JobsInv
    <2>3. \A s, t \in Reqs : job'[s].id = job'[t].id /\ job'[s].id # NoFile => s = t
      BY <1>2, <1>3 DEF FilesInv, JobsInv
    <2>4. \A s \in Reqs : /\ job'[s].next \in {"iv", "ciphertext"} => disk'[job'[s].id] = "part"
                          /\ job'[s].next = "answer" => disk'[job'[s].id] = "whole"
      <3> SUFFICES ASSUME NEW s \in Reqs
                   PROVE  /\ job'[s].next \in {"iv", "ciphertext"} => disk'[job'[s].id] = "part"
                          /\ job'[s].next = "answer" => disk'[job'[s].id] = "whole"
        OBVIOUS
      <3>1. CASE s = r
        BY <1>3, <3>1
      <3>2. CASE s # r /\ job[s].next \in {"iv", "ciphertext", "answer"}
        <4>1. job[s].id # NoFile
          BY <3>2 DEF FilesInv, JobsInv
        <4>2. job[s].id \in Ids /\ job[s].id # i
          BY <3>2, <4>1, JobType
        <4> QED
          BY <1>2, <3>2, <4>2 DEF FilesInv, JobsInv
      <3>3. CASE s # r /\ job[s].next \notin {"iv", "ciphertext", "answer"}
        BY <1>2, <3>3
      <3> QED
        BY <3>1, <3>2, <3>3
    <2> QED
      BY <2>1, <2>2, <2>3, <2>4 DEF JobsInv
  <1>7. Stored'
    <2> SUFFICES ASSUME NEW k \in known
                 PROVE disk'[k] = "whole" /\ \A s \in Reqs : job'[s].id # k
      BY <1>4 DEF Stored
    <2>1. k \in Ids /\ k # i
      BY DEF FilesInv, StorageTypeOK
    <2> QED
      BY <1>2, <1>3, <2>1 DEF FilesInv, Stored
  <1>8. BodyInv'
    BY <1>2, <1>3, <1>4 DEF FilesInv, BodyInv
  <1> QED
    BY <1>1, <1>5, <1>6, <1>7, <1>8 DEF FilesInv

LEMMA ProceedJob ==
  ASSUME FilesInv, NEW r \in Reqs,
         NEW step \in {"body", "iv", "ciphertext", "answer"}, Proceed(r, step)
  PROVE  job' = [job EXCEPT ![r] = [next |-> step, id |-> job[r].id]]
  <1>1. job' = [job EXCEPT ![r] = [job[r] EXCEPT !.next = step]]
    BY DEF Proceed
  <1>2. job[r] \in [next : {"none", "body", "iv", "ciphertext", "answer"}, id : Ids \cup {NoFile}]
    BY DEF FilesInv, StorageTypeOK
  <1>3. [job[r] EXCEPT !.next = step] = [next |-> step, id |-> job[r].id]
    BY <1>2
  <1> QED
    BY <1>1, <1>3

\* The steps of an upload.
LEMMA UploadSteps ==
  ASSUME FilesInv, NEW r \in Reqs,
         Upload(r) \/ Create(r) \/ WriteIv(r) \/ WriteCiphertext(r)
  PROVE  FilesInv'
  <1>1. /\ job \in [Reqs -> [next : {"none", "body", "iv", "ciphertext", "answer"},
                             id : Ids \cup {NoFile}]]
        /\ disk \in [Ids -> {NoFile, "part", "whole"}]
        /\ known \in SUBSET Ids /\ NoFile \notin Ids
    BY FileAssumption DEF FilesInv, StorageTypeOK
  <1>2. job[r].id # NoFile => /\ job[r].id \in Ids
                              /\ \A s \in Reqs \ {r} : job[s].id # job[r].id
                              /\ job[r].id \notin known
    <2>1. job[r].id \in Ids \cup {NoFile} /\ job[r].id \notin known
      BY JobType DEF FilesInv, Stored
    <2>2. job[r].id # NoFile => \A s \in Reqs \ {r} : job[s].id # job[r].id
      BY DEF FilesInv, JobsInv
    <2> QED
      BY <2>1, <2>2
  <1>3. CASE Upload(r)
    <2>1. job[r] = NoJob /\ NoJob.id = NoFile
      BY <1>3 DEF Upload, Handling, NoJob
    <2>2. job' = [job EXCEPT ![r] = [next |-> "body", id |-> NoFile]]
      BY <1>3, <2>1, ProceedJob DEF Upload
    <2> QED
      BY <1>1, <1>3, <2>2, ProceedStep DEF Upload, Handling, Proceed
  <1>4. CASE Create(r)
    <2>1. pc[r] = "handle" /\ variant = "lockFirst"
      BY <1>4, JobType DEF Create
    <2>2. PICK i \in Ids : /\ disk[i] = NoFile
                           /\ job' = [job EXCEPT ![r] = [next |-> "iv", id |-> i]]
                           /\ disk' = [disk EXCEPT ![i] = "part"]
      BY <1>4 DEF Create
    <2>3. i \notin known /\ \A s \in Reqs : job[s].id # i
      <3>1. i \notin known
        BY <2>2 DEF FilesInv, Stored, NoFile
      <3>2. ASSUME NEW s \in Reqs, job[s].id = i PROVE FALSE
        <4>1. job[s].next \in {"iv", "ciphertext", "answer"}
          BY <1>1, <3>2, JobType DEF FilesInv, JobsInv
        <4> QED
          BY <2>2, <3>2, <4>1 DEF FilesInv, JobsInv, NoFile
      <3> QED
        BY <3>1, <3>2
    <2> QED
      BY <1>1, <1>4, <2>1, <2>2, <2>3, ProceedStep DEF Create
  <1>5. CASE WriteIv(r)
    <2>1. job[r].next = "iv" /\ disk[job[r].id] = "part" /\ job[r].id # NoFile
      BY <1>5 DEF WriteIv, FilesInv, JobsInv
    <2>2. pc[r] = "handle" /\ variant = "lockFirst"
      BY <2>1, JobType
    <2>3. job' = [job EXCEPT ![r] = [next |-> "ciphertext", id |-> job[r].id]]
      BY <1>5, ProceedJob DEF WriteIv
    <2>4. UNCHANGED <<vars, known>> /\ disk' = disk
      BY <1>5 DEF WriteIv, Proceed
    <2> QED
      BY <1>1, <1>2, <2>1, <2>2, <2>3, <2>4, ProceedStep
  <1>6. CASE WriteCiphertext(r)
    <2>1. job[r].next = "ciphertext" /\ job[r].id # NoFile
      BY <1>6 DEF WriteCiphertext, FilesInv, JobsInv
    <2>2. pc[r] = "handle" /\ variant = "lockFirst"
      BY <2>1, JobType
    <2>3. job' = [job EXCEPT ![r] = [next |-> "answer", id |-> job[r].id]]
      BY <1>6, ProceedJob DEF WriteCiphertext
    <2>4. /\ disk' \in [Ids -> {NoFile, "part", "whole"}] /\ disk'[job[r].id] = "whole"
          /\ \A k \in Ids : k # job[r].id => disk'[k] = disk[k]
      <3>1. disk' = [disk EXCEPT ![job[r].id] = "whole"] /\ job[r].id \in Ids
        BY <1>2, <1>6, <2>1 DEF WriteCiphertext
      <3> QED
        BY <1>1, <3>1
    <2>5. UNCHANGED <<vars, known>> /\ "answer" # "body"
      BY <1>6 DEF WriteCiphertext, Proceed
    <2> QED
      BY <1>2, <2>1, <2>2, <2>3, <2>4, <2>5, ProceedStep
  <1> QED
    BY <1>3, <1>4, <1>5, <1>6

\* A crash leaves the disk and what clients know, and nothing else.
LEMMA CrashStep ==
  ASSUME FilesInv, Crash
  PROVE  FilesInv'
  <1> USE DEF Crash
  <1>1. IInv' /\ TypeOK'
    BY RestartStep DEF FilesInv, IInv
  <1>2. PassedInv'
    BY DEF FilesInv, PassedInv, Restart
  <1>3. \A r \in Reqs : pc'[r] = "idle"
    BY DEF Restart
  <1>4. /\ \A r \in Reqs : job'[r] = NoJob
        /\ NoJob = [next |-> "none", id |-> NoFile] /\ NoFile \notin Ids
        /\ NoJob.next = "none" /\ NoJob.id = NoFile
    BY FileAssumption DEF NoJob
  <1>5. StorageTypeOK'
    BY <1>1, <1>4 DEF FilesInv, StorageTypeOK
  <1>6. JobsInv' /\ BodyInv'
    BY <1>4 DEF JobsInv, BodyInv
  <1>7. Stored'
    BY <1>4 DEF FilesInv, StorageTypeOK, Stored
  <1>8. PlacesInv'
    <2> SUFFICES ASSUME NEW a \in Ips
                 PROVE \E f \in [Held(a)' -> 1..Len(passed'[a])] : IsPlacement(f, a)'
      BY DEF PlacesInv
    <2>1. Held(a)' = {}
      BY <1>3 DEF Held
    <2>2. [r \in {} |-> 0] \in [Held(a)' -> 1..Len(passed'[a])]
      BY <2>1
    <2>3. IsPlacement([r \in {} |-> 0], a)'
      BY <2>1, <2>2 DEF IsPlacement
    <2> QED
      BY <2>2, <2>3
  <1> QED
    BY <1>1, <1>2, <1>5, <1>6, <1>7, <1>8 DEF FilesInv

\* Every step of the service keeps the invariant.
LEMMA FilesStep == FilesInv /\ [FilesNext]_fileVars => FilesInv'
  <1> SUFFICES ASSUME FilesInv, [FilesNext]_fileVars PROVE FilesInv'
    OBVIOUS
  <1>1. CASE UNCHANGED fileVars
    <2>1. UNCHANGED vars /\ UNCHANGED storageVars
      BY <1>1 DEF fileVars
    <2>2. StorageTypeOK' /\ JobsInv' /\ Stored' /\ BodyInv'
      <3>1. IInv' /\ \A r \in Reqs : job[r] # NoJob => pc'[r] = "handle" /\ stamp'[r] = stamp[r]
        BY <2>1, JobType, LimiterUnchanged DEF vars
      <3> QED
        BY <2>1, <3>1, StorageStays DEF vars, storageVars
    <2> QED
      BY <2>1, <2>2, LimiterUnchanged DEF FilesInv
  <1>2. ASSUME NEW r \in Reqs, Download(r) \/ Reject(r) \/ UploadFails(r) \/ Created(r)
        PROVE  FilesInv'
    BY <1>2, AnswerStep DEF Download, Reject, UploadFails, Created
  <1> QED
    BY <1>1, <1>2, TimeStep, LimitedStep, UploadSteps, CrashStep DEF FilesNext

\* The invariant holds in every behaviour of the service.
THEOREM FilesInvariance == FilesSpec => []FilesInv
  BY FilesInitInv, FilesStep, PTL DEF FilesSpec

\* An upload under way is one that was let through and has an id once it has a
\* file (filetransfer 121-229).
THEOREM StorageTypeCorrect == FilesSpec => []StorageTypeOK
  <1>1. FilesInv => StorageTypeOK
    BY DEF FilesInv
  <1> QED
    BY <1>1, FilesInvariance, PTL

\* With the handlers behind it too, what the limiter lets through in a window
\* is bounded on the real clock, unless the service started again within it:
\* only then it has forgotten those it let through before (filetransfer 58-79).
THEOREM FilesBounded == FilesSpec => []SlidingLimit
  <1>1. FilesInv => SlidingLimit
    BY DEF FilesInv, IInv
  <1> QED
    BY <1>1, FilesInvariance, PTL

\* With the handlers behind it and a crash at any time the limiter still
\* refuses a request only when it should (filetransfer 58-79).
THEOREM FilesRefusalsAreRight == FilesSpec => RefusedWhenFull
  <1>1. ASSUME FilesInv, [FilesNext]_fileVars,
               NEW r \in Reqs, pc[r] = "wait", pc'[r] = "refuse"
        PROVE  FullFor(ip[r], stamp'[r])
    <2>1. ~ Crash /\ ~ UNCHANGED vars
      BY <1>1 DEF Crash, Restart, vars
    <2>2. Next
      BY <1>1, <2>1
      DEF FilesNext, fileVars, Time, Limited, Download, Upload, Reject, Create, UploadFails,
          WriteIv, WriteCiphertext, Created, Answer, Proceed, Next
    <2> QED
      BY <1>1, <2>2, RefusalStep DEF FilesInv
  <1>2. FilesInv /\ [FilesNext]_fileVars =>
          [ \A r \in Reqs :
              pc[r] = "wait" /\ pc'[r] = "refuse" => FullFor(ip[r], stamp'[r]) ]_vars
    BY <1>1
  <1> QED
    BY <1>2, FilesInvariance, PTL DEF FilesSpec, RefusedWhenFull

\* A file that a client has the id of is whole and stays untouched, through
\* failures and crashes (filetransfer 162-229).
THEOREM FilesStored == FilesSpec => []Stored
  <1>1. FilesInv => Stored
    BY DEF FilesInv
  <1> QED
    BY <1>1, FilesInvariance, PTL

\* The requests of an address whose body is being read.
Bodies(a) == {r \in Reqs : ip[r] = a /\ job[r].next = "body"}

\* All of them have a place among the last Limit that were let through.
LEMMA BodiesPlaced ==
  ASSUME FilesInv, variant = "lockFirst", NEW a \in Ips, NEW n \in Nat, n = Len(passed[a]),
         NEW f \in [Held(a) -> 1..Len(passed[a])], IsPlacement(f, a), NEW r \in Bodies(a)
  PROVE  r \in Held(a) /\ f[r] \in (n - Limit + 1)..n
  <1>1. r \in Reqs /\ job[r].next = "body" /\ r \in Held(a)
    BY JobType DEF Bodies, Held
  <1>2. now <= stamp[r] + ReadTimeout /\ stamp[r] \in Nat /\ now \in Nat
    BY <1>1 DEF FilesInv, IInv, TypeOK, BodyInv
  <1>3. PICK k \in 1..n : k = f[r]
    BY <1>1
  <1>4. passed[a] \in Seq(Nat) /\ passed[a][k] = stamp[r]
    BY <1>1, <1>3 DEF FilesInv, IInv, TypeOK, IsPlacement
  <1>5. ASSUME k <= n - Limit PROVE FALSE
    <2>1. k + Limit \in (Limit + 1)..n /\ k + Limit \in 1..n /\ (k + Limit) - Limit = k
      BY <1>5
    <2>2. ~ Forgotten(a, k, k + Limit)
      <3>1. \A i \in restarts[a] : i < k /\ i \in Nat
        BY <1>1, <1>3 DEF FilesInv, IInv, TypeOK, IsPlacement
      <3> QED
        BY <3>1 DEF Forgotten
    <2>3. passed[a][k + Limit] - passed[a][k] > Window - Lateness
      BY <2>1, <2>2 DEF FilesInv, IInv, SlidingLimit
    <2>4. passed[a][k + Limit] <= now /\ passed[a][k + Limit] \in Nat
      BY <1>4, <2>1, IsTime DEF FilesInv, PassedInv
    <2>5. Lateness = 0
      BY DEF Lateness
    <2>6. PICK t \in Nat : t = passed[a][k + Limit]
      BY <2>4
    <2>7. t - stamp[r] > Window /\ t <= now
      BY <1>4, <2>3, <2>4, <2>5, <2>6
    <2> QED
      BY <1>2, <2>7, FileAssumption
  <1> QED
    BY <1>1, <1>3, <1>5

\* The service never reads more than Limit bodies of one address at a time,
\* however slowly they come (filetransfer 58-79, 106-119, 265-272).
THEOREM FilesBodiesBounded == FilesSpec => []BodiesBounded
  <1>1. ASSUME FilesInv, NEW a \in Ips PROVE Cardinality(Bodies(a)) <= Limit
    <2>1. CASE variant # "lockFirst"
      <3>1. Bodies(a) = {}
        BY <1>1, <2>1, JobType DEF Bodies
      <3> QED
        BY <3>1, FS_EmptySet
    <2>2. CASE variant = "lockFirst"
      <3>1. PICK n \in Nat : n = Len(passed[a])
        BY <1>1 DEF FilesInv, IInv, TypeOK
      <3>2. PICK f \in [Held(a) -> 1..Len(passed[a])] : IsPlacement(f, a)
        BY <1>1, <2>2 DEF FilesInv, PlacesInv
      <3>3. \A r \in Bodies(a) : r \in Held(a) /\ f[r] \in (n - Limit + 1)..n
        BY <1>1, <2>2, <3>1, <3>2, BodiesPlaced
      <3> DEFINE g == [r \in Bodies(a) |-> f[r]]
      <3>4. g \in Injection(Bodies(a), (n - Limit + 1)..n)
        BY <3>2, <3>3, Fun_IsInj DEF IsPlacement
      <3>5. /\ IsFiniteSet((n - Limit + 1)..n)
            /\ Cardinality((n - Limit + 1)..n) = Limit
        <4>1. n - Limit + 1 \in Int /\ n \in Int /\ n - (n - Limit + 1) + 1 = Limit
              /\ n - Limit + 1 <= n
          OBVIOUS
        <4> QED
          BY <4>1, FS_Interval
      <3> QED
        BY <3>4, <3>5, FS_Injection
    <2> QED
      BY <2>1, <2>2
  <1>2. FilesInv => BodiesBounded
    BY <1>1 DEF BodiesBounded, Bodies
  <1> QED
    BY <1>2, FilesInvariance, PTL
=============================================================================

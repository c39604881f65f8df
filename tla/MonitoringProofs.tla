-------------------------- MODULE MonitoringProofs --------------------------
(***************************************************************************)
(* Proofs about Monitoring, for any number of senders, readers, requests   *)
(* and rows, any page, windows, times to live, latencies and percentiles.  *)
(***************************************************************************)
EXTENDS Monitoring, FiniteSetTheorems, FunctionTheorems, WellFoundedInduction, TLAPS

-----------------------------------------------------------------------------
(***************************************************************************)
(* Types, component by component.                                          *)
(***************************************************************************)

\* A step of the table leaves the rows it has, new ones come in now, and the
\* clock does not go back.
Grows ==
  /\ now' \in Nat /\ now <= now'
  /\ messages' \in Seq(Row) /\ Len(messages') \in Nat
  /\ Len(messages) <= Len(messages')
  /\ \A i \in 1..Len(messages) : messages'[i] = messages[i]
  /\ \A i \in 1..Len(messages') : i > Len(messages) => messages'[i].at = now

\* What Append does to the table.
LEMMA AddRow ==
  ASSUME NEW q \in Seq(Row), NEW e \in Row
  PROVE  /\ Append(q, e) \in Seq(Row)
         /\ Len(q) \in Nat
         /\ Len(Append(q, e)) = Len(q) + 1
         /\ \A k \in 1..Len(q) : Append(q, e)[k] = q[k]
         /\ Append(q, e)[Len(q) + 1] = e
  OBVIOUS

\* Every place of the table holds a row.
LEMMA IsRow ==
  ASSUME NEW q \in Seq(Row), NEW k \in 1..Len(q)
  PROVE  q[k] \in Row /\ q[k].ts \in Nat /\ q[k].at \in Nat /\ q[k].seen \in Nat
  <1>1. q[k] \in Row
    OBVIOUS
  <1> QED
    BY <1>1 DEF Row

\* The row that an insertion adds.
LEMMA InsertRow ==
  ASSUME TableTypeOK, NEW s \in Senders, Insert(s)
  PROVE  /\ draft[s].ts \in Nat /\ draft[s].seen \in Nat
         /\ [ts |-> draft[s].ts, at |-> now, seen |-> draft[s].seen] \in Row
         /\ messages' = Append(messages, [ts |-> draft[s].ts, at |-> now, seen |-> draft[s].seen])
  <1>1. draft[s] \in [ts : Nat, seen : Nat] /\ now \in Nat
    BY DEF TableTypeOK, Insert
  <1> QED
    BY <1>1 DEF Insert, Row

LEMMA TableTypes ==
  ASSUME TableTypeOK, Tick \/ TableNext
  PROVE  TableTypeOK' /\ Grows
  <1>0. /\ now \in Nat /\ messages \in Seq(Row) /\ Len(messages) \in Nat
        /\ \A i \in 1..Len(messages) : ~ i > Len(messages)
    BY DEF TableTypeOK
  <1>1. CASE Tick
    BY <1>0, <1>1, TableAssumption DEF Tick, TableTypeOK, Grows
  <1>2. CASE CreateTable
    BY <1>0, <1>2 DEF CreateTable, TableTypeOK, Grows
  <1>3. ASSUME NEW s \in Senders, Stamp(s) PROVE TableTypeOK' /\ Grows
    <2>1. [ts |-> now, seen |-> Len(messages)] \in [ts : Nat, seen : Nat]
      BY <1>0
    <2> QED
      BY <1>0, <1>3, <2>1 DEF Stamp, TableTypeOK, Grows
  <1>4. ASSUME NEW s \in Senders, Insert(s) PROVE TableTypeOK' /\ Grows
    <2>0. PICK e \in Row : messages' = Append(messages, e) /\ e.at = now
      BY <1>4, InsertRow
    <2>1. /\ messages' \in Seq(Row) /\ Len(messages') = Len(messages) + 1
          /\ \A k \in 1..Len(messages) : messages'[k] = messages[k]
          /\ messages'[Len(messages) + 1] = e
      BY <1>0, <2>0, AddRow
    <2>3. \A i \in 1..Len(messages') : i > Len(messages) => messages'[i].at = now
      <3>1. \A i \in 1..Len(messages') : i > Len(messages) => i = Len(messages) + 1
        BY <1>0, <2>1
      <3> QED
        BY <2>0, <2>1, <3>1
    <2>2. draft' \in [Senders -> [ts : Nat, seen : Nat] \cup {NoDraft}]
      BY <1>4 DEF Insert, TableTypeOK
    <2> QED
      BY <1>0, <1>4, <2>1, <2>2, <2>3 DEF Insert, TableTypeOK, Grows
  <1>5. ASSUME NEW s \in Senders, InsertFails(s) PROVE TableTypeOK' /\ Grows
    BY <1>0, <1>5 DEF InsertFails, TableTypeOK, Grows
  <1> QED
    BY <1>1, <1>2, <1>3, <1>4, <1>5 DEF TableNext

\* The rows of a window can be counted, and the more the wider it is.
LEMMA RowsCounted ==
  ASSUME TableTypeOK, NEW t \in Int
  PROVE  /\ IsFiniteSet(Rows(t)) /\ Cardinality(Rows(t)) \in Nat
         /\ Cardinality(Rows(t)) <= Len(messages)
  <1>1. PICK n \in Nat : n = Len(messages)
    BY DEF TableTypeOK
  <1>2. IsFiniteSet(1..n) /\ Cardinality(1..n) = n
    BY FS_Interval
  <1>3. Rows(t) \in SUBSET (1..n)
    BY <1>1 DEF Rows
  <1> QED
    BY <1>1, <1>2, <1>3, FS_Subset, FS_CardinalityType

LEMMA Spans == Hour \in Nat /\ Day \in Nat /\ Ttl \in Nat /\ MaxBuild \in Nat /\ Hour <= Day
  BY OverviewAssumption

LEMMA Renewed ==
  ASSUME now \in Nat, NEW x \in Requests, NEW stage \in Stages
  PROVE  [x EXCEPT !.pc = stage, !.since = now] \in Requests
  <1>1. now \in 0..now
    OBVIOUS
  <1> QED
    BY <1>1 DEF Requests

\* Each step of the overview moves one request and keeps its type.
LEMMA OverviewTypes ==
  ASSUME TableTypeOK, OverviewTypeOK, OverviewNext, now' = now
  PROVE  OverviewTypeOK'
  <1>0. now \in Nat /\ Len(messages) \in Nat /\ \A t \in Int : Cardinality(Rows(t)) \in Nat
    BY RowsCounted DEF TableTypeOK
  <1>1. PICK r \in Reqs : \/ Arrive(r) \/ Hit(r) \/ Miss(r) \/ Select(r) \/ SelectFails(r)
                          \/ Cutoff(r) \/ NoMessages(r) \/ Store(r)
    BY DEF OverviewNext
  <1>2. /\ req \in [Reqs -> Requests] /\ req[r] \in Requests
        /\ cache \in [value : [Counts -> Nat], expires : Nat, fault : Faults]
    BY DEF OverviewTypeOK, Requests
  <1>3. Idle \in Requests /\ Zero \in [Counts -> Nat]
    BY <1>0 DEF Idle, Requests, Stages, Zero, Faults
  <1>4. ASSUME NEW x \in Requests, req' = [req EXCEPT ![r] = x], cache' = cache
        PROVE  OverviewTypeOK'
    BY <1>2, <1>4 DEF OverviewTypeOK, Requests
  <1>5. CASE Arrive(r)
    <2>1. [Idle EXCEPT !.pc = "check", !.since = now] \in Requests
      BY <1>0, <1>3, Renewed DEF Stages
    <2> QED
      BY <1>4, <1>5, <2>1 DEF Arrive
  <1>6. CASE Hit(r)
    BY <1>3, <1>4, <1>6 DEF Hit
  <1>7. CASE Miss(r)
    <2>1. [Idle EXCEPT !.pc = "cutoff", !.since = now] \in Requests
      BY <1>0, <1>3, Renewed DEF Stages
    <2> QED
      BY <1>4, <1>7, <2>1 DEF Miss
  <1>8. CASE Select(r)
    <2>1. req[r].pc \in Counts /\ After(req[r].pc) \in Stages
      BY <1>8 DEF Select, Counts, After, Stages
    <2>2. req[r].cut - Hour \in Int /\ req[r].cut - Day \in Int
      <3>1. req[r].cut \in 0..now
        BY <1>2 DEF Requests
      <3>2. now \in Nat /\ Hour \in Nat /\ Day \in Nat
        BY <1>0, Spans
      <3>3. req[r].cut \in Int
        BY <3>1, <3>2
      <3> QED
        BY <3>2, <3>3
    <2>3. CountOf(r) \in Nat
      BY <1>0, <2>1, <2>2 DEF CountOf, Counts
    <2>4. PICK g : g = [req[r].got EXCEPT ![req[r].pc] = CountOf(r)]
      OBVIOUS
    <2>5. g \in [Counts -> Nat]
      BY <1>2, <2>1, <2>3, <2>4 DEF Requests
    <2>6. [req[r] EXCEPT !.pc = After(req[r].pc), !.got = g] \in Requests
      BY <1>2, <2>1, <2>5 DEF Requests
    <2>7. req' = [req EXCEPT ![r] = [req[r] EXCEPT !.pc = After(req[r].pc), !.got = g]]
      BY <1>8, <2>4 DEF Select
    <2> QED
      BY <1>4, <1>8, <2>6, <2>7 DEF Select
  <1>9. CASE SelectFails(r)
    <2>1. [req[r] EXCEPT !.pc = "store", !.got = Zero, !.fault = "select"] \in Requests
      BY <1>2, <1>3 DEF Requests, Stages, Faults
    <2> QED
      BY <1>4, <1>9, <2>1 DEF SelectFails
  <1>10. CASE Cutoff(r)
    <2>1. After(req[r].pc) \in Stages /\ now \in 0..now
      BY <1>0, <1>10 DEF Cutoff, After, Stages, Counts
    <2>2. [req[r] EXCEPT !.pc = After(req[r].pc), !.cut = now] \in Requests
      BY <1>2, <2>1 DEF Requests
    <2> QED
      BY <1>4, <1>10, <2>2 DEF Cutoff
  <1>11. CASE NoMessages(r)
    <2>1. [req[r] EXCEPT !.pc = "store", !.fault = IF exists THEN "select" ELSE "none"] \in Requests
      BY <1>2 DEF Requests, Stages, Faults
    <2> QED
      BY <1>4, <1>11, <2>1 DEF NoMessages
  <1>12. CASE Store(r)
    <2>1. req' \in [Reqs -> Requests]
      BY <1>2, <1>3, <1>12 DEF Store
    <2>2. req[r].got \in [Counts -> Nat] /\ req[r].fault \in Faults /\ now + Ttl \in Nat
      BY <1>0, <1>2, Spans DEF Requests
    <2>3. cache' \in [value : [Counts -> Nat], expires : Nat, fault : Faults]
      BY <1>12, <2>2 DEF Store
    <2> QED
      BY <2>1, <2>3 DEF OverviewTypeOK, Requests
  <1> QED
    BY <1>1, <1>5, <1>6, <1>7, <1>8, <1>9, <1>10, <1>11, <1>12

\* Requests stay what they are while the table grows.
LEMMA OverviewTypesStay ==
  ASSUME TableTypeOK, OverviewTypeOK, Grows, UNCHANGED overviewVars
  PROVE  OverviewTypeOK'
  <1>1. now \in Nat /\ now' \in Nat /\ now <= now'
    BY DEF TableTypeOK, Grows
  <1>2. 0..now \subseteq 0..now'
    BY <1>1
  <1>3. req \in [Reqs -> Requests] /\ req' = req /\ cache' = cache
    BY DEF OverviewTypeOK, overviewVars
  <1>4. Requests \subseteq Requests'
    BY <1>2 DEF Requests
  <1>5. req' \in [Reqs -> Requests']
    BY <1>3, <1>4
  <1> QED
    BY <1>3, <1>5 DEF OverviewTypeOK

LEMMA HistoryTypesStay ==
  ASSUME TableTypeOK, HistoryTypeOK, Grows, UNCHANGED historyVars
  PROVE  HistoryTypeOK'
  <1>1. /\ Len(messages) \in Nat /\ Len(messages') \in Nat /\ Len(messages) <= Len(messages')
    BY DEF TableTypeOK, Grows
  <1>2. 1..Len(messages) \subseteq 1..Len(messages') /\ 0..Len(messages) \subseteq 0..Len(messages')
    BY <1>1
  <1> QED
    BY <1>2 DEF HistoryTypeOK, historyVars

LEMMA HistoryTypes ==
  ASSUME TableTypeOK, HistoryTypeOK, NEW h \in Readers, HistoryHandler(h), UNCHANGED tableVars
  PROVE  HistoryTypeOK'
  <1>1. Len(messages) \in Nat /\ Len(messages) \in 0..Len(messages)
    BY DEF TableTypeOK
  <1>2. ReadTo(Page) \subseteq SUBSET (1..Len(messages))
    BY DEF Page, ReadTo
  <1> QED
    BY <1>1, <1>2 DEF HistoryTypeOK, HistoryHandler, tableVars

-----------------------------------------------------------------------------
(***************************************************************************)
(* The middleware: what it holds of the latencies.                         *)
(***************************************************************************)

\* What is about to be recorded is a latency.
CallInv == \A c \in Calls : call[c].pc = "record" => call[c].latency \in Latencies

\* last is the end of list, as much of it as there is room for.
IsLastOf(last, list) ==
  /\ Len(last) = (IF Len(list) <= SampleLimit THEN Len(list) ELSE SampleLimit)
  /\ \A k \in 1..Len(last) : last[k] = list[(Len(list) - Len(last)) + k]

SamplesInv == IsLastOf(metric.samples, recorded)

LEMMA LastOfList ==
  ASSUME NEW S, NEW list \in Seq(S)
  PROVE  LastOf(list) \in Seq(S) /\ IsLastOf(LastOf(list), list)
  <1>1. PICK n \in Nat, limit \in Nat \ {0} : n = Len(list) /\ limit = SampleLimit
    BY ObservabilityAssumption
  <1>2. CASE n <= limit
    <2>1. LastOf(list) = list
      BY <1>1, <1>2 DEF LastOf
    <2> QED
      BY <1>1, <1>2, <2>1 DEF IsLastOf
  <1>3. CASE n > limit
    <2>1. LastOf(list) = SubSeq(list, n - limit + 1, n)
      BY <1>1, <1>3 DEF LastOf
    <2>2. /\ SubSeq(list, n - limit + 1, n) \in Seq(S)
          /\ Len(SubSeq(list, n - limit + 1, n)) = limit
          /\ \A k \in 1..limit : SubSeq(list, n - limit + 1, n)[k] = list[(n - limit) + k]
      BY <1>1, <1>3
    <2>3. n - limit \in Nat /\ ~ n <= limit
      BY <1>3
    <2> QED
      BY <1>1, <2>1, <2>2, <2>3 DEF IsLastOf
  <1> QED
    BY <1>1, <1>2, <1>3

\* The end of the latencies, with one more, is the end of these with one more.
LEMMA Recorded ==
  ASSUME NEW S, NEW last \in Seq(S), NEW list \in Seq(S), NEW e \in S, IsLastOf(last, list)
  PROVE  IsLastOf(LastOf(Append(last, e)), Append(list, e))
  <1>1. PICK m \in Nat, n \in Nat, limit \in Nat \ {0} :
          m = Len(last) /\ n = Len(list) /\ limit = SampleLimit
    BY ObservabilityAssumption
  <1>2. /\ m = (IF n <= limit THEN n ELSE limit)
        /\ \A k \in 1..m : last[k] = list[(n - m) + k]
    BY <1>1 DEF IsLastOf
  <1>3. PICK more : more = Append(last, e)
    OBVIOUS
  <1>4. PICK all : all = Append(list, e)
    OBVIOUS
  <1>5. /\ more \in Seq(S) /\ Len(more) = m + 1 /\ more[m + 1] = e
        /\ \A k \in 1..m : more[k] = last[k]
    BY <1>1, <1>3
  <1>6. /\ all \in Seq(S) /\ Len(all) = n + 1 /\ all[n + 1] = e
        /\ \A k \in 1..n : all[k] = list[k]
    BY <1>1, <1>4
  <1>7. PICK x : x = LastOf(more)
    OBVIOUS
  <1>8. PICK j \in Nat : /\ j = Len(x) /\ j = (IF m + 1 <= limit THEN m + 1 ELSE limit)
                         /\ \A k \in 1..j : x[k] = more[((m + 1) - j) + k]
    <2>1. x \in Seq(S) /\ IsLastOf(x, more)
      BY <1>5, <1>7, LastOfList
    <2>2. PICK j \in Nat : j = Len(x)
      BY <2>1
    <2>3. /\ j = (IF m + 1 <= limit THEN m + 1 ELSE limit)
          /\ \A k \in 1..j : x[k] = more[((m + 1) - j) + k]
      BY <1>1, <1>5, <2>1, <2>2 DEF IsLastOf
    <2> QED
      BY <2>2, <2>3
  <1>9. /\ j = IF n + 1 <= limit THEN n + 1 ELSE limit
        /\ j <= m + 1 /\ j <= n + 1
    BY <1>2, <1>8
  <1>10. ASSUME NEW k \in 1..j PROVE x[k] = all[((n + 1) - j) + k]
    <2>0. ((m + 1) - j) + k \in 1..(m + 1)
      BY <1>9
    <2>1. PICK i \in 1..(m + 1) : i = ((m + 1) - j) + k
      BY <2>0
    <2>2. x[k] = more[i]
      BY <1>8, <2>1
    <2>3. CASE i = m + 1
      <3>1. ((n + 1) - j) + k = n + 1
        BY <2>1, <2>3
      <3> QED
        BY <1>5, <1>6, <2>2, <2>3, <3>1
    <2>4. CASE i \in 1..m
      <3>1. (n - m) + i = ((n + 1) - j) + k /\ (n - m) + i \in 1..n
        BY <1>2, <2>1, <2>4
      <3>2. more[i] = list[(n - m) + i]
        BY <1>2, <1>5, <2>4
      <3> QED
        BY <1>6, <2>2, <3>1, <3>2
    <2> QED
      BY <2>3, <2>4
  <1> QED
    BY <1>1, <1>3, <1>4, <1>6, <1>7, <1>8, <1>9, <1>10 DEF IsLastOf

\* One call at a time has the lock; nothing was written to the file of a later
\* day than the one it read, and its line is not from a later day either.
LinesInv ==
  /\ \A c \in Calls : call[c].ts <= today
  /\ \A c \in Calls : call[c].pc = "write" =>
       /\ call[c].ts <= call[c].date /\ call[c].date <= today
       /\ \A e \in Dates : files[e] # << >> => e <= call[c].date
  /\ \A c, d \in Calls : call[c].pc = "write" /\ call[d].pc = "write" => c = d
  /\ \A e \in Dates : files[e] # << >> => e <= today

\* What the middleware keeps of all this.
ObservabilityInv == ObservabilityTypeOK /\ CallInv /\ SamplesInv /\ LinesInv

Call == [pc : {"idle", "record", "log", "write"}, latency : Nat,
         status : {"ok", "error"}, ts : Dates, date : Dates]

LEMMA IsDate == /\ 0 \in Dates /\ \A d \in Dates : d \in Nat
                /\ MaxDay \in Nat
  BY ObservabilityAssumption DEF Dates

\* The record of a call that was recorded.
LEMMA IsStage ==
  ASSUME NEW label \in {"idle", "log", "write"}, NEW ts \in Dates, NEW date \in Dates
  PROVE  /\ Stage(label, ts, date) \in Call
         /\ Stage(label, ts, date).pc = label
         /\ Stage(label, ts, date).ts = ts /\ Stage(label, ts, date).date = date
  BY DEF Stage, Call

LEMMA ObservabilityInitInv == ObservabilityInit => ObservabilityInv
  <1> SUFFICES ASSUME ObservabilityInit PROVE ObservabilityInv
    OBVIOUS
  <1> USE ObservabilityAssumption DEF ObservabilityInit
  <1>1. NoCall \in Call /\ NoCall.pc = "idle" /\ NoCall.ts = 0
    BY IsDate, IsStage DEF NoCall
  <1>2. /\ metric.samples = << >> /\ metric.count = 0 /\ metric.errors = 0
        /\ metric \in [count : Nat, errors : Nat, samples : Seq(Latencies)]
    OBVIOUS
  <1>3. sink \in [file : {"none", "open"}, date : Dates \cup {NoDate}]
    OBVIOUS
  <1>4. ObservabilityTypeOK
    BY <1>1, <1>2, <1>3, IsDate DEF ObservabilityTypeOK, Call
  <1>5. CallInv /\ LinesInv
    BY <1>1 DEF CallInv, LinesInv
  <1>6. SamplesInv
    BY <1>2 DEF SamplesInv, IsLastOf
  <1> QED
    BY <1>4, <1>5, <1>6 DEF ObservabilityInv

\* What a step of c makes of the calls.
LEMMA CallChanged ==
  ASSUME ObservabilityTypeOK, NEW c \in Calls, NEW new \in Call, call' = [call EXCEPT ![c] = new]
  PROVE  /\ call' \in [Calls -> Call] /\ call'[c] = new
         /\ \A d \in Calls \ {c} : call'[d] = call[d]
  BY DEF ObservabilityTypeOK, Call

\* The steps of a call before it has the lock, and the change of the date.
LEMMA LinesStay ==
  ASSUME ObservabilityTypeOK, LinesInv, UNCHANGED files, today' \in Dates, today <= today',
         NEW c \in Calls, NEW new \in Call, new.pc # "write", new.ts <= today',
         call' = [call EXCEPT ![c] = new]
  PROVE  LinesInv'
  <1>1. /\ call'[c] = new /\ \A d \in Calls \ {c} : call'[d] = call[d]
    BY CallChanged
  <1>2. /\ today \in Nat /\ today' \in Nat /\ \A e \in Dates : e \in Nat
        /\ \A d \in Calls : call[d].ts \in Nat /\ call[d].date \in Nat
    BY IsDate DEF ObservabilityTypeOK
  <1>3. \A d \in Calls : call'[d].ts <= today'
    BY <1>1, <1>2 DEF LinesInv
  <1>4. \A d \in Calls : call'[d].pc = "write" => call'[d] = call[d]
    BY <1>1
  <1>5. ASSUME NEW d \in Calls, call'[d].pc = "write"
        PROVE  /\ call'[d].ts <= call'[d].date /\ call'[d].date <= today'
               /\ \A e \in Dates : files'[e] # << >> => e <= call'[d].date
    <2>1. call'[d] = call[d] /\ call[d].pc = "write"
      BY <1>4, <1>5
    <2>2. call[d].ts <= call[d].date /\ call[d].date <= today
      BY <2>1 DEF LinesInv
    <2>3. \A e \in Dates : files[e] # << >> => e <= call[d].date
      BY <2>1 DEF LinesInv
    <2> QED
      BY <1>2, <2>1, <2>2, <2>3
  <1>6. \A d, e \in Calls : call'[d].pc = "write" /\ call'[e].pc = "write" => d = e
    BY <1>4 DEF LinesInv
  <1>7. \A e \in Dates : files'[e] # << >> => e <= today'
    BY <1>2 DEF LinesInv
  <1> QED
    BY <1>3, <1>5, <1>6, <1>7 DEF LinesInv

\* The holder of the lock adds its line to the end of the latest file there is.
LEMMA LineWritten ==
  ASSUME ObservabilityInv, NEW c \in Calls, WriteLog(c)
  PROVE  \/ files' = files
         \/ \E piece \in Pieces :
              /\ piece.ts <= call[c].date
              /\ files' = [files EXCEPT ![call[c].date] = Append(@, piece)]
  <1>1. /\ call[c].ts \in Dates /\ call[c].date \in Dates /\ call[c].ts <= call[c].date
    BY DEF WriteLog, ObservabilityInv, ObservabilityTypeOK, LinesInv
  <1>2. CASE WriteLine(c) /\ sink'.date = call[c].date
    <2>1. CASE UNCHANGED files
      BY <2>1
    <2>2. CASE ~ UNCHANGED files
      <3>1. PICK size \in {"whole", "part"} :
              files' = [files EXCEPT ![call[c].date] = Append(@, [ts |-> call[c].ts, size |-> size])]
        BY <1>2, <2>2 DEF WriteLine
      <3>2. PICK piece \in Pieces : piece = [ts |-> call[c].ts, size |-> size]
        BY <1>1 DEF Pieces
      <3> QED
        BY <1>1, <3>1, <3>2
    <2> QED
      BY <2>1, <2>2
  <1>3. CASE UNCHANGED files
    BY <1>3
  <1> QED
    BY <1>2, <1>3 DEF WriteLog, OpenFails, MustOpen

\* Each step of the middleware.
LEMMA ObservabilityStep ==
  ASSUME ObservabilityInv, ObservabilityNext
  PROVE  ObservabilityInv'
  <1> USE DEF ObservabilityInv
  <1>0. /\ today \in Dates /\ today \in Nat /\ today <= today
        /\ call \in [Calls -> Call]
    BY IsDate DEF ObservabilityTypeOK, Call
  <1>1. CASE Midnight
    <2>1. today' \in Dates /\ today <= today'
      BY <1>1, ObservabilityAssumption DEF Midnight, ObservabilityTypeOK, Dates
    <2>2. /\ today' \in Nat /\ \A e \in Dates : e \in Nat
          /\ \A d \in Calls : call[d].ts \in Nat /\ call[d].date \in Nat
      BY <2>1, IsDate DEF ObservabilityTypeOK
    <2>3. LinesInv'
      BY <1>0, <1>1, <2>1, <2>2 DEF Midnight, LinesInv
    <2> QED
      BY <1>1, <2>1, <2>3 DEF Midnight, ObservabilityTypeOK, CallInv, SamplesInv
  <1>2. ASSUME NEW c \in Calls, Handled(c) PROVE ObservabilityInv'
    <2>1. PICK l \in Latencies, s \in {"ok", "error"} :
            call' = [call EXCEPT ![c] =
                       [pc |-> "record", latency |-> l, status |-> s, ts |-> 0, date |-> 0]]
      BY <1>2 DEF Handled
    <2>2. PICK new \in Call :
            new = [pc |-> "record", latency |-> l, status |-> s, ts |-> 0, date |-> 0]
      BY ObservabilityAssumption, IsDate DEF Call
    <2>3. /\ call' \in [Calls -> Call] /\ call'[c] = new
          /\ \A d \in Calls \ {c} : call'[d] = call[d]
      BY <2>1, <2>2, CallChanged
    <2>4. ObservabilityTypeOK'
      BY <1>2, <2>3 DEF Handled, ObservabilityTypeOK, Call
    <2>5. CallInv'
      BY <2>2, <2>3 DEF CallInv
    <2>6. /\ new.pc # "write" /\ new.ts <= today'
          /\ today' \in Dates /\ today <= today' /\ UNCHANGED files
          /\ call' = [call EXCEPT ![c] = new]
      <3>1. new.pc = "record" /\ new.ts = 0
        BY <2>2
      <3>2. 0 <= today /\ UNCHANGED <<today, files>>
        BY <1>0, <1>2 DEF Handled
      <3> QED
        BY <1>0, <2>1, <2>2, <3>1, <3>2
    <2>7. LinesInv'
      BY <2>6, LinesStay
    <2> QED
      BY <1>2, <2>4, <2>5, <2>7 DEF Handled, SamplesInv
  <1>3. ASSUME NEW c \in Calls, Record(c) PROVE ObservabilityInv'
    <2>1. PICK l \in Latencies : l = call[c].latency
      BY <1>3 DEF Record, CallInv
    <2>2. PICK q \in Seq(Latencies) : q = metric.samples
      BY DEF ObservabilityTypeOK
    <2>3. PICK p : p = LastOf(Append(q, l))
      OBVIOUS
    <2>4. recorded \in Seq(Latencies) /\ IsLastOf(q, recorded)
      BY <2>2 DEF ObservabilityTypeOK, SamplesInv
    <2>5. Append(recorded, l) \in Seq(Latencies) /\ Append(q, l) \in Seq(Latencies)
      BY <2>4
    <2>6. p \in Seq(Latencies)
      BY <2>3, <2>5, LastOfList
    <2>7. IsLastOf(p, Append(recorded, l))
      BY <2>3, <2>4, Recorded
    <2>8. Len(p) <= SampleLimit
      <3>1. PICK n \in Nat : n = Len(Append(recorded, l))
        BY <2>5
      <3> QED
        BY <2>7, <3>1, ObservabilityAssumption DEF IsLastOf
    <2>9. PICK e \in {0, 1} :
            /\ metric' = [count |-> metric.count + 1, errors |-> metric.errors + e, samples |-> p]
            /\ recorded' = Append(recorded, l)
      BY <1>3, <2>1, <2>2, <2>3 DEF Record
    <2>10. /\ metric' \in [count : Nat, errors : Nat, samples : Seq(Latencies)]
           /\ metric'.errors <= metric'.count /\ metric'.samples = p
      <3>1. PICK n \in Nat, b \in Nat : n = metric.count /\ b = metric.errors /\ b <= n
        BY DEF ObservabilityTypeOK
      <3>2. metric' = [count |-> n + 1, errors |-> b + e, samples |-> p]
        BY <2>9, <3>1
      <3>3. n + 1 \in Nat /\ b + e \in Nat /\ b + e <= n + 1
        BY <3>1
      <3> QED
        BY <2>6, <3>2, <3>3
    <2>11. PICK new \in Call :
             /\ new = Stage("log", today, 0)
             /\ new.pc = "log" /\ new.ts = today
      BY <1>0, IsDate, IsStage
    <2>12. call' = [call EXCEPT ![c] = new]
      BY <1>3, <2>11 DEF Record
    <2>13. /\ call' \in [Calls -> Call] /\ call'[c] = new
           /\ \A d \in Calls \ {c} : call'[d] = call[d]
      BY <2>12, CallChanged
    <2>14. ObservabilityTypeOK'
      BY <1>3, <2>5, <2>8, <2>9, <2>10, <2>13 DEF Record, ObservabilityTypeOK, Call
    <2>15. CallInv'
      BY <2>11, <2>13 DEF CallInv
    <2>16. LinesInv'
      BY <1>0, <1>3, <2>11, <2>12, LinesStay DEF Record
    <2> QED
      BY <2>7, <2>9, <2>10, <2>14, <2>15, <2>16 DEF SamplesInv
  <1>4. ASSUME NEW c \in Calls, TakeSink(c) PROVE ObservabilityInv'
    <2>1. call[c].ts \in Dates /\ call[c].ts <= today
      BY DEF ObservabilityTypeOK, LinesInv
    <2>2. PICK new \in Call :
            /\ new = Stage("write", call[c].ts, today)
            /\ new.pc = "write" /\ new.ts = call[c].ts /\ new.date = today
      <3>1. PICK t \in Dates : t = call[c].ts
        BY <2>1
      <3>2. PICK s : s = Stage("write", t, today)
        OBVIOUS
      <3>3. s \in Call /\ s.pc = "write" /\ s.ts = t /\ s.date = today
        BY <1>0, <3>1, <3>2, IsStage
      <3> QED
        BY <3>1, <3>2, <3>3
    <2>3. call' = [call EXCEPT ![c] = new] /\ UNCHANGED <<metric, today, sink, files, recorded>>
      BY <1>4, <2>2 DEF TakeSink
    <2>4. /\ call' \in [Calls -> Call] /\ call'[c] = new
          /\ \A d \in Calls \ {c} : call'[d] = call[d]
      BY <2>3, CallChanged
    <2>5. ObservabilityTypeOK' /\ SamplesInv'
      BY <2>3, <2>4 DEF ObservabilityTypeOK, Call, SamplesInv
    <2>6. CallInv'
      BY <2>2, <2>4 DEF CallInv
    <2>7. \A d \in Calls \ {c} : call'[d].pc # "write"
      BY <1>4, <2>4 DEF TakeSink
    <2>8. LinesInv'
      BY <1>0, <2>1, <2>2, <2>3, <2>4, <2>7 DEF LinesInv
    <2> QED
      BY <2>5, <2>6, <2>8
  <1>5. ASSUME NEW c \in Calls, WriteLog(c) PROVE ObservabilityInv'
    <2>1. NoCall \in Call /\ NoCall.pc = "idle" /\ NoCall.ts = 0
      BY IsDate, IsStage DEF NoCall
    <2>2. call' = [call EXCEPT ![c] = NoCall] /\ UNCHANGED <<metric, today, recorded>>
      BY <1>5 DEF WriteLog
    <2>3. /\ call' \in [Calls -> Call] /\ call'[c] = NoCall
          /\ \A d \in Calls \ {c} : call'[d] = call[d]
      BY <2>1, <2>2, CallChanged
    <2>4. SamplesInv' /\ CallInv'
      BY <2>1, <2>2, <2>3 DEF SamplesInv, CallInv
    <2>5. /\ call[c].pc = "write" /\ call[c].date \in Dates /\ call[c].date <= today
          /\ \A d \in Calls \ {c} : call[d].pc # "write"
      BY <1>5 DEF WriteLog, ObservabilityTypeOK, LinesInv
    <2>6. /\ files' \in [Dates -> Seq(Pieces)]
          /\ \A e \in Dates : e # call[c].date => files'[e] = files[e]
      <3>1. files \in [Dates -> Seq(Pieces)]
        BY DEF ObservabilityTypeOK
      <3>2. CASE files' = files
        BY <3>1, <3>2
      <3>3. CASE files' # files
        <4>1. PICK piece \in Pieces :
                files' = [files EXCEPT ![call[c].date] = Append(@, piece)]
          BY <1>5, <3>3, LineWritten
        <4> QED
          BY <2>5, <3>1, <4>1
      <3> QED
        BY <3>2, <3>3
    <2>7. sink' \in [file : {"none", "open"}, date : Dates \cup {NoDate}]
      <3>1. sink \in [file : {"none", "open"}, date : Dates \cup {NoDate}]
        BY DEF ObservabilityTypeOK
      <3> QED
        BY <1>5, <2>5, <3>1 DEF WriteLog, OpenFails
    <2>8. ObservabilityTypeOK'
      BY <2>2, <2>3, <2>6, <2>7 DEF ObservabilityTypeOK, Call
    <2>9. LinesInv'
      BY <1>0, <2>1, <2>2, <2>3, <2>5, <2>6, IsDate DEF LinesInv
    <2> QED
      BY <2>4, <2>8, <2>9
  <1> QED
    BY <1>1, <1>2, <1>3, <1>4, <1>5 DEF ObservabilityNext

-----------------------------------------------------------------------------
(***************************************************************************)
(* The table and its history: what a timestamp says of the rows before it, *)
(* and what a page is made of.                                             *)
(***************************************************************************)

\* Rows that a row or a draft has seen are in the table before it, and came in
\* no later than its timestamp.
Saw(seen, ts) == \A k \in 1..seen : messages[k].at <= ts

RowInv(i) ==
  /\ messages[i].seen < i
  /\ messages[i].ts <= messages[i].at /\ messages[i].at <= now
  /\ Saw(messages[i].seen, messages[i].ts)

DraftInv(s) ==
  draft[s] # NoDraft =>
    /\ draft[s].seen <= Len(messages)
    /\ draft[s].ts <= now
    /\ Saw(draft[s].seen, draft[s].ts)

TableInv ==
  /\ \A i \in 1..Len(messages) : RowInv(i)
  /\ \A s \in Senders : DraftInv(s)
  /\ ~ exists => messages = << >> /\ \A s \in Senders : draft[s] = NoDraft

LEMMA SawKept ==
  ASSUME Grows, TableTypeOK, NEW seen \in Nat, seen <= Len(messages), NEW ts, Saw(seen, ts)
  PROVE  Saw(seen, ts)'
  <1>1. \A k \in 1..seen : k \in 1..Len(messages)
    BY DEF TableTypeOK
  <1> QED
    BY <1>1 DEF Saw, Grows

\* The rows that were there keep what is said of them.
LEMMA RowsKept ==
  ASSUME TableTypeOK, TableInv, Grows, NEW i \in 1..Len(messages)
  PROVE  RowInv(i)'
  <1>1. /\ messages[i].seen \in Nat /\ messages[i].ts \in Nat /\ messages[i].at \in Nat
        /\ now \in Nat /\ now' \in Nat /\ now <= now' /\ messages'[i] = messages[i]
        /\ Len(messages) \in Nat
    BY IsRow DEF TableTypeOK, Grows
  <1>2. messages[i].seen < i /\ messages[i].ts <= messages[i].at /\ messages[i].at <= now
        /\ Saw(messages[i].seen, messages[i].ts)
    BY DEF TableInv, RowInv
  <1>3. messages[i].seen <= Len(messages)
    BY <1>1, <1>2
  <1>4. PICK seen \in Nat, ts \in Nat : seen = messages[i].seen /\ ts = messages[i].ts
    BY <1>1
  <1>5. Saw(seen, ts)'
    BY <1>2, <1>3, <1>4, SawKept
  <1> QED
    BY <1>1, <1>2, <1>4, <1>5 DEF RowInv

LEMMA DraftsKept ==
  ASSUME TableTypeOK, TableInv, Grows, NEW s \in Senders,
         draft'[s] = draft[s] \/ draft'[s] = NoDraft
  PROVE  DraftInv(s)'
  <1> SUFFICES ASSUME draft'[s] # NoDraft PROVE DraftInv(s)'
    BY DEF DraftInv, NoDraft
  <1>0. draft'[s] = draft[s] /\ draft[s] # NoDraft
    OBVIOUS
  <1>1. /\ draft[s] \in [ts : Nat, seen : Nat]
        /\ now \in Nat /\ now' \in Nat /\ now <= now'
        /\ Len(messages) \in Nat /\ Len(messages') \in Nat /\ Len(messages) <= Len(messages')
    BY <1>0 DEF TableTypeOK, Grows
  <1>2. PICK seen \in Nat, ts \in Nat : seen = draft[s].seen /\ ts = draft[s].ts
    BY <1>1
  <1>3. seen <= Len(messages) /\ ts <= now /\ Saw(seen, ts)
    BY <1>0, <1>2 DEF TableInv, DraftInv
  <1>4. Saw(seen, ts)'
    BY <1>3, SawKept
  <1> QED
    BY <1>0, <1>1, <1>2, <1>3, <1>4 DEF DraftInv

LEMMA TableInvStep ==
  ASSUME TableTypeOK, TableInv, Tick \/ TableNext
  PROVE  TableInv'
  <1>0. /\ now \in Nat /\ messages \in Seq(Row) /\ Len(messages) \in Nat
        /\ Grows /\ TableTypeOK'
    BY TableTypes DEF TableTypeOK
  <1>1. CASE Tick \/ CreateTable
    <2>1. messages' = messages /\ draft' = draft /\ (~ exists' => ~ exists)
      BY <1>1 DEF Tick, CreateTable
    <2>2. ~ exists' => messages' = << >> /\ \A s \in Senders : draft'[s] = NoDraft
      BY <2>1 DEF TableInv
    <2> QED
      BY <1>0, <2>1, <2>2, RowsKept, DraftsKept DEF TableInv
  <1>2. ASSUME NEW s \in Senders, Stamp(s) PROVE TableInv'
    <2>1. messages' = messages /\ now' = now /\ exists /\ exists'
      BY <1>2 DEF Stamp
    <2>2. draft'[s] = [ts |-> now, seen |-> Len(messages)]
      BY <1>2 DEF Stamp, TableTypeOK
    <2>3. \A t \in Senders \ {s} : draft'[t] = draft[t]
      BY <1>2 DEF Stamp, TableTypeOK
    <2>4. \A k \in 1..Len(messages) : messages[k].at <= now
      BY DEF TableInv, RowInv
    <2>5. draft'[s].seen = Len(messages) /\ draft'[s].ts = now
      BY <2>2
    <2>6. DraftInv(s)'
      BY <1>0, <2>1, <2>4, <2>5 DEF DraftInv, Saw
    <2> QED
      BY <1>0, <2>1, <2>3, <2>6, RowsKept, DraftsKept DEF TableInv
  <1>3. ASSUME NEW s \in Senders, Insert(s) PROVE TableInv'
    <2>1. PICK ts \in Nat, seen \in Nat : ts = draft[s].ts /\ seen = draft[s].seen
      BY <1>3, InsertRow
    <2>2. PICK e \in Row : e = [ts |-> ts, at |-> now, seen |-> seen]
      BY <1>0, <2>1 DEF Row
    <2>3. draft[s] # NoDraft /\ exists' = exists /\ now' = now /\ draft' = [draft EXCEPT ![s] = NoDraft]
      BY <1>3 DEF Insert
    <2>4. seen <= Len(messages) /\ ts <= now /\ Saw(seen, ts) /\ exists
      BY <2>1, <2>3 DEF TableInv, DraftInv
    <2>5. PICK n \in Nat : n = Len(messages)
      BY <1>0
    <2>6. messages' = Append(messages, e)
      BY <1>3, <2>1, <2>2, InsertRow
    <2>7. Len(messages') = n + 1 /\ messages'[n + 1] = e
      BY <1>0, <2>5, <2>6, AddRow
    <2>8. Saw(seen, ts)'
      BY <1>0, <2>4, SawKept
    <2>9. e.ts = ts /\ e.at = now /\ e.seen = seen
      BY <2>2
    <2>10. RowInv(n + 1)'
      BY <1>0, <2>3, <2>4, <2>5, <2>7, <2>8, <2>9 DEF RowInv
    <2>11. \A i \in 1..Len(messages') : i \in 1..Len(messages) \/ i = n + 1
      BY <2>5, <2>7
    <2>12. draft'[s] = NoDraft /\ \A t \in Senders \ {s} : draft'[t] = draft[t]
      BY <2>3 DEF TableTypeOK
    <2>13. exists'
      BY <2>3, <2>4
    <2> QED
      BY <1>0, <2>10, <2>11, <2>12, <2>13, RowsKept, DraftsKept DEF TableInv
  <1>4. ASSUME NEW s \in Senders, InsertFails(s) PROVE TableInv'
    <2>1. /\ messages' = messages /\ exists' = exists
          /\ draft'[s] = NoDraft /\ \A t \in Senders \ {s} : draft'[t] = draft[t]
      BY <1>4 DEF InsertFails, TableTypeOK
    <2>2. ~ exists' => messages' = << >> /\ \A t \in Senders : draft'[t] = NoDraft
      BY <2>1 DEF TableInv
    <2> QED
      BY <1>0, <2>1, <2>2, RowsKept, DraftsKept DEF TableInv
  <1> QED
    BY <1>1, <1>2, <1>3, <1>4 DEF TableNext

\* The rows before i, of the first n; and the page of the first n.
Earlier(i, n) == {j \in 1..n : Before(j, i)}
PageOf(n) == {i \in 1..n : Cardinality(Earlier(i, n)) < PageLimit}

\* `got' is the beginning of `rows', in the order of the rows.
Begins(got, rows) == got \subseteq rows /\ \A j \in got, i \in rows : Before(i, j) => i \in got

\* A reader's page is the beginning of that of the rows there were.
PageInv == \A h \in Readers : Begins(page[h], PageOf(upto[h]))

\* Before is a strict total order on the rows.
LEMMA BeforeOrder ==
  ASSUME TableTypeOK, NEW i \in 1..Len(messages), NEW j \in 1..Len(messages),
         NEW k \in 1..Len(messages)
  PROVE  /\ ~ Before(i, i)
         /\ Before(i, j) \/ Before(j, i) \/ i = j
         /\ Before(i, j) /\ Before(j, k) => Before(i, k)
         /\ ~ (Before(i, j) /\ Before(j, i))
  <1>1. /\ messages[i].ts \in Nat /\ messages[j].ts \in Nat /\ messages[k].ts \in Nat
        /\ Len(messages) \in Nat
    BY IsRow DEF TableTypeOK
  <1> QED
    BY <1>1 DEF Before

LEMMA EarlierCounted ==
  ASSUME NEW n \in Nat, NEW i \in 1..n
  PROVE  /\ IsFiniteSet(Earlier(i, n)) /\ Cardinality(Earlier(i, n)) \in Nat
         /\ Cardinality(Earlier(i, n)) <= n
  <1>1. IsFiniteSet(1..n) /\ Cardinality(1..n) = n
    BY FS_Interval
  <1>2. Earlier(i, n) \in SUBSET (1..n)
    BY DEF Earlier
  <1> QED
    BY <1>1, <1>2, FS_Subset, FS_CardinalityType

\* The earlier of two rows has fewer rows before it.
LEMMA FewerBefore ==
  ASSUME TableTypeOK, NEW n \in Nat, n <= Len(messages), NEW i \in 1..n, NEW j \in 1..n,
         Before(i, j)
  PROVE  Cardinality(Earlier(i, n)) < Cardinality(Earlier(j, n))
  <1>0. Len(messages) \in Nat
    BY DEF TableTypeOK
  <1>1. \A k \in 1..n : k \in 1..Len(messages)
    BY <1>0
  <1>2. Earlier(i, n) \in SUBSET Earlier(j, n)
    BY <1>1, BeforeOrder DEF Earlier
  <1>3. i \in Earlier(j, n) /\ i \notin Earlier(i, n)
    BY <1>1, BeforeOrder DEF Earlier
  <1>4. IsFiniteSet(Earlier(j, n)) /\ Cardinality(Earlier(j, n)) \in Nat
        /\ Cardinality(Earlier(i, n)) \in Nat
    BY EarlierCounted
  <1>5. /\ Cardinality(Earlier(i, n)) <= Cardinality(Earlier(j, n))
        /\ Cardinality(Earlier(j, n)) = Cardinality(Earlier(i, n)) => Earlier(j, n) = Earlier(i, n)
    BY <1>2, <1>4, FS_Subset
  <1> QED
    BY <1>3, <1>4, <1>5

\* At most PageLimit rows are on a page, and exactly so many once there is a row
\* that is left out: no two rows have as many rows before them.
LEMMA PageFull ==
  ASSUME TableTypeOK, NEW n \in Nat, n <= Len(messages), NEW i \in 1..n, i \notin PageOf(n)
  PROVE  Cardinality(PageOf(n)) = PageLimit
  <1> DEFINE f == [j \in 1..n |-> Cardinality(Earlier(j, n))]
  <1>0. Len(messages) \in Nat /\ PageLimit \in Nat \ {0}
    BY HistoryAssumption DEF TableTypeOK
  <1>1. ASSUME NEW j \in 1..n PROVE f[j] \in 0..(n - 1)
    <2>1. Earlier(j, n) \in SUBSET (1..n) /\ j \notin Earlier(j, n)
      <3>1. j \in 1..Len(messages)
        BY <1>0
      <3> QED
        BY <3>1, BeforeOrder DEF Earlier
    <2>2. IsFiniteSet(1..n) /\ Cardinality(1..n) = n
      BY FS_Interval
    <2>3. Cardinality(Earlier(j, n)) <= n /\ Cardinality(Earlier(j, n)) # n
      BY <2>1, <2>2, FS_Subset
    <2> QED
      BY <2>3, EarlierCounted
  <1>2. f \in [1..n -> 0..(n - 1)]
    BY <1>1
  <1>3. \A j, k \in 1..n : f[j] = f[k] => j = k
    <2> SUFFICES ASSUME NEW j \in 1..n, NEW k \in 1..n, j # k PROVE f[j] # f[k]
      OBVIOUS
    <2>1. Before(j, k) \/ Before(k, j)
      <3>1. j \in 1..Len(messages) /\ k \in 1..Len(messages)
        BY <1>0
      <3> QED
        BY <3>1, BeforeOrder
    <2>2. f[j] < f[k] \/ f[k] < f[j]
      BY <2>1, FewerBefore
    <2>3. f[j] \in Nat /\ f[k] \in Nat
      BY <1>1
    <2> QED
      BY <2>2, <2>3
  <1> HIDE DEF f
  <1>4. f \in Injection(1..n, 0..(n - 1))
    BY <1>2, <1>3, Fun_IsInj
  <1>5. /\ IsFiniteSet(1..n) /\ Cardinality(1..n) = n
        /\ IsFiniteSet(0..(n - 1)) /\ Cardinality(0..(n - 1)) = n
    <2>1. n - 1 \in Int /\ (0 > n - 1 => n = 0) /\ (n - 1) - 0 + 1 = n
      OBVIOUS
    <2> QED
      BY <2>1, FS_Interval
  <1>6. f \in Surjection(1..n, 0..(n - 1))
    BY <1>4, <1>5, FS_Injection
  <1>7. \A j \in 1..n : f[j] = Cardinality(Earlier(j, n))
    BY DEF f
  <1>8. f[i] >= PageLimit /\ f[i] <= n - 1
    <2>1. ~ f[i] < PageLimit
      BY <1>7 DEF PageOf
    <2> QED
      BY <1>0, <1>1, <2>1
  <1> DEFINE g == [j \in PageOf(n) |-> f[j]]
  <1>9. g \in [PageOf(n) -> 0..(PageLimit - 1)]
    <2> SUFFICES ASSUME NEW j \in PageOf(n) PROVE f[j] \in 0..(PageLimit - 1)
      OBVIOUS
    <2>1. j \in 1..n /\ f[j] < PageLimit
      BY <1>7 DEF PageOf
    <2> QED
      BY <1>0, <1>1, <2>1
  <1>10. \A j, k \in PageOf(n) : g[j] = g[k] => j = k
    BY <1>3 DEF PageOf
  <1>11. \A t \in 0..(PageLimit - 1) : \E j \in PageOf(n) : g[j] = t
    <2> SUFFICES ASSUME NEW t \in 0..(PageLimit - 1) PROVE \E j \in PageOf(n) : f[j] = t
      OBVIOUS
    <2>1. t \in 0..(n - 1)
      BY <1>0, <1>1, <1>8
    <2>2. \A u \in 0..(n - 1) : \E j \in 1..n : f[j] = u
      BY <1>6 DEF Surjection
    <2>3. PICK j \in 1..n : f[j] = t
      BY <2>1, <2>2
    <2>4. f[j] < PageLimit
      BY <1>0, <2>3
    <2>5. j \in PageOf(n)
      BY <1>7, <2>4 DEF PageOf
    <2> QED
      BY <2>3, <2>5
  <1> HIDE DEF g
  <1>12. g \in Injection(PageOf(n), 0..(PageLimit - 1)) /\ g \in Surjection(PageOf(n), 0..(PageLimit - 1))
    BY <1>9, <1>10, <1>11, Fun_IsInj, Fun_IsSurj
  <1>13. IsFiniteSet(0..(PageLimit - 1)) /\ Cardinality(0..(PageLimit - 1)) = PageLimit
    <2>1. PageLimit - 1 \in Int /\ ~ 0 > PageLimit - 1 /\ (PageLimit - 1) - 0 + 1 = PageLimit
      BY <1>0
    <2> QED
      BY <2>1, FS_Interval
  <1> QED
    BY <1>12, <1>13, FS_Injection

\* A row that is not on a page is after all those that are.
LEMMA LeftOut ==
  ASSUME TableTypeOK, NEW n \in Nat, n <= Len(messages), NEW i \in 1..n, i \notin PageOf(n),
         NEW k \in PageOf(n)
  PROVE  Before(k, i)
  <1>1. Len(messages) \in Nat /\ PageLimit \in Nat /\ k \in 1..n
    BY HistoryAssumption DEF TableTypeOK, PageOf
  <1>2. Cardinality(Earlier(k, n)) < PageLimit /\ ~ Cardinality(Earlier(i, n)) < PageLimit
    BY DEF PageOf
  <1>3. Cardinality(Earlier(k, n)) \in Nat /\ Cardinality(Earlier(i, n)) \in Nat
    BY <1>1, EarlierCounted
  <1>4. ~ Before(i, k) /\ i # k
    BY <1>1, <1>2, <1>3, FewerBefore
  <1>5. k \in 1..Len(messages) /\ i \in 1..Len(messages)
    BY <1>1
  <1> QED
    BY <1>4, <1>5, BeforeOrder

\* Of two pages of one table, the later one drops a row only for a newer row
\* that is before it.
LEMMA DroppedFor ==
  ASSUME TableTypeOK, NEW m \in Nat, NEW n \in Nat, m <= n, n <= Len(messages),
         NEW i \in PageOf(m), i \notin PageOf(n)
  PROVE  \E k \in PageOf(n) : k > m /\ Before(k, i)
  <1>0. Len(messages) \in Nat /\ PageLimit \in Nat \ {0} /\ i \in 1..m /\ i \in 1..n
    BY HistoryAssumption DEF TableTypeOK, PageOf
  <1> SUFFICES ASSUME \A k \in PageOf(n) : ~ (k > m /\ Before(k, i)) PROVE FALSE
    OBVIOUS
  <1>1. ASSUME NEW k \in PageOf(n) PROVE k \in Earlier(i, m)
    <2>1. Before(k, i) /\ k \in 1..n
      BY <1>0, LeftOut DEF PageOf
    <2>2. k \in 1..m
      BY <1>0, <2>1
    <2> QED
      BY <2>1, <2>2 DEF Earlier
  <1>2. PageOf(n) \in SUBSET Earlier(i, m)
    BY <1>1
  <1>3. IsFiniteSet(Earlier(i, m)) /\ Cardinality(Earlier(i, m)) \in Nat
    BY <1>0, EarlierCounted
  <1>4. Cardinality(PageOf(n)) <= Cardinality(Earlier(i, m))
    BY <1>2, <1>3, FS_Subset
  <1>5. Cardinality(PageOf(n)) = PageLimit
    BY <1>0, PageFull
  <1>6. Cardinality(Earlier(i, m)) < PageLimit
    BY DEF PageOf
  <1> QED
    BY <1>0, <1>3, <1>4, <1>5, <1>6

\* What was a page stays one while the table grows.
LEMMA PageKept ==
  ASSUME TableTypeOK, Grows, NEW n \in Nat, n <= Len(messages)
  PROVE  PageOf(n)' = PageOf(n)
  <1>1. \A j \in 1..n : j \in 1..Len(messages)
    BY DEF TableTypeOK
  <1>2. \A i, j \in 1..n : Before(i, j)' <=> Before(i, j)
    BY <1>1 DEF Before, Grows
  <1>3. \A i \in 1..n : Earlier(i, n)' = Earlier(i, n)
    BY <1>2 DEF Earlier
  <1> QED
    BY <1>3 DEF PageOf

\* And so does the beginning of one.
LEMMA BeginningKept ==
  ASSUME TableTypeOK, Grows, NEW n \in Nat, n <= Len(messages), NEW got, Begins(got, PageOf(n))
  PROVE  Begins(got, PageOf(n))'
  <1>1. PageOf(n)' = PageOf(n) /\ PageOf(n) \subseteq 1..n
    BY PageKept DEF PageOf
  <1>2. \A i, j \in 1..n : Before(i, j)' <=> Before(i, j)
    <2>1. \A j \in 1..n : j \in 1..Len(messages)
      BY DEF TableTypeOK
    <2> QED
      BY <2>1 DEF Before, Grows
  <1> QED
    BY <1>1, <1>2 DEF Begins

LEMMA PageInvStay ==
  ASSUME TableTypeOK, HistoryTypeOK, PageInv, Grows, UNCHANGED historyVars
  PROVE  PageInv'
  <1> SUFFICES ASSUME NEW h \in Readers PROVE Begins(page[h], PageOf(upto[h]))'
    BY DEF PageInv, historyVars
  <1>1. PICK n \in Nat : n = upto[h] /\ n <= Len(messages)
    BY DEF TableTypeOK, HistoryTypeOK
  <1>2. PICK got : got = page[h]
    OBVIOUS
  <1>3. Begins(got, PageOf(n))'
    BY <1>1, <1>2, BeginningKept DEF PageInv
  <1>4. page'[h] = got /\ upto'[h] = n
    BY <1>1, <1>2 DEF historyVars
  <1> QED
    BY <1>3, <1>4

LEMMA PageInvStep ==
  ASSUME TableTypeOK, HistoryTypeOK, PageInv, NEW h \in Readers, HistoryHandler(h),
         UNCHANGED tableVars
  PROVE  PageInv'
  <1>1. /\ Begins(page'[h], PageOf(upto'[h])) /\ upto'[h] = Len(messages)
        /\ \A r \in Readers \ {h} : page'[r] = page[r] /\ upto'[r] = upto[r]
    BY DEF HistoryHandler, HistoryTypeOK, Page, PageOf, Earlier, ReadTo, Begins
  <1>2. Grows
    BY DEF TableTypeOK, tableVars, Grows
  <1> SUFFICES ASSUME NEW r \in Readers PROVE Begins(page[r], PageOf(upto[r]))'
    BY DEF PageInv
  <1>3. PICK n \in Nat : n = upto'[r] /\ n <= Len(messages)
    BY <1>1 DEF TableTypeOK, HistoryTypeOK
  <1>4. PICK got : got = page'[r]
    OBVIOUS
  <1>5. Begins(got, PageOf(n))
    BY <1>1, <1>3, <1>4 DEF PageInv
  <1>6. Begins(got, PageOf(n))'
    BY <1>2, <1>3, <1>5, BeginningKept
  <1> QED
    BY <1>3, <1>4, <1>6

\* What a page shows is preceded by what it depends on.
LEMMA PageCausal ==
  ASSUME TableTypeOK, HistoryTypeOK, TableInv, PageInv
  PROVE  HistoryCausal
  <1> SUFFICES ASSUME NEW h \in Readers, NEW j \in page[h], NEW i \in 1..messages[j].seen
               PROVE  i \in page[h] /\ Before(i, j)
    BY DEF HistoryCausal
  <1>1. PICK n \in Nat : n = upto[h] /\ n <= Len(messages) /\ Len(messages) \in Nat
    BY DEF TableTypeOK, HistoryTypeOK
  <1>2. Begins(page[h], PageOf(n)) /\ j \in PageOf(n) /\ j \in 1..n
    BY <1>1 DEF PageInv, PageOf, Begins
  <1>3. j \in 1..Len(messages) /\ messages[j].seen < j /\ messages[i].at <= messages[j].ts
    BY <1>1, <1>2 DEF TableInv, RowInv, Saw
  <1>4. messages[j].seen \in Nat /\ messages[j].ts \in Nat
    BY <1>3, IsRow DEF TableTypeOK
  <1>5. i < j /\ i \in 1..n /\ i \in 1..Len(messages)
    BY <1>1, <1>2, <1>3, <1>4
  <1>6. messages[i].ts <= messages[i].at /\ messages[i].ts \in Nat /\ messages[i].at \in Nat
    BY <1>5, IsRow DEF TableTypeOK, TableInv, RowInv
  <1>7. Before(i, j)
    BY <1>3, <1>4, <1>5, <1>6 DEF Before
  <1>8. Cardinality(Earlier(i, n)) < Cardinality(Earlier(j, n))
    BY <1>1, <1>2, <1>5, <1>7, FewerBefore
  <1>9. /\ Cardinality(Earlier(i, n)) \in Nat /\ Cardinality(Earlier(j, n)) \in Nat
        /\ Cardinality(Earlier(j, n)) < PageLimit /\ PageLimit \in Nat
    BY <1>2, <1>5, EarlierCounted, HistoryAssumption DEF PageOf
  <1>10. Cardinality(Earlier(i, n)) < PageLimit
    BY <1>8, <1>9
  <1>11. i \in PageOf(n)
    BY <1>5, <1>10 DEF PageOf
  <1> QED
    BY <1>2, <1>7, <1>11 DEF Begins

-----------------------------------------------------------------------------
(***************************************************************************)
(* The overview: what a request has counted, and what the cache holds, of  *)
(* a table that grows meanwhile.                                           *)
(***************************************************************************)

\* What is known at each stage of a count x.
CountInv(x) ==
  /\ x.pc \in Building => now <= x.since + MaxBuild
  /\ x.pc = "cutoff" => x.got = Zero /\ x.fault = "none"
  /\ x.pc = "day" => x.got["hour"] <= Cardinality(Rows(x.cut - Hour))
  /\ x.pc = "total" => /\ x.got["hour"] <= x.got["day"]
                       /\ x.got["day"] <= Cardinality(Rows(x.cut - Day))
  /\ x.pc = "store" /\ x.fault = "none" =>
       Possible(x.got) /\ x.got["total"] >= StoredBy(x.since - 1)

\* An entry covers all that was stored before the request that made it began to
\* count, MaxBuild before it stored it at most.
CacheInv ==
  /\ cache.expires <= now + Ttl
  /\ cache.fault = "none" =>
       /\ Possible(cache.value)
       /\ cache.value["total"] >= StoredBy(cache.expires - Ttl - MaxBuild - 1)

OverviewInv == CacheInv /\ \A r \in Reqs : CountInv(req[r])

\* How many rows were stored by a time.
LEMMA StoredCounted ==
  ASSUME TableTypeOK, NEW t \in Int
  PROVE  /\ StoredBy(t) \in Nat /\ StoredBy(t) <= Len(messages)
         /\ t < 0 => StoredBy(t) = 0
         /\ \A u \in Int : u <= t => StoredBy(u) <= StoredBy(t)
  <1> DEFINE In(u) == {i \in 1..Len(messages) : messages[i].at <= u}
  <1>1. PICK n \in Nat : n = Len(messages)
    BY DEF TableTypeOK
  <1>2. IsFiniteSet(1..n) /\ Cardinality(1..n) = n
    BY FS_Interval
  <1>3. In(t) \in SUBSET (1..n)
    BY <1>1
  <1>4. /\ IsFiniteSet(In(t)) /\ Cardinality(In(t)) \in Nat /\ Cardinality(In(t)) <= n
    BY <1>2, <1>3, FS_Subset, FS_CardinalityType
  <1>5. \A i \in 1..n : messages[i].at \in Nat
    BY <1>1, IsRow DEF TableTypeOK
  <1>6. ASSUME t < 0 PROVE Cardinality(In(t)) = 0
    <2>1. In(t) = {}
      BY <1>1, <1>5, <1>6
    <2> QED
      BY <2>1, FS_EmptySet
  <1>7. ASSUME NEW u \in Int, u <= t PROVE Cardinality(In(u)) <= Cardinality(In(t))
    <2>1. In(u) \in SUBSET In(t)
      BY <1>1, <1>5, <1>7
    <2> QED
      BY <1>4, <2>1, FS_Subset
  <1> QED
    BY <1>1, <1>4, <1>6, <1>7 DEF StoredBy

\* Nothing comes in with a time that is past.
LEMMA StoredKept ==
  ASSUME TableTypeOK, Grows, NEW t \in Int, t < now
  PROVE  StoredBy(t)' = StoredBy(t)
  <1>1. PICK n \in Nat, m \in Nat : n = Len(messages) /\ m = Len(messages') /\ n <= m
    BY DEF TableTypeOK, Grows
  <1>2. /\ \A i \in 1..n : messages'[i] = messages[i]
        /\ \A i \in 1..m : i > n => ~ messages'[i].at <= t
    BY <1>1 DEF TableTypeOK, Grows
  <1>3. {i \in 1..m : messages'[i].at <= t} = {i \in 1..n : messages[i].at <= t}
    BY <1>1, <1>2
  <1> QED
    BY <1>1, <1>3 DEF StoredBy

LEMMA RowsGrow ==
  ASSUME TableTypeOK, TableTypeOK', Grows, NEW t \in Int
  PROVE  Cardinality(Rows(t)) <= Cardinality(Rows(t)') /\ Cardinality(Rows(t)') \in Nat
  <1>1. Rows(t) \in SUBSET (Rows(t)')
    BY DEF Rows, TableTypeOK, Grows
  <1>2. IsFiniteSet(Rows(t)')
    <2>1. PICK n \in Nat : n = Len(messages')
      BY DEF TableTypeOK
    <2>2. Rows(t)' \in SUBSET (1..n) /\ IsFiniteSet(1..n)
      BY <2>1, FS_Interval DEF Rows
    <2> QED
      BY <2>2, FS_Subset
  <1> QED
    BY <1>1, <1>2, FS_Subset, FS_CardinalityType

\* The wider window holds no fewer rows.
LEMMA WiderWindow ==
  ASSUME TableTypeOK, NEW c \in Nat
  PROVE  Cardinality(Rows(c - Hour)) <= Cardinality(Rows(c - Day))
  <1>1. c - Hour \in Int /\ c - Day \in Int /\ c - Day <= c - Hour
    BY Spans
  <1>2. \A i \in 1..Len(messages) : messages[i].ts \in Int
    BY IsRow DEF TableTypeOK
  <1>3. Rows(c - Hour) \in SUBSET Rows(c - Day)
    BY <1>1, <1>2 DEF Rows
  <1>4. IsFiniteSet(Rows(c - Day))
    BY <1>1, RowsCounted
  <1> QED
    BY <1>3, <1>4, FS_Subset

\* What a request has counted stays true while the table grows.
LEMMA CountStays ==
  ASSUME TableTypeOK, TableTypeOK', Grows, NEW x \in Requests, CountInv(x),
         x.pc \in Building => now' <= x.since + MaxBuild
  PROVE  CountInv(x)'
  <1>1. /\ now \in Nat /\ x.since \in 0..now /\ x.cut \in 0..now
        /\ x.got \in [Counts -> Nat]
    BY DEF Requests, TableTypeOK
  <1>2. /\ x.cut \in Nat /\ x.since - 1 \in Int /\ x.since - 1 < now
    BY <1>1
  <1>3. x.cut - Hour \in Int /\ x.cut - Day \in Int
    BY <1>2, Spans
  <1>4. StoredBy(x.since - 1)' = StoredBy(x.since - 1)
    BY <1>2, StoredKept
  <1>5. /\ Cardinality(Rows(x.cut - Hour)) <= Cardinality(Rows(x.cut - Hour)')
        /\ Cardinality(Rows(x.cut - Day)) <= Cardinality(Rows(x.cut - Day)')
    BY <1>3, RowsGrow
  <1>6. /\ Cardinality(Rows(x.cut - Hour)) \in Nat /\ Cardinality(Rows(x.cut - Hour)') \in Nat
        /\ Cardinality(Rows(x.cut - Day)) \in Nat /\ Cardinality(Rows(x.cut - Day)') \in Nat
    BY <1>3, RowsCounted, RowsGrow
  <1>7. x.got["hour"] \in Nat /\ x.got["day"] \in Nat
    BY <1>1 DEF Counts
  <1> QED
    BY <1>4, <1>5, <1>6, <1>7 DEF CountInv, Possible

LEMMA CacheStays ==
  ASSUME TableTypeOK, OverviewTypeOK, Grows, CacheInv, cache' = cache
  PROVE  CacheInv'
  <1>1. /\ now \in Nat /\ now' \in Nat /\ now <= now'
        /\ cache.expires \in Nat
    BY DEF TableTypeOK, OverviewTypeOK, Grows
  <1>2. PICK t \in Int : t = cache.expires - Ttl - MaxBuild - 1
    BY <1>1, Spans
  <1>3. cache.expires <= now + Ttl /\ t < now /\ cache.expires <= now' + Ttl
    BY <1>1, <1>2, Spans DEF CacheInv
  <1>4. StoredBy(t)' = StoredBy(t)
    BY <1>3, StoredKept
  <1> QED
    BY <1>2, <1>3, <1>4 DEF CacheInv, Possible

\* The table changes, the clock moves on: what was counted and stored is as good
\* as it was.
LEMMA OverviewStays ==
  ASSUME TableTypeOK, OverviewTypeOK, OverviewInv, Tick \/ TableNext, UNCHANGED overviewVars
  PROVE  OverviewInv'
  <1>1. TableTypeOK' /\ Grows /\ cache' = cache /\ req' = req
    BY TableTypes DEF overviewVars
  <1>2. ASSUME NEW r \in Reqs PROVE CountInv(req[r])'
    <2>1. req[r] \in Requests
      BY DEF OverviewTypeOK
    <2>2. PICK x \in Requests : x = req[r]
      BY <2>1
    <2>3. CountInv(x)
      BY <2>2 DEF OverviewInv
    <2>4. x.pc \in Building => now' <= x.since + MaxBuild
      <3>1. now \in Nat /\ x.since \in 0..now /\ MaxBuild \in Nat
        BY Spans DEF TableTypeOK, Requests
      <3>2. CASE Tick
        BY <2>2, <3>1, <3>2 DEF Tick
      <3>3. CASE TableNext
        BY <2>3, <3>3
        DEF CountInv, TableNext, CreateTable, Stamp, Insert, InsertFails
      <3> QED
        BY <3>2, <3>3
    <2>5. CountInv(x)'
      BY <1>1, <2>3, <2>4, CountStays
    <2> QED
      BY <1>1, <2>2, <2>5 DEF CountInv, Rows, StoredBy
  <1> QED
    BY <1>1, <1>2, CacheStays DEF OverviewInv

\* Each step of a request.
LEMMA OverviewInvStep ==
  ASSUME TableTypeOK, TableInv, OverviewTypeOK, OverviewInv, OverviewNext, UNCHANGED tableVars
  PROVE  OverviewInv'
  <1>1. PICK r \in Reqs : \/ Arrive(r) \/ Hit(r) \/ Miss(r) \/ Select(r) \/ SelectFails(r)
                          \/ Cutoff(r) \/ NoMessages(r) \/ Store(r)
    BY DEF OverviewNext
  <1>2. /\ req \in [Reqs -> Requests] /\ req[r] \in Requests
        /\ cache \in [value : [Counts -> Nat], expires : Nat, fault : Faults]
    BY DEF OverviewTypeOK
  <1>3. /\ now \in Nat /\ Len(messages) \in Nat /\ now' = now /\ messages' = messages
    BY DEF TableTypeOK, tableVars
  <1>4. PICK x \in Requests : x = req[r]
    BY <1>2
  <1>5. /\ CountInv(x) /\ x.since \in 0..now /\ x.cut \in 0..now
        /\ x.got \in [Counts -> Nat] /\ MaxBuild \in Nat
    BY <1>3, <1>4, Spans DEF OverviewInv, Requests
  <1>6. ASSUME NEW y, CountInv(y), req' = [req EXCEPT ![r] = y], CacheInv'
        PROVE  OverviewInv'
    <2>1. ASSUME NEW s \in Reqs PROVE CountInv(req[s])'
      <3>1. PICK z : z = req'[s]
        OBVIOUS
      <3>2. CountInv(z)
        BY <1>2, <1>6, <3>1 DEF OverviewInv
      <3>3. CountInv(z)'
        BY <1>3, <3>2 DEF CountInv, Rows, StoredBy
      <3> QED
        BY <3>1, <3>3 DEF CountInv, Rows, StoredBy
    <2> QED
      BY <1>6, <2>1 DEF OverviewInv
  <1>7. cache' = cache => CacheInv'
    BY <1>3 DEF OverviewInv, CacheInv, StoredBy
  <1>8. CountInv(Idle) /\ Idle.pc = "idle"
    BY DEF CountInv, Building, Idle
  <1>9. CASE Arrive(r)
    <2>1. PICK y : y = [Idle EXCEPT !.pc = "check", !.since = now]
      OBVIOUS
    <2>2. y.pc = "check"
      BY <2>1 DEF Idle
    <2>3. CountInv(y)
      BY <2>2 DEF CountInv, Building
    <2>4. req' = [req EXCEPT ![r] = y] /\ cache' = cache
      BY <1>9, <2>1 DEF Arrive
    <2> QED
      BY <1>6, <1>7, <2>3, <2>4
  <1>10. CASE Hit(r)
    <2>1. req' = [req EXCEPT ![r] = Idle] /\ cache' = cache
      BY <1>10 DEF Hit
    <2> QED
      BY <1>6, <1>7, <1>8, <2>1
  <1>11. CASE Miss(r)
    <2>1. PICK y : y = [Idle EXCEPT !.pc = "cutoff", !.since = now]
      OBVIOUS
    <2>2. y.pc = "cutoff" /\ y.since = now /\ y.got = Zero /\ y.fault = "none"
      BY <2>1 DEF Idle
    <2>3. CountInv(y)
      BY <1>3, <1>5, <2>2 DEF CountInv
    <2>4. req' = [req EXCEPT ![r] = y] /\ cache' = cache
      BY <1>11, <2>1 DEF Miss
    <2> QED
      BY <1>6, <1>7, <2>3, <2>4
  <1>12. CASE Cutoff(r)
    <2>1. PICK y : y = [x EXCEPT !.pc = After(x.pc), !.cut = now]
      OBVIOUS
    <2>2. x.pc = "cutoff" /\ After(x.pc) = "hour"
      BY <1>4, <1>12 DEF Cutoff, After
    <2>3. y.pc = "hour" /\ y.since = x.since
      BY <2>1, <2>2 DEF Requests
    <2>4. CountInv(y)
      BY <1>5, <2>2, <2>3 DEF CountInv, Building, Stages
    <2>5. req' = [req EXCEPT ![r] = y] /\ cache' = cache
      BY <1>4, <1>12, <2>1 DEF Cutoff
    <2> QED
      BY <1>6, <1>7, <2>4, <2>5
  <1>13. CASE NoMessages(r)
    <2>1. PICK f \in Faults : f = IF exists THEN "select" ELSE "none"
      BY DEF Faults
    <2>2. PICK y : y = [x EXCEPT !.pc = "store", !.fault = f]
      OBVIOUS
    <2>3. x.pc = "cutoff" /\ x.got = Zero
      BY <1>4, <1>5, <1>13 DEF NoMessages, CountInv
    <2>4. y.pc = "store" /\ y.since = x.since /\ y.got = Zero /\ y.fault = f
      BY <2>2, <2>3 DEF Requests
    <2>5. f = "none" => StoredBy(x.since - 1) = 0
      <3>1. ASSUME f = "none" PROVE Len(messages) = 0
        BY <2>1, <3>1 DEF TableInv
      <3>2. x.since - 1 \in Int
        BY <1>3, <1>5
      <3> QED
        BY <3>1, <3>2, StoredCounted
    <2>6. Zero["hour"] = 0 /\ Zero["day"] = 0 /\ Zero["total"] = 0 /\ Possible(Zero)
      BY DEF Zero, Counts, Possible
    <2>7. CountInv(y)
      BY <1>5, <2>3, <2>4, <2>5, <2>6 DEF CountInv, Building, Stages
    <2>8. req' = [req EXCEPT ![r] = y] /\ cache' = cache
      BY <1>4, <1>13, <2>1, <2>2 DEF NoMessages
    <2> QED
      BY <1>6, <1>7, <2>7, <2>8
  <1>14. CASE SelectFails(r)
    <2>1. PICK y : y = [x EXCEPT !.pc = "store", !.got = Zero, !.fault = "select"]
      OBVIOUS
    <2>2. y.pc = "store" /\ y.since = x.since /\ y.fault = "select"
      BY <2>1 DEF Requests
    <2>3. CountInv(y)
      BY <1>4, <1>5, <1>14, <2>2 DEF SelectFails, CountInv, Building, Stages, Counts
    <2>4. req' = [req EXCEPT ![r] = y] /\ cache' = cache
      BY <1>4, <1>14, <2>1 DEF SelectFails
    <2> QED
      BY <1>6, <1>7, <2>3, <2>4
  <1>15. CASE Select(r)
    <2>1. PICK c : c = CountOf(r)
      OBVIOUS
    <2>2. PICK g : g = [x.got EXCEPT ![x.pc] = c]
      OBVIOUS
    <2>3. PICK y : y = [x EXCEPT !.pc = After(x.pc), !.got = g]
      OBVIOUS
    <2>4. x.pc \in Counts
      BY <1>4, <1>15 DEF Select
    <2>5. /\ y.pc = After(x.pc) /\ y.since = x.since /\ y.cut = x.cut /\ y.got = g
          /\ g[x.pc] = c /\ \A k \in Counts \ {x.pc} : g[k] = x.got[k]
      BY <1>5, <2>2, <2>3, <2>4 DEF Requests
    <2>6. /\ x.cut - Hour \in Int /\ x.cut - Day \in Int /\ x.since - 1 \in Int
          /\ x.cut \in Nat
      BY <1>3, <1>5, Spans
    <2>7. /\ Cardinality(Rows(x.cut - Hour)) \in Nat
          /\ Cardinality(Rows(x.cut - Day)) \in Nat
          /\ Cardinality(Rows(x.cut - Day)) <= Len(messages)
          /\ Cardinality(Rows(x.cut - Hour)) <= Cardinality(Rows(x.cut - Day))
          /\ StoredBy(x.since - 1) \in Nat /\ StoredBy(x.since - 1) <= Len(messages)
      BY <2>6, RowsCounted, WiderWindow, StoredCounted
    <2>8. x.got["hour"] \in Nat /\ x.got["day"] \in Nat
      BY <1>5 DEF Counts
    <2>9. CountInv(y)
      <3>1. CASE x.pc = "hour"
        <4>1. y.pc = "day" /\ g["hour"] = Cardinality(Rows(x.cut - Hour))
          BY <1>4, <2>1, <2>5, <3>1 DEF After, CountOf
        <4> QED
          BY <1>5, <2>5, <2>7, <3>1, <4>1 DEF CountInv, Building, Stages, Counts
      <3>2. CASE x.pc = "day"
        <4>1. /\ y.pc = "total" /\ g["day"] = Cardinality(Rows(x.cut - Day))
              /\ g["hour"] = x.got["hour"]
          BY <1>4, <2>1, <2>5, <3>2 DEF After, CountOf, Counts
        <4>2. g["hour"] <= g["day"]
          BY <1>5, <2>7, <2>8, <3>2, <4>1 DEF CountInv
        <4> QED
          BY <1>5, <2>5, <2>7, <3>2, <4>1, <4>2 DEF CountInv, Building, Stages, Counts
      <3>3. CASE x.pc = "total"
        <4>1. /\ y.pc = "store" /\ g["total"] = Len(messages)
              /\ g["hour"] = x.got["hour"] /\ g["day"] = x.got["day"]
          BY <1>4, <2>1, <2>5, <3>3 DEF After, CountOf, Counts
        <4>2. Possible(g) /\ g["total"] >= StoredBy(x.since - 1)
          BY <1>3, <1>5, <2>7, <2>8, <3>3, <4>1 DEF CountInv, Possible
        <4> QED
          BY <1>5, <2>5, <3>3, <4>1, <4>2 DEF CountInv, Building, Stages, Counts
      <3> QED
        BY <2>4, <3>1, <3>2, <3>3 DEF Counts
    <2>10. req' = [req EXCEPT ![r] = y] /\ cache' = cache
      BY <1>4, <1>15, <2>1, <2>2, <2>3 DEF Select
    <2> QED
      BY <1>6, <1>7, <2>9, <2>10
  <1>16. CASE Store(r)
    <2>1. /\ cache'.value = x.got /\ cache'.expires = now + Ttl /\ cache'.fault = x.fault
          /\ req' = [req EXCEPT ![r] = Idle] /\ x.pc = "store"
      BY <1>4, <1>16 DEF Store
    <2>2. PICK t \in Int : t = (now + Ttl) - Ttl - MaxBuild - 1
      BY <1>3, Spans
    <2>3. /\ x.since - 1 \in Int /\ now <= x.since + MaxBuild /\ t <= x.since - 1
      BY <1>3, <1>5, <2>1, <2>2, Spans DEF CountInv, Building, Stages
    <2>4. StoredBy(t) <= StoredBy(x.since - 1) /\ StoredBy(t) \in Nat /\ StoredBy(x.since - 1) \in Nat
      BY <2>3, StoredCounted
    <2>5. x.got["total"] \in Nat
      BY <1>5 DEF Counts
    <2>6. x.fault = "none" => Possible(x.got) /\ x.got["total"] >= StoredBy(t)
      BY <1>5, <2>1, <2>4, <2>5 DEF CountInv
    <2>7. StoredBy(t)' = StoredBy(t)
      BY <1>3 DEF StoredBy
    <2>8. CacheInv'
      BY <1>3, <2>1, <2>2, <2>6, <2>7, Spans DEF CacheInv, Possible
    <2> QED
      BY <1>6, <1>8, <2>1, <2>8
  <1> QED
    BY <1>1, <1>9, <1>10, <1>11, <1>12, <1>13, <1>14, <1>15, <1>16

-----------------------------------------------------------------------------
(***************************************************************************)
(* The invariant of the whole, and what follows from it.                   *)
(***************************************************************************)

IInv == TypeOK /\ TableInv /\ PageInv /\ OverviewInv /\ ObservabilityInv

LEMMA InitInv == Init => IInv
  <1> SUFFICES ASSUME Init PROVE IInv
    OBVIOUS
  <1>1. /\ now = 0 /\ messages = << >> /\ exists \in BOOLEAN
        /\ Len(messages) = 0 /\ MaxTime \in Nat
        /\ draft = [s \in Senders |-> NoDraft]
    BY TableAssumption DEF Init, TableInit
  <1>2. TableTypeOK
    BY <1>1 DEF TableTypeOK
  <1>3. TableInv
    BY <1>1 DEF TableInv, DraftInv
  <1>4. Zero \in [Counts -> Nat] /\ Zero["hour"] = 0 /\ Zero["day"] = 0 /\ Zero["total"] = 0
    BY DEF Zero, Counts
  <1>5. /\ cache.value = Zero /\ cache.expires = 0 /\ cache.fault = "none"
        /\ cache \in [value : [Counts -> Nat], expires : Nat, fault : Faults]
    BY <1>4 DEF Init, OverviewInit, Faults
  <1>6. Idle \in Requests /\ Idle.pc = "idle" /\ \A r \in Reqs : req[r] = Idle
    BY <1>1, <1>4 DEF Init, OverviewInit, Idle, Requests, Faults, Stages
  <1>7. OverviewTypeOK
    BY <1>5, <1>6 DEF OverviewTypeOK, Init, OverviewInit
  <1>8. PICK t \in Int : t = 0 - Ttl - MaxBuild - 1
    BY Spans
  <1>9. t < 0 /\ StoredBy(t) = 0
    BY <1>2, <1>8, Spans, StoredCounted
  <1>10. OverviewInv
    BY <1>1, <1>4, <1>5, <1>6, <1>8, <1>9, Spans
    DEF OverviewInv, CacheInv, CountInv, Possible, Building
  <1>11. HistoryTypeOK /\ PageInv
    <2>1. PageOf(0) = {}
      BY DEF PageOf
    <2> QED
      BY <1>1, <2>1 DEF HistoryTypeOK, PageInv, Begins, Init, HistoryInit
  <1>12. ObservabilityInv
    BY ObservabilityInitInv DEF Init
  <1> QED
    BY <1>2, <1>3, <1>7, <1>10, <1>11, <1>12 DEF IInv, TypeOK, ObservabilityInv

\* Nothing happens to the table.
LEMMA TableStays ==
  ASSUME TableTypeOK, UNCHANGED tableVars
  PROVE  TableTypeOK' /\ Grows
  BY DEF TableTypeOK, tableVars, Grows

LEMMA NextInv == IInv /\ [Next]_vars => IInv'
  <1> SUFFICES ASSUME IInv, [Next]_vars PROVE IInv'
    OBVIOUS
  <1>1. TableTypeOK /\ OverviewTypeOK /\ HistoryTypeOK /\ ObservabilityTypeOK
    BY DEF IInv, TypeOK
  <1>2. TableInv /\ PageInv /\ OverviewInv /\ ObservabilityInv
    BY DEF IInv
  <1>3. TableTypeOK' /\ Grows /\ TableInv'
    <2>1. CASE Tick \/ TableNext
      BY <1>1, <1>2, <2>1, TableTypes, TableInvStep
    <2>2. CASE UNCHANGED tableVars
      <3>1. TableTypeOK' /\ Grows
        BY <1>1, <2>2, TableStays
      <3>2. TableInv'
        BY <1>2, <2>2 DEF TableInv, RowInv, DraftInv, Saw, tableVars
      <3> QED
        BY <3>1, <3>2
    <2> QED
      BY <2>1, <2>2 DEF Next, TableStep, OverviewStep, HistoryStep, RequestStep, vars
  <1>4. OverviewTypeOK' /\ OverviewInv'
    <2>1. CASE TableStep
      <3>1. (Tick \/ TableNext) /\ UNCHANGED overviewVars
        BY <2>1 DEF TableStep
      <3> QED
        BY <1>1, <1>2, <1>3, <3>1, OverviewTypesStay, OverviewStays
    <2>2. CASE OverviewStep
      <3>1. OverviewNext /\ UNCHANGED tableVars /\ now' = now
        BY <2>2 DEF OverviewStep, tableVars
      <3> QED
        BY <1>1, <1>2, <3>1, OverviewTypes, OverviewInvStep
    <2>3. CASE UNCHANGED <<tableVars, overviewVars>>
      <3>1. OverviewInv'
        BY <1>2, <2>3 DEF OverviewInv, CacheInv, CountInv, StoredBy, Rows, tableVars, overviewVars
      <3>2. UNCHANGED overviewVars
        BY <2>3
      <3> QED
        BY <1>1, <1>3, <3>1, <3>2, OverviewTypesStay
    <2> QED
      BY <2>1, <2>2, <2>3 DEF Next, HistoryStep, RequestStep, vars
  <1>5. HistoryTypeOK' /\ PageInv'
    <2>1. CASE HistoryStep
      <3>1. PICK h \in Readers : HistoryHandler(h) /\ UNCHANGED tableVars
        BY <2>1 DEF HistoryStep
      <3> QED
        BY <1>1, <1>2, <3>1, HistoryTypes, PageInvStep
    <2>2. CASE UNCHANGED historyVars
      BY <1>1, <1>2, <1>3, <2>2, HistoryTypesStay, PageInvStay
    <2> QED
      BY <2>1, <2>2 DEF Next, TableStep, OverviewStep, RequestStep, vars
  <1>6. ObservabilityInv'
    <2>1. CASE ObservabilityNext
      BY <1>2, <2>1, ObservabilityStep
    <2>2. CASE UNCHANGED observabilityVars
      BY <1>2, <2>2
      DEF ObservabilityInv, ObservabilityTypeOK, CallInv, SamplesInv, IsLastOf, LinesInv,
          observabilityVars
    <2> QED
      BY <2>1, <2>2 DEF Next, TableStep, OverviewStep, HistoryStep, RequestStep, vars
  <1> QED
    BY <1>3, <1>4, <1>5, <1>6 DEF IInv, TypeOK, ObservabilityInv

(***************************************************************************)
(* The four components together keep their invariant: rows in the order of *)
(* their clocks, a page that is that of the rows there were, counts and a  *)
(* cache that are true of the table, samples that are the latest latencies *)
(* (monitoring/handler.go 212-224, 266-284; messaging/main.go 538-560;       *)
(* observability.go 133-188).                                              *)
(***************************************************************************)
THEOREM Invariance == Spec => []IInv
  <1> QED
    BY InitInv, NextInv, PTL DEF Spec

(***************************************************************************)
(* The variables of all four components have their types, and the metrics  *)
(* never hold more than SampleLimit latencies, nor more errors than calls  *)
(* (observability.go 162-188).                                             *)
(***************************************************************************)
THEOREM TypeCorrect == Spec => []TypeOK
  <1>1. IInv => TypeOK
    BY DEF IInv
  <1> QED
    BY <1>1, Invariance, PTL

(***************************************************************************)
(* The counts of an overview can be true together, however many messages   *)
(* come in between its SELECTs (monitoring/handler.go 212-224).            *)
(***************************************************************************)
THEOREM OverviewNested == Spec => []CountsNested
  <1>1. IInv => CountsNested
    BY DEF IInv, OverviewInv, CacheInv, CountInv, CountsNested
  <1> QED
    BY <1>1, Invariance, PTL

(***************************************************************************)
(* A page of the history is closed under causes, whatever is inserted late *)
(* and whatever the size of the page (messaging/main.go 538-560, 585-587). *)
(***************************************************************************)
THEOREM HistoryIsCausal == Spec => []HistoryCausal
  <1>1. IInv => HistoryCausal
    BY PageCausal DEF IInv, TypeOK
  <1> QED
    BY <1>1, Invariance, PTL

(***************************************************************************)
(* A line is added to the latest file there is, of a day not before that   *)
(* it was made on, whatever midnights, failures and short writes come between *)
(* (observability.go 109, 139-159).                                        *)
(***************************************************************************)
THEOREM FilesInOrder == Spec => DailyFiles
  <1>1. ASSUME IInv, [Next]_vars
        PROVE  [ \A d \in Dates : files'[d] # files[d] =>
                   /\ \E piece \in Pieces : piece.ts <= d /\ files'[d] = Append(files[d], piece)
                   /\ \A e \in Dates : e > d => files[e] = << >> ]_observabilityVars
    <2>1. CASE UNCHANGED files
      BY <2>1
    <2>2. CASE \E c \in Calls : WriteLog(c)
      <3>1. PICK c \in Calls : WriteLog(c)
        BY <2>2
      <3>2. ObservabilityInv
        BY <1>1 DEF IInv
      <3>3. /\ call[c].date \in Dates /\ files \in [Dates -> Seq(Pieces)]
            /\ \A e \in Dates : files[e] # << >> => e <= call[c].date
        BY <3>1, <3>2 DEF WriteLog, ObservabilityInv, ObservabilityTypeOK, LinesInv
      <3>4. ASSUME NEW d \in Dates, files'[d] # files[d]
            PROVE  /\ \E piece \in Pieces : piece.ts <= d /\ files'[d] = Append(files[d], piece)
                   /\ \A e \in Dates : e > d => files[e] = << >>
        <4>1. PICK piece \in Pieces :
                /\ piece.ts <= call[c].date
                /\ files' = [files EXCEPT ![call[c].date] = Append(@, piece)]
          BY <3>1, <3>2, <3>4, LineWritten
        <4>2. d = call[c].date /\ files'[d] = Append(files[d], piece)
          BY <3>3, <3>4, <4>1
        <4>3. \A e \in Dates : e > d => ~ e <= d
          BY IsDate
        <4> QED
          BY <3>3, <4>1, <4>2, <4>3
      <3> QED
        BY <3>4
    <2> QED
      BY <1>1, <2>1, <2>2
      DEF Next, TableStep, OverviewStep, HistoryStep, RequestStep, vars, observabilityVars,
          ObservabilityNext, Midnight, Handled, Record, TakeSink
  <1> QED
    BY <1>1, Invariance, PTL DEF Spec, DailyFiles

(***************************************************************************)
(* A message shown leaves a reader's answers only for a row that came in   *)
(* since, with an earlier timestamp, when the page is full, or because the *)
(* list ends early, before it, on an error nobody is told of               *)
(* (messaging/main.go 543, 551, 587, 594-601).                             *)
(***************************************************************************)
THEOREM ShownMessagesStay == Spec => ShownStays
  <1>1. ASSUME IInv, [Next]_vars
        PROVE  [ \A h \in Readers : \A i \in page[h] \ page'[h] :
                   /\ \A k \in page'[h] : Before(k, i)
                   /\ \/ page'[h] # Page
                      \/ /\ Cardinality(page'[h]) = PageLimit
                         /\ \E k \in page'[h] : k > upto[h] ]_<<tableVars, historyVars>>
    <2>1. TableTypeOK /\ HistoryTypeOK /\ PageInv
      BY <1>1 DEF IInv, TypeOK
    <2>2. CASE HistoryStep
      <3>1. PICK g \in Readers : HistoryHandler(g) /\ UNCHANGED tableVars
        BY <2>2 DEF HistoryStep
      <3>2. PICK n \in Nat : n = Len(messages)
        BY <2>1 DEF TableTypeOK
      <3>3. /\ Begins(page'[g], PageOf(n)) /\ Page = PageOf(n)
            /\ \A h \in Readers \ {g} : page'[h] = page[h]
        BY <2>1, <3>1, <3>2
        DEF HistoryHandler, HistoryTypeOK, Page, PageOf, Earlier, ReadTo, Begins
      <3>4. ASSUME NEW h \in Readers, NEW i \in page[h] \ page'[h]
            PROVE  /\ \A k \in page'[h] : Before(k, i)
                   /\ \/ page'[h] # Page
                      \/ /\ Cardinality(page'[h]) = PageLimit
                         /\ \E k \in page'[h] : k > upto[h]
        <4>1. h = g
          BY <3>3, <3>4
        <4>2. PICK m \in Nat : m = upto[g] /\ m <= n
          BY <2>1, <3>2 DEF HistoryTypeOK
        <4>3. i \in PageOf(m) /\ i \notin page'[g] /\ i \in 1..n
          BY <2>1, <3>4, <4>1, <4>2 DEF PageInv, PageOf, Begins
        <4>4. ASSUME NEW k \in page'[g] PROVE Before(k, i)
          <5>1. k \in PageOf(n) /\ k \in 1..n /\ k # i
            BY <3>3, <4>3, <4>4 DEF Begins, PageOf
          <5>2. CASE i \in PageOf(n)
            <6>1. ~ Before(i, k)
              BY <3>3, <4>3, <4>4, <5>2 DEF Begins
            <6> QED
              BY <2>1, <3>2, <4>3, <5>1, <6>1, BeforeOrder
          <5>3. CASE i \notin PageOf(n)
            BY <2>1, <3>2, <4>3, <5>1, <5>3, LeftOut
          <5> QED
            BY <5>2, <5>3
        <4>5. ASSUME page'[g] = Page
              PROVE  /\ Cardinality(page'[g]) = PageLimit
                     /\ \E k \in page'[g] : k > m
          <5>1. page'[g] = PageOf(n) /\ i \notin PageOf(n)
            BY <3>3, <4>3, <4>5
          <5>2. Cardinality(PageOf(n)) = PageLimit
            BY <2>1, <3>2, <4>3, <5>1, PageFull
          <5>3. \E k \in PageOf(n) : k > m /\ Before(k, i)
            BY <2>1, <3>2, <4>2, <4>3, <5>1, DroppedFor
          <5> QED
            BY <5>1, <5>2, <5>3
        <4> QED
          BY <4>1, <4>2, <4>4, <4>5
      <3> QED
        BY <3>4
    <2>3. CASE UNCHANGED historyVars
      BY <2>3 DEF historyVars
    <2> QED
      BY <1>1, <2>2, <2>3 DEF Next, TableStep, OverviewStep, RequestStep, vars
  <1> QED
    BY <1>1, Invariance, PTL DEF Spec, ShownStays

(***************************************************************************)
(* An answer from the cache counts every message stored a Ttl and the time *)
(* of one count before it was asked for, a fresh one every message stored  *)
(* before the count began, however requests overlap                        *)
(* (monitoring/handler.go 266-284).                                        *)
(***************************************************************************)
THEOREM AnswersAreFresh == Spec => Fresh
  <1>1. ASSUME IInv, [Next]_vars
        PROVE  [ \A r \in Reqs : req'[r].pc = "idle" =>
                   /\ req[r].pc = "check" /\ cache.fault = "none" =>
                        cache.value.total >= StoredBy(req[r].since - Ttl - MaxBuild)
                   /\ req[r].pc = "store" /\ req[r].fault = "none" =>
                        req[r].got.total >= StoredBy(req[r].since - 1) ]_<<tableVars, overviewVars>>
    <2>1. TableTypeOK /\ OverviewTypeOK /\ OverviewInv
      BY <1>1 DEF IInv, TypeOK
    <2>2. ASSUME NEW r \in Reqs, req'[r].pc = "idle", req[r].pc = "store", req[r].fault = "none"
          PROVE  req[r].got.total >= StoredBy(req[r].since - 1)
      BY <2>1, <2>2 DEF OverviewInv, CountInv
    <2>3. ASSUME NEW r \in Reqs, req'[r].pc = "idle", req[r].pc = "check", cache.fault = "none"
          PROVE  cache.value.total >= StoredBy(req[r].since - Ttl - MaxBuild)
      <3>1. Hit(r)
        <4>1. OverviewStep
          BY <1>1, <2>3 DEF Next, TableStep, HistoryStep, RequestStep, vars, overviewVars
        <4>2. PICK q \in Reqs : \/ Arrive(q) \/ Hit(q) \/ Miss(q) \/ Select(q) \/ SelectFails(q)
                                \/ Cutoff(q) \/ NoMessages(q) \/ Store(q)
          BY <4>1 DEF OverviewStep, OverviewNext
        <4>3. q = r
          <5>1. CASE q # r
            <6>1. req'[r] = req[r]
              BY <2>1, <4>2, <5>1 DEF OverviewTypeOK, Arrive, Hit, Miss, Select, SelectFails,
                 Cutoff, NoMessages, Store
            <6> QED
              BY <2>3, <6>1
          <5> QED
            BY <5>1
        <4>4. ~ (Arrive(r) \/ Select(r) \/ SelectFails(r) \/ Cutoff(r) \/ NoMessages(r) \/ Store(r))
          BY <2>3 DEF Arrive, Select, SelectFails, Cutoff, NoMessages, Store, Counts
        <4>5. ~ Miss(r)
          <5>1. ASSUME Miss(r) PROVE FALSE
            <6>1. PICK y : y = [Idle EXCEPT !.pc = "cutoff", !.since = now]
              OBVIOUS
            <6>2. y.pc = "cutoff"
              BY <6>1 DEF Idle
            <6>3. req'[r] = y
              BY <2>1, <5>1, <6>1 DEF Miss, OverviewTypeOK
            <6> QED
              BY <2>3, <6>2, <6>3
          <5> QED
            BY <5>1
        <4> QED
          BY <4>2, <4>3, <4>4, <4>5
      <3>2. /\ now \in Nat /\ req[r] \in Requests /\ cache.expires \in Nat
            /\ cache.value["total"] \in Nat
        BY <2>1 DEF TableTypeOK, OverviewTypeOK, Counts
      <3>3. req[r].since \in Nat /\ req[r].since < cache.expires
        BY <3>1, <3>2 DEF Hit, Requests
      <3>4. PICK t \in Int : t = cache.expires - Ttl - MaxBuild - 1
        BY <3>2, Spans
      <3>5. PICK u \in Int : u = req[r].since - Ttl - MaxBuild
        BY <3>3, Spans
      <3>6. u <= t
        BY <3>2, <3>3, <3>4, <3>5, Spans
      <3>7. StoredBy(u) <= StoredBy(t) /\ StoredBy(u) \in Nat /\ StoredBy(t) \in Nat
        BY <2>1, <3>6, StoredCounted
      <3>8. cache.value["total"] >= StoredBy(t)
        BY <2>1, <2>3, <3>4 DEF OverviewInv, CacheInv
      <3> QED
        BY <3>2, <3>5, <3>7, <3>8
    <2> QED
      BY <2>2, <2>3
  <1> QED
    BY <1>1, Invariance, PTL DEF Spec, Fresh

-----------------------------------------------------------------------------
(***************************************************************************)
(* The percentiles: the rank-th of the samples, and of the latencies that  *)
(* they are the end of.                                                    *)
(***************************************************************************)

\* A set of numbers that is not empty has a least one.
LEMMA Least ==
  ASSUME NEW N \in SUBSET Nat, N # {}
  PROVE  \E x \in N : \A y \in N : x <= y
  <1>1. PICK x \in N : \A y \in N : ~ (<<y, x>> \in OpToRel(<, Nat))
    BY NatLessThanWellFounded, WFMin
  <1>2. ASSUME NEW y \in N PROVE x <= y
    <2>1. x \in Nat /\ y \in Nat
      OBVIOUS
    <2>2. ~ y < x
      BY <1>1, <2>1 DEF OpToRel
    <2> QED
      BY <2>1, <2>2
  <1> QED
    BY <1>2

\* One that is not empty and finite, as the values of a list at some places, a
\* greatest one: that which the fewest exceed.
LEMMA Greatest ==
  ASSUME NEW m \in Nat, NEW f, \A k \in 1..m : f[k] \in Nat,
         NEW B \in SUBSET (1..m), B # {}
  PROVE  \E k \in B : \A j \in B : f[j] <= f[k]
  <1> DEFINE Above(k) == {j \in B : f[j] > f[k]}
  <1>1. IsFiniteSet(B)
    <2>1. IsFiniteSet(1..m)
      BY FS_Interval
    <2> QED
      BY <2>1, FS_Subset
  <1>2. ASSUME NEW k \in B PROVE IsFiniteSet(Above(k)) /\ Cardinality(Above(k)) \in Nat
    BY <1>1, FS_Subset, FS_CardinalityType
  <1>3. PICK N \in SUBSET Nat : N = {Cardinality(Above(k)) : k \in B}
    BY <1>2
  <1>4. N # {}
    BY <1>3
  <1>5. PICK x \in N : \A y \in N : x <= y
    BY <1>4, Least
  <1>6. PICK k \in B : x = Cardinality(Above(k))
    BY <1>3
  <1>7. ASSUME NEW j \in B, ~ f[j] <= f[k] PROVE FALSE
    <2>1. f[j] > f[k] /\ f[j] \in Nat /\ f[k] \in Nat /\ j \in Above(k) /\ j \notin Above(j)
      BY <1>7
    <2>2. Above(j) \in SUBSET Above(k)
      <3>1. ASSUME NEW i \in Above(j) PROVE i \in Above(k)
        <4>1. i \in B /\ f[i] \in Nat /\ f[i] > f[j]
          OBVIOUS
        <4> QED
          BY <2>1, <4>1
      <3>2. Above(j) \subseteq Above(k)
        BY <3>1
      <3> HIDE DEF Above
      <3> QED
        BY <3>2
    <2>3. /\ Cardinality(Above(j)) <= Cardinality(Above(k))
          /\ Cardinality(Above(k)) # Cardinality(Above(j))
      BY <1>2, <2>1, <2>2, FS_Subset
    <2>4. x <= Cardinality(Above(j))
      BY <1>3, <1>5
    <2> HIDE DEF Above
    <2>5. Cardinality(Above(j)) \in Nat /\ Cardinality(Above(k)) \in Nat
      BY <1>2
    <2> QED
      BY <1>6, <2>3, <2>4, <2>5
  <1> QED
    BY <1>7

\* The places of a list with at most, and with less than, a value.
UpToSet(list, l) == {i \in 1..Len(list) : list[i] <= l}
BelowSet(list, l) == {i \in 1..Len(list) : list[i] < l}

LEMMA PlacesCounted ==
  ASSUME NEW list \in Seq(Latencies), NEW l
  PROVE  /\ IsFiniteSet(UpToSet(list, l)) /\ Cardinality(UpToSet(list, l)) \in Nat
         /\ IsFiniteSet(BelowSet(list, l)) /\ Cardinality(BelowSet(list, l)) \in Nat
  <1>1. IsFiniteSet(1..Len(list))
    BY FS_Interval
  <1>2. UpToSet(list, l) \in SUBSET (1..Len(list)) /\ BelowSet(list, l) \in SUBSET (1..Len(list))
    BY DEF UpToSet, BelowSet
  <1> QED
    BY <1>1, <1>2, FS_Subset, FS_CardinalityType

\* The rank is of a sample, and the least that covers the percentage.
LEMMA RankBounds ==
  ASSUME NEW p \in 1..100, NEW m \in Nat \ {0}
  PROVE  /\ Rank(p, m) \in 1..m
         /\ 100 * Rank(p, m) >= p * m
         /\ 100 * (Rank(p, m) - 1) < p * m
  <1>1. p * m \in Nat /\ p * m >= 1 /\ p * m <= 100 * m
    OBVIOUS
  <1>2. PICK q \in Nat : q = p * m
    BY <1>1
  <1>3. PICK r \in Nat : r = (q + 99) \div 100
    OBVIOUS
  <1>4. 100 * r <= q + 99 /\ q < 100 * r + 1
    BY <1>3
  <1>5. r = Rank(p, m)
    BY <1>2, <1>3 DEF Rank
  <1>6. 1 <= r /\ r <= m
    BY <1>1, <1>2, <1>4
  <1> QED
    BY <1>2, <1>4, <1>5, <1>6

\* There is a sample of every rank.
LEMMA RankedSample ==
  ASSUME NEW list \in Seq(Latencies), NEW r \in 1..Len(list)
  PROVE  \E v \in Latencies : /\ Cardinality(BelowSet(list, v)) < r
                              /\ r <= Cardinality(UpToSet(list, v))
  <1>1. PICK m \in Nat : m = Len(list)
    OBVIOUS
  <1>2. \A k \in 1..m : list[k] \in Latencies /\ list[k] \in Nat
    <2>1. \A k \in 1..m : list[k] \in Latencies
      BY <1>1
    <2> QED
      BY <2>1, ObservabilityAssumption
  <1>3. PICK V \in SUBSET Nat : V = {l \in Latencies : r <= Cardinality(UpToSet(list, l))}
    BY ObservabilityAssumption
  <1>4. V # {}
    <2>1. PICK k \in 1..m : \A j \in 1..m : list[j] <= list[k]
      BY <1>1, <1>2, Greatest
    <2>2. UpToSet(list, list[k]) = 1..m
      BY <1>1, <2>1 DEF UpToSet
    <2>3. Cardinality(1..m) = m
      BY FS_Interval
    <2> QED
      BY <1>1, <1>2, <1>3, <2>2, <2>3
  <1>5. PICK v \in V : \A l \in V : v <= l
    BY <1>4, Least
  <1>6. v \in Latencies /\ v \in Nat /\ r <= Cardinality(UpToSet(list, v))
    BY <1>3
  <1>7. Cardinality(BelowSet(list, v)) \in Nat /\ r \in Nat
    BY PlacesCounted
  <1>8. ASSUME r <= Cardinality(BelowSet(list, v)) PROVE FALSE
    <2>1. BelowSet(list, v) \in SUBSET (1..m)
      BY <1>1 DEF BelowSet
    <2>2. BelowSet(list, v) # {}
      <3>1. Cardinality(BelowSet(list, v)) # 0
        BY <1>7, <1>8
      <3> QED
        BY <3>1, FS_EmptySet
    <2>3. PICK k \in BelowSet(list, v) : \A j \in BelowSet(list, v) : list[j] <= list[k]
      BY <1>2, <2>1, <2>2, Greatest
    <2>4. /\ k \in 1..m /\ list[k] < v /\ list[k] \in Latencies /\ list[k] \in Nat
      BY <1>1, <1>2, <2>1 DEF BelowSet
    <2>5. BelowSet(list, v) \in SUBSET UpToSet(list, list[k])
      BY <2>3 DEF BelowSet, UpToSet
    <2>6. /\ Cardinality(BelowSet(list, v)) <= Cardinality(UpToSet(list, list[k]))
          /\ Cardinality(UpToSet(list, list[k])) \in Nat
      BY <2>5, PlacesCounted, FS_Subset
    <2>7. list[k] \in V
      BY <1>3, <1>7, <1>8, <2>4, <2>6
    <2> QED
      BY <1>5, <1>6, <2>4, <2>7
  <1>9. Cardinality(BelowSet(list, v)) < r
    BY <1>7, <1>8
  <1> QED
    BY <1>6, <1>9

LEMMA PercentileRanked ==
  ASSUME NEW list \in Seq(Latencies), NEW p \in 1..100, Len(list) # 0
  PROVE  /\ Percentile(list, p) \in Latencies
         /\ Cardinality(BelowSet(list, Percentile(list, p))) < Rank(p, Len(list))
         /\ Rank(p, Len(list)) <= Cardinality(UpToSet(list, Percentile(list, p)))
  <1>1. Rank(p, Len(list)) \in 1..Len(list)
    <2>1. Len(list) \in Nat \ {0}
      OBVIOUS
    <2> QED
      BY <2>1, RankBounds
  <1>2. PICK r : r = Rank(p, Len(list))
    OBVIOUS
  <1>3. \E v \in Latencies : /\ Cardinality(BelowSet(list, v)) < r
                             /\ r <= Cardinality(UpToSet(list, v))
    BY <1>1, <1>2, RankedSample
  <1>4. Percentile(list, p) = CHOOSE v \in Latencies : /\ Cardinality(BelowSet(list, v)) < r
                                                       /\ r <= Cardinality(UpToSet(list, v))
    BY <1>2 DEF Percentile, BelowSet, UpToSet
  <1> QED
    BY <1>2, <1>3, <1>4

\* The samples are the latest latencies, moved by d places: as many of the one
\* as of the other are at most l.
LEMMA SamplesAndLatest ==
  ASSUME ObservabilityTypeOK, SamplesInv, NEW latest,
         latest = {i \in 1..Len(recorded) : i > Len(recorded) - SampleLimit}
  PROVE  /\ Cardinality(latest) = Len(metric.samples)
         /\ \A k \in 1..Len(metric.samples) : \E i \in latest : recorded[i] = metric.samples[k]
         /\ \A l : Cardinality({i \in latest : recorded[i] <= l})
                     = Cardinality(UpToSet(metric.samples, l))
  <1>1. PICK s : s = metric.samples
    OBVIOUS
  <1>2. s \in Seq(Latencies) /\ recorded \in Seq(Latencies) /\ IsLastOf(s, recorded)
    BY <1>1 DEF ObservabilityTypeOK, SamplesInv
  <1>3. PICK m \in Nat, n \in Nat : m = Len(s) /\ n = Len(recorded)
    BY <1>2
  <1>4. /\ m = IF n <= SampleLimit THEN n ELSE SampleLimit
        /\ \A k \in 1..m : s[k] = recorded[(n - m) + k]
    BY <1>2, <1>3 DEF IsLastOf
  <1>5. PICK d \in Nat, limit \in Nat :
          /\ limit = SampleLimit /\ d = n - m /\ m <= limit /\ (n > limit => m = limit)
    <2>1. PICK limit \in Nat : limit = SampleLimit
      BY ObservabilityAssumption
    <2>2. n - m \in Nat /\ m <= limit /\ (n > limit => m = limit)
      BY <1>4, <2>1
    <2> QED
      BY <2>1, <2>2
  <1>6. /\ \A k \in 1..m : d + k \in latest /\ recorded[d + k] = s[k]
        /\ \A i \in latest : i - d \in 1..m /\ d + (i - d) = i
    <2>1. latest = {i \in 1..n : i > n - limit}
      BY <1>3, <1>5
    <2>2. n <= limit => m = n
      BY <1>4, <1>5
    <2>3. ASSUME NEW k \in 1..m PROVE d + k \in latest /\ recorded[d + k] = s[k]
      <3>1. d + k \in 1..n /\ d + k > n - limit
        BY <1>5
      <3> QED
        BY <1>4, <1>5, <2>1, <3>1
    <2>4. ASSUME NEW i \in latest PROVE i - d \in 1..m /\ d + (i - d) = i
      BY <1>5, <2>1, <2>2
    <2> QED
      BY <2>3, <2>4
  <1>7. ASSUME NEW K \in SUBSET (1..m), NEW T \in SUBSET latest,
               \A k \in K : d + k \in T, \A i \in T : i - d \in K
        PROVE  Cardinality(T) = Cardinality(K)
    <2>1. PICK f : f = [k \in K |-> d + k]
      OBVIOUS
    <2>2. f \in [K -> T] /\ \A a, b \in K : f[a] = f[b] => a = b
      BY <1>7, <2>1
    <2>3. \A i \in T : \E k \in K : f[k] = i
      <3>1. ASSUME NEW i \in T PROVE \E k \in K : f[k] = i
        <4>1. i - d \in K /\ d + (i - d) = i
          BY <1>6, <1>7
        <4> QED
          BY <2>1, <4>1
      <3> QED
        BY <3>1
    <2>4. f \in Injection(K, T) /\ f \in Surjection(K, T)
      BY <2>2, <2>3, Fun_IsInj, Fun_IsSurj
    <2>5. IsFiniteSet(K)
      <3>1. IsFiniteSet(1..m)
        BY FS_Interval
      <3> QED
        BY <3>1, FS_Subset
    <2> QED
      BY <2>4, <2>5, FS_Surjection
  <1>8. Cardinality(latest) = m
    <2>1. Cardinality(latest) = Cardinality(1..m)
      BY <1>6, <1>7
    <2>2. Cardinality(1..m) = m
      BY FS_Interval
    <2> QED
      BY <2>1, <2>2
  <1>9. ASSUME NEW l
        PROVE Cardinality({i \in latest : recorded[i] <= l}) = Cardinality(UpToSet(s, l))
    <2>1. PICK K \in SUBSET (1..m) : K = UpToSet(s, l)
      BY <1>3 DEF UpToSet
    <2>2. PICK T \in SUBSET latest : T = {i \in latest : recorded[i] <= l}
      OBVIOUS
    <2>3. \A k \in K : d + k \in T
      BY <1>3, <1>6, <2>1, <2>2 DEF UpToSet
    <2>4. \A i \in T : i - d \in K
      <3>1. ASSUME NEW i \in T PROVE i - d \in K
        <4>1. i \in latest /\ recorded[i] <= l /\ i - d \in 1..m /\ d + (i - d) = i
          BY <1>6, <2>2
        <4>2. s[i - d] = recorded[i]
          BY <1>6, <4>1
        <4> QED
          BY <1>3, <2>1, <4>1, <4>2 DEF UpToSet
      <3> QED
        BY <3>1
    <2> QED
      BY <1>7, <2>1, <2>2, <2>3, <2>4
  <1> QED
    BY <1>1, <1>3, <1>6, <1>8, <1>9

(***************************************************************************)
(* The percentile is the least latency that so many percent of the latest  *)
(* SampleLimit do not exceed, whatever the latencies and however many      *)
(* requests overlap (observability.go 162-188, 219-239).                   *)
(***************************************************************************)
THEOREM PercentilesCorrect == Spec => []Percentiles
  <1>1. ASSUME IInv PROVE Percentiles
    <2>1. /\ ObservabilityTypeOK /\ SamplesInv
          /\ metric.samples \in Seq(Latencies) /\ recorded \in Seq(Latencies)
      BY <1>1 DEF IInv, ObservabilityInv, ObservabilityTypeOK
    <2>2. PICK latest : latest = {i \in 1..Len(recorded) : i > Len(recorded) - SampleLimit}
      OBVIOUS
    <2>3. PICK m \in Nat : m = Len(metric.samples)
      BY <2>1
    <2>4. /\ Cardinality(latest) = m
          /\ \A k \in 1..m : \E i \in latest : recorded[i] = metric.samples[k]
          /\ \A l : Cardinality({i \in latest : recorded[i] <= l})
                      = Cardinality(UpToSet(metric.samples, l))
      BY <2>1, <2>2, <2>3, SamplesAndLatest
    <2>5. ASSUME Len(recorded) > 0, NEW p \in Percents, NEW v, v = Percentile(metric.samples, p)
          PROVE  /\ \E i \in latest : recorded[i] = v
                 /\ 100 * Cardinality({i \in latest : recorded[i] <= v}) >= p * Cardinality(latest)
                 /\ \A l \in Latencies : l < v =>
                      ~ 100 * Cardinality({i \in latest : recorded[i] <= l}) >= p * Cardinality(latest)
      <3>1. m # 0
        BY <2>1, <2>3, <2>5, ObservabilityAssumption DEF SamplesInv, IsLastOf
      <3>2. p \in 1..100
        BY ObservabilityAssumption
      <3>3. PICK r \in 1..m : r = Rank(p, m) /\ 100 * r >= p * m /\ 100 * (r - 1) < p * m
        BY <3>1, <3>2, RankBounds
      <3>4. /\ v \in Latencies /\ v \in Nat
            /\ Cardinality(BelowSet(metric.samples, v)) < r
            /\ r <= Cardinality(UpToSet(metric.samples, v))
        <4>1. v \in Latencies
          BY <2>1, <2>3, <2>5, <3>1, <3>2, PercentileRanked
        <4> QED
          BY <2>1, <2>3, <2>5, <3>1, <3>2, <3>3, <4>1, PercentileRanked, ObservabilityAssumption
      <3>5. /\ Cardinality(BelowSet(metric.samples, v)) \in Nat
            /\ IsFiniteSet(BelowSet(metric.samples, v))
            /\ Cardinality(UpToSet(metric.samples, v)) \in Nat /\ p * m \in Nat
        BY <2>1, <3>2, PlacesCounted
      <3>6. \E i \in latest : recorded[i] = v
        <4>1. UpToSet(metric.samples, v) # BelowSet(metric.samples, v)
          BY <3>4, <3>5
        <4>2. PICK k \in 1..m : metric.samples[k] <= v /\ ~ metric.samples[k] < v
          <5>1. \A k \in BelowSet(metric.samples, v) : k \in UpToSet(metric.samples, v)
            <6>1. ASSUME NEW k \in 1..m, metric.samples[k] < v PROVE metric.samples[k] <= v
              <7>1. metric.samples[k] \in Latencies
                BY <2>1, <2>3
              <7>2. metric.samples[k] \in Nat
                BY <7>1, ObservabilityAssumption
              <7> QED
                BY <3>4, <6>1, <7>2
            <6> QED
              BY <2>3, <6>1 DEF UpToSet, BelowSet
          <5>2. PICK k \in UpToSet(metric.samples, v) : k \notin BelowSet(metric.samples, v)
            BY <4>1, <5>1
          <5> QED
            BY <2>3, <5>2 DEF UpToSet, BelowSet
        <4>3. metric.samples[k] \in Latencies
          BY <2>1, <2>3
        <4>4. metric.samples[k] \in Nat
          BY <4>3, ObservabilityAssumption
        <4>5. metric.samples[k] = v
          BY <3>4, <4>2, <4>4
        <4> QED
          BY <2>4, <4>5
      <3>7. 100 * Cardinality({i \in latest : recorded[i] <= v}) >= p * Cardinality(latest)
        <4>1. 100 * Cardinality(UpToSet(metric.samples, v)) >= 100 * r
          BY <3>4, <3>5
        <4> QED
          BY <2>4, <3>3, <3>5, <4>1
      <3>8. ASSUME NEW l \in Latencies, l < v
            PROVE  ~ 100 * Cardinality({i \in latest : recorded[i] <= l}) >= p * Cardinality(latest)
        <4>1. l \in Nat
          BY ObservabilityAssumption
        <4>2. UpToSet(metric.samples, l) \in SUBSET BelowSet(metric.samples, v)
          <5>1. ASSUME NEW k \in UpToSet(metric.samples, l) PROVE k \in BelowSet(metric.samples, v)
            <6>1. k \in 1..Len(metric.samples) /\ metric.samples[k] <= l
              BY DEF UpToSet
            <6>2. metric.samples[k] \in Latencies
              BY <2>1, <6>1
            <6>3. metric.samples[k] \in Nat
              BY <6>2, ObservabilityAssumption
            <6>4. metric.samples[k] < v
              BY <3>4, <3>8, <4>1, <6>1, <6>3
            <6> QED
              BY <6>1, <6>4 DEF BelowSet
          <5> QED
            BY <5>1
        <4>3. /\ Cardinality(UpToSet(metric.samples, l)) <= Cardinality(BelowSet(metric.samples, v))
              /\ Cardinality(UpToSet(metric.samples, l)) \in Nat
          BY <2>1, <3>5, <4>2, FS_Subset, PlacesCounted
        <4>4. 100 * Cardinality(UpToSet(metric.samples, l)) <= 100 * (r - 1)
          BY <3>4, <3>5, <4>3
        <4> QED
          BY <2>4, <3>3, <3>5, <4>3, <4>4
      <3> QED
        BY <3>6, <3>7, <3>8
    <2>6. CASE Len(recorded) > 0
      <3>1. \A p \in Percents : LET v == Percentile(metric.samples, p) IN
              /\ \E i \in latest : recorded[i] = v
              /\ 100 * Cardinality({i \in latest : recorded[i] <= v}) >= p * Cardinality(latest)
              /\ \A l \in Latencies : l < v =>
                   ~ 100 * Cardinality({i \in latest : recorded[i] <= l}) >= p * Cardinality(latest)
        BY <2>5, <2>6
      <3> QED
        BY <2>2, <3>1 DEF Percentiles
    <2> QED
      BY <2>6 DEF Percentiles
  <1> QED
    BY <1>1, Invariance, PTL
=============================================================================

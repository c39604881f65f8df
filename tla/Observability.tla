---------------------------- MODULE Observability ----------------------------
(***************************************************************************)
(* What AccessLogAndMetrics does when a request to the admin API has been  *)
(* handled: under one lock it updates the metrics of the endpoint, under   *)
(* another it writes a line to the access log, a file per day, for which   *)
(* ADMIN_ACCESS_LOG_DIR is set.  One endpoint: they share nothing but the  *)
(* lock.  Days are those of the machine's time zone, which name the files; *)
(* the time in a line is written in UTC.                                   *)
(***************************************************************************)
EXTENDS Integers, Sequences, FiniteSets

CONSTANTS
  Calls,        \* requests at one time
  Latencies,    \* how long a request may take
  SampleLimit,  \* maxLatencySamples, 512
  Percents,     \* {95, 99}
  MaxCalls,     \* bound: requests in all
  MaxDay        \* bound: the last day

ASSUME ObservabilityAssumption ==
  /\ Latencies \subseteq Nat
  /\ SampleLimit \in Nat \ {0}
  /\ Percents \subseteq 1..100
  /\ MaxCalls \in Nat /\ MaxDay \in Nat

VARIABLES
  call,      \* per request: where it is in the middleware, its latency and
             \* status, the day its line was made, and nowDate under the lock
  metric,    \* the endpointCounter
  today,     \* the date
  sink,      \* accessLogSink: is a file open, and the date it was opened for
  files,     \* what was written to each day's file, one write after the other
  recorded   \* history: every latency recorded

observabilityVars == <<call, metric, today, sink, files, recorded>>

Dates == 0..MaxDay
\* A call once its latency and status are recorded.
Stage(label, ts, date) ==
  [pc |-> label, latency |-> 0, status |-> "ok", ts |-> ts, date |-> date]

NoCall == Stage("idle", 0, 0)
NoDate == -1

\* A write puts a whole line at the end, or the beginning of one, to which the
\* next is joined.
Pieces == [ts : Dates, size : {"whole", "part"}]

ObservabilityTypeOK ==
  /\ call \in [Calls -> [pc : {"idle", "record", "log", "write"}, latency : Nat,
                         status : {"ok", "error"}, ts : Dates, date : Dates]]
  /\ metric \in [count : Nat, errors : Nat, samples : Seq(Latencies)]
  /\ Len(metric.samples) <= SampleLimit
  /\ metric.errors <= metric.count
  /\ today \in Dates
  /\ sink \in [file : {"none", "open"}, date : Dates \cup {NoDate}]
  /\ files \in [Dates -> Seq(Pieces)]
  /\ recorded \in Seq(Latencies)

ObservabilityInit ==
  /\ call = [c \in Calls |-> NoCall]
  /\ metric = [count |-> 0, errors |-> 0, samples |-> << >>]
  /\ today = 0
  /\ sink = [file |-> "none", date |-> NoDate]
  /\ files = [d \in Dates |-> << >>]
  /\ recorded = << >>

Midnight ==
  /\ today < MaxDay
  /\ today' = today + 1
  /\ UNCHANGED <<call, metric, sink, files, recorded>>

\* c.Next() returns, after some time and with some status.
Handled(c) ==
  /\ call[c].pc = "idle"
  /\ Len(recorded) + Cardinality({d \in Calls : call[d].pc = "record"}) < MaxCalls
  /\ \E l \in Latencies, s \in {"ok", "error"} :
       call' = [call EXCEPT ![c] =
                 [pc |-> "record", latency |-> l, status |-> s, ts |-> 0, date |-> 0]]
  /\ UNCHANGED <<metric, today, sink, files, recorded>>

-----------------------------------------------------------------------------
(***************************************************************************)
(* Mutants; the specification uses none of them.                           *)
(***************************************************************************)

\* The first samples are kept rather than the last.
MutLastOf(list) == SubSeq(list, 1, IF Len(list) < SampleLimit THEN Len(list) ELSE SampleLimit)

\* The rank rounded down.
MutRank(percent, n) == IF percent * n < 100 THEN 1 ELSE (percent * n) \div 100

\* The date is read before the lock.
MutTakeSink(c) ==
  /\ call[c].pc = "log"
  /\ call' = [call EXCEPT ![c] = Stage("write", call[c].ts, today)]
  /\ UNCHANGED <<metric, today, sink, files, recorded>>

-----------------------------------------------------------------------------
\* The last SampleLimit elements.
LastOf(list) ==
  IF Len(list) <= SampleLimit THEN list
  ELSE SubSeq(list, Len(list) - SampleLimit + 1, Len(list))

\* The metrics' lock is given back, then the line is made, with the time.
Record(c) ==
  /\ call[c].pc = "record"
  /\ metric' = [count |-> metric.count + 1,
                errors |-> metric.errors + (IF call[c].status = "error" THEN 1 ELSE 0),
                samples |-> LastOf(Append(metric.samples, call[c].latency))]
  /\ recorded' = Append(recorded, call[c].latency)
  /\ call' = [call EXCEPT ![c] = Stage("log", today, 0)]
  /\ UNCHANGED <<today, sink, files>>

\* The index, from 1, of a percentile: the product rounded up, within bounds.
Rank(percent, n) == (percent * n + 99) \div 100

\* The element of that rank once the samples are sorted.
Percentile(samples, percent) ==
  CHOOSE l \in Latencies :
    LET below == Cardinality({i \in 1..Len(samples) : samples[i] < l})
        upTo  == Cardinality({i \in 1..Len(samples) : samples[i] <= l})
    IN below < Rank(percent, Len(samples)) /\ Rank(percent, Len(samples)) <= upTo

\* writeAccessLogToFile takes the lock of the sink and reads the date.
TakeSink(c) ==
  /\ call[c].pc = "log"
  /\ \A d \in Calls : call[d].pc # "write"
  /\ call' = [call EXCEPT ![c] = Stage("write", call[c].ts, today)]
  /\ UNCHANGED <<metric, today, sink, files, recorded>>

\* Another day than the file's, or no file since the last open failed.
MustOpen(date) == sink.file = "none" \/ sink.date # date

\* The old file is closed in any case; the date stays that of the last success.
OpenFails ==
  /\ sink' = [sink EXCEPT !.file = "none"]
  /\ UNCHANGED files

\* Whether all, a part or nothing of the line gets into the open file, nobody
\* is told, and the file stays open.
WriteLine(c) ==
  \/ \E size \in {"whole", "part"} :
       files' = [files EXCEPT ![sink'.date] = Append(@, [ts |-> call[c].ts, size |-> size])]
  \/ UNCHANGED files

\* The rest, under the lock; the date may have changed since it was read.
WriteLog(c) ==
  /\ call[c].pc = "write"
  /\ call' = [call EXCEPT ![c] = NoCall]
  /\ \/ MustOpen(call[c].date) /\ OpenFails
     \/ MustOpen(call[c].date) /\ sink' = [file |-> "open", date |-> call[c].date] /\ WriteLine(c)
     \/ ~ MustOpen(call[c].date) /\ sink' = sink /\ WriteLine(c)
  /\ UNCHANGED <<metric, today, recorded>>

ObservabilityNext ==
  \/ Midnight
  \/ \E c \in Calls : Handled(c) \/ Record(c) \/ TakeSink(c) \/ WriteLog(c)

-----------------------------------------------------------------------------
(***************************************************************************)
(* Properties                                                              *)
(***************************************************************************)

(***************************************************************************)
(* The percentile of the metrics is, of the latest SampleLimit latencies   *)
(* and of those only, the least that so many percent of them do not exceed *)
(* (observability.go 162-188, 219-239).                                    *)
(***************************************************************************)
Percentiles ==
  LET n == Len(recorded)
      latest == {i \in 1..n : i > n - SampleLimit}
      Covers(l, p) == 100 * Cardinality({i \in latest : recorded[i] <= l}) >= p * Cardinality(latest)
  IN n > 0 => \A p \in Percents :
       LET v == Percentile(metric.samples, p) IN
       /\ \E i \in latest : recorded[i] = v
       /\ Covers(v, p)
       /\ \A l \in Latencies : l < v => ~ Covers(l, p)

(***************************************************************************)
(* Whatever midnights, failed openings and short writes come between, the  *)
(* daily files read one after the other are the lines in the order they    *)
(* were written: a write adds to the end of a file when no later day's has *)
(* anything yet.  A line can be in the file of a later day than the one it *)
(* was made on, never of an earlier (observability.go 109, 139-159).       *)
(***************************************************************************)
DailyFiles ==
  [][ \A d \in Dates : files'[d] # files[d] =>
        /\ \E piece \in Pieces : piece.ts <= d /\ files'[d] = Append(files[d], piece)
        /\ \A e \in Dates : e > d => files[e] = << >> ]_observabilityVars
=============================================================================

---------------------------- MODULE AuditProofs ----------------------------
(***************************************************************************)
(* Proofs about AuditChain, for any requests in flight and any number of   *)
(* events, failed writes and restarts.                                     *)
(***************************************************************************)
EXTENDS AuditChain, SequenceTheorems, TLAPS

-----------------------------------------------------------------------------
(***************************************************************************)
(* The inductive invariant, in parts.                                      *)
(***************************************************************************)

\* s.mu: one request at most is between Lock and Unlock.
Mutex == \A r, s \in Reqs : pc[r] \in Inside /\ pc[s] \in Inside => r = s

Chained(r) == pc[r] = "chained"

\* A torn line breaks the chain before and after it and after the line it spoils.
TornInv ==
  \A i \in 1..Len(file) : ~file[i].whole => i \in gaps /\ i + 1 \in gaps

\* Unless a fault came last, the next event is linked to the last line: while
\* it is being made through lastHash, then through its own prev.
TailInv ==
  /\ (\A r \in Reqs : ~Chained(r)) /\ Len(file) > 0 /\ Len(file) \notin gaps
       => lastHash = file[Len(file)].hash
  /\ \A r \in Reqs : Chained(r) =>
       /\ event[r].hash = lastHash /\ event[r].whole
       /\ Len(file) > 0 /\ Len(file) \notin gaps
            => event[r].prev = file[Len(file)].hash

\* Time, and the numbers that stand for hashes, only grow.
AgeInv ==
  /\ \A i \in 1..Len(file) : file[i].time <= now /\ file[i].hash <= minted
  /\ \A r \in Reqs : Chained(r) =>
       /\ event[r].time <= now /\ event[r].hash <= minted
       /\ \A i \in 1..Len(file) :
            file[i].time <= event[r].time /\ file[i].hash < event[r].hash

\* Only what stands in the file in full is acknowledged, and once.
AckInv ==
  /\ \A h \in acked : \E i \in 1..Len(file) : file[i].hash = h
  /\ \A r \in Reqs : pc[r] = "written" =>
       /\ event[r].hash \notin acked
       /\ \E i \in 1..Len(file) : file[i].whole /\ file[i].hash = event[r].hash

IInv ==
  /\ TypeOK /\ Mutex /\ TornInv /\ TailInv /\ AgeInv /\ AckInv
  /\ BreaksExplained /\ Chronological

-----------------------------------------------------------------------------
USE AuditAssumption

\* What stands in the file after a line was added to it.
LEMMA AddLine ==
  ASSUME NEW f \in Seq(Entry), NEW e \in Entry
  PROVE  /\ Append(f, e) \in Seq(Entry)
         /\ Len(f) \in Nat
         /\ Len(Append(f, e)) = Len(f) + 1
         /\ \A i \in 1..Len(f) : Append(f, e)[i] = f[i] /\ f[i] \in Entry
         /\ Append(f, e)[Len(f) + 1] = e
<1>1. \A i \in 1..Len(f) : f[i] \in Entry
  BY ElementOfSeq
<1> QED
  BY <1>1, AppendProperties

LEMMA TypeNext == TypeOK /\ [Next]_vars => TypeOK'
<1> SUFFICES ASSUME TypeOK, [Next]_vars PROVE TypeOK'
  OBVIOUS
<1> USE DEF TypeOK, Inside, Goto
<1>1. CASE Tick
  BY <1>1 DEF Tick
<1>2. CASE Restart
  <2>1. Len(file) \in Nat
    BY LenProperties
  <2>2. gaps' \subseteq Nat
    <3>1. gaps' = gaps \cup {Len(file)} /\ gaps \subseteq Nat
      BY <1>2 DEF Restart
    <3> QED
      BY <2>1, <3>1
  <2>3. lastHash' \in Nat /\ faults' \in 0..MaxFaults
    BY <1>2 DEF Restart, Genesis
  <2>4. pc' \in [Reqs -> {"idle", "waiting"} \cup Inside]
    BY <1>2 DEF Restart
  <2> QED
    BY <1>2, <2>2, <2>3, <2>4 DEF Restart
<1>3. ASSUME NEW r \in Reqs, Arrive(r)
      PROVE  TypeOK'
  BY <1>3 DEF Arrive
<1>4. ASSUME NEW r \in Reqs, Lock(r)
      PROVE  TypeOK'
  BY <1>4 DEF Lock
<1>5. ASSUME NEW r \in Reqs, Chain(r)
      PROVE  TypeOK'
  BY <1>5 DEF Chain, Entry
<1>6. ASSUME NEW r \in Reqs, Write(r)
      PROVE  TypeOK'
  BY <1>6, AddLine DEF Write
<1>7. ASSUME NEW r \in Reqs, WriteFails(r)
      PROVE  TypeOK'
  <2>1. [event[r] EXCEPT !.whole = FALSE] \in Entry
    BY DEF Entry
  <2>2. file' \in Seq(Entry) /\ Len(file) \in Nat
    BY <1>7, <2>1, AddLine DEF WriteFails
  <2>3. /\ Len(file) + 1 \in Nat /\ Len(file) + 2 \in Nat
    BY <2>2
  <2>4. gaps' \subseteq Nat
    BY <1>7, <2>2, <2>3 DEF WriteFails
  <2>5. pc' \in [Reqs -> {"idle", "waiting"} \cup Inside]
    BY <1>7 DEF WriteFails
  <2> QED
    BY <1>7, <2>2, <2>4, <2>5 DEF WriteFails
<1>8. ASSUME NEW r \in Reqs, Respond(r)
      PROVE  TypeOK'
  BY <1>8 DEF Respond, Entry
<1>9. CASE UNCHANGED vars
  BY <1>9 DEF vars
<1> QED
  BY <1>1, <1>2, <1>3, <1>4, <1>5, <1>6, <1>7, <1>8, <1>9 DEF Next, Handler

\* Lock waits until no one is inside; every other step leaves or stays.
LEMMA MutexNext == TypeOK /\ Mutex /\ [Next]_vars => Mutex'
<1> SUFFICES ASSUME TypeOK, Mutex, [Next]_vars PROVE Mutex'
  OBVIOUS
<1> USE DEF Mutex, TypeOK, Inside
<1>1. ASSUME NEW r \in Reqs, Lock(r)
      PROVE  Mutex'
  BY <1>1 DEF Lock, Unlocked, Goto
<1>2. ASSUME \A r \in Reqs : pc'[r] \in Inside => pc[r] \in Inside
      PROVE  Mutex'
  BY <1>2
<1>3. CASE Tick \/ Restart \/ UNCHANGED vars
  BY <1>2, <1>3 DEF Tick, Restart, vars
<1>4. ASSUME NEW r \in Reqs,
             Arrive(r) \/ Chain(r) \/ Write(r) \/ WriteFails(r) \/ Respond(r)
      PROVE  Mutex'
  BY <1>2, <1>4 DEF Arrive, Chain, Write, WriteFails, Respond, Goto
<1> QED
  BY <1>1, <1>3, <1>4 DEF Next, Handler

-----------------------------------------------------------------------------
\* The rest of the invariant.
FileInv ==
  TornInv /\ TailInv /\ AgeInv /\ AckInv /\ BreaksExplained /\ Chronological

LEMMA FileInit == Init => IInv
<1> SUFFICES ASSUME Init PROVE IInv
  OBVIOUS
<1>1. TypeOK
  BY DEF Init, TypeOK, Entry, NoEvent, Genesis, Inside
<1>2. Mutex /\ TailInv /\ AckInv
  BY DEF Init, Mutex, TailInv, AckInv, Inside, Chained
<1>3. TornInv /\ AgeInv /\ BreaksExplained /\ Chronological
  BY DEF Init, TornInv, AgeInv, BreaksExplained, Chronological, Chained
<1> QED
  BY <1>1, <1>2, <1>3 DEF IInv

\* A line is added to the file by request r, which holds the mutex: either its
\* event in full, or torn, with the chain broken all around it.
AddsLine(r) ==
  /\ pc[r] = "chained"
  /\ \E e \in Entry :
       /\ file' = Append(file, e)
       /\ e.hash = event[r].hash /\ e.time = event[r].time /\ e.prev = event[r].prev
       /\ \/ e.whole /\ gaps' = gaps /\ pc' = [pc EXCEPT ![r] = "written"]
          \/ /\ ~e.whole
             /\ gaps' = gaps \cup {Len(file), Len(file) + 1, Len(file) + 2}
             /\ pc' = [pc EXCEPT ![r] = "idle"]
  /\ UNCHANGED <<lastHash, minted, now, event, acked>>

LEMMA FileGrows ==
  ASSUME TypeOK, Mutex, FileInv, NEW r \in Reqs, AddsLine(r)
  PROVE  FileInv'
<1> DEFINE n == Len(file)
<1> PICK e \in Entry :
      /\ file' = Append(file, e)
      /\ e.hash = event[r].hash /\ e.time = event[r].time /\ e.prev = event[r].prev
      /\ \/ e.whole /\ gaps' = gaps /\ pc' = [pc EXCEPT ![r] = "written"]
         \/ /\ ~e.whole
            /\ gaps' = gaps \cup {Len(file), Len(file) + 1, Len(file) + 2}
            /\ pc' = [pc EXCEPT ![r] = "idle"]
  BY DEF AddsLine
<1>1. /\ pc[r] = "chained" /\ UNCHANGED <<lastHash, minted, now, event, acked>>
      /\ gaps \subseteq gaps'
  BY DEF AddsLine
<1>2. /\ n \in Nat /\ Len(file') = n + 1
      /\ \A i \in 1..n : file'[i] = file[i] /\ file[i] \in Entry
      /\ file'[n + 1] = e
  BY AddLine DEF TypeOK
<1>3. \A s \in Reqs : ~Chained(s)'
  BY <1>1 DEF Chained, Mutex, Inside, TypeOK
<1>4. \A i \in 1..(n + 1) : i \in 1..n \/ i = n + 1
  BY <1>2
<1> HIDE DEF n
<1>5. \A i \in 1..n : ~file[i].whole => i \in gaps' /\ i + 1 \in gaps'
  BY <1>1 DEF FileInv, TornInv, n
<1>6. ~e.whole => n \in gaps' /\ n + 1 \in gaps' /\ n + 2 \in gaps'
  BY DEF n
<1>7. TornInv'
  <2>1. n + 1 + 1 = n + 2
    BY <1>2
  <2> QED
    BY <1>2, <1>4, <1>5, <1>6, <2>1 DEF TornInv
<1>8. TailInv'
  <2>1. event[r].hash = lastHash
    BY <1>1 DEF FileInv, TailInv, Chained
  <2> QED
    BY <1>1, <1>2, <1>3, <2>1 DEF TailInv
<1>9. /\ e.time <= now /\ e.hash <= minted
      /\ \A i \in 1..n : file[i].time <= e.time /\ file[i].hash < e.hash
  BY <1>1 DEF FileInv, AgeInv, Chained, n
<1>10. AgeInv'
  <2>1. \A i \in 1..n : file[i].time <= now /\ file[i].hash <= minted
    BY DEF FileInv, AgeInv, n
  <2> QED
    BY <1>1, <1>2, <1>3, <1>4, <1>9, <2>1 DEF AgeInv
<1>11. AckInv'
  <2>1. \A h \in acked : \E i \in 1..n : file[i].hash = h
    BY DEF FileInv, AckInv, n
  <2>2. \A h \in acked' : \E i \in 1..Len(file') : file'[i].hash = h
    BY <1>1, <1>2, <2>1
  <2>3. e.hash \notin acked
    <3>1. \A i \in 1..n : file[i].hash \in Nat /\ file[i].hash # e.hash
      BY <1>2, <1>9 DEF Entry
    <3> QED
      BY <2>1, <3>1
  <2>4. ASSUME NEW s \in Reqs, pc'[s] = "written"
        PROVE  s = r /\ e.whole
    BY <1>1, <2>4 DEF Mutex, Inside, TypeOK
  <2>5. e.whole => \E i \in 1..Len(file') : file'[i].whole /\ file'[i].hash = event[r].hash
    BY <1>2
  <2> QED
    BY <1>1, <2>2, <2>3, <2>4, <2>5 DEF AckInv
<1>12. BreaksExplained'
  <2> SUFFICES ASSUME NEW i \in 1..n, i \notin gaps'
               PROVE  Readable(i)' /\ Readable(i+1)' /\ Linked(i)'
    BY <1>2 DEF BreaksExplained
  <2>1. i \notin gaps /\ i \in Nat
    BY <1>1
  <2>2. CASE i < n
    <3>1. i \in 1..(n - 1) /\ i + 1 \in 1..n /\ (i > 1 => i - 1 \in 1..n)
      BY <1>2, <2>2
    <3>2. Readable(i) /\ Readable(i+1) /\ Linked(i)
      BY <2>1, <3>1 DEF FileInv, BreaksExplained, n
    <3>3. i + 1 - 1 = i /\ i + 1 > 1
      BY <2>1
    <3> QED
      BY <1>2, <3>1, <3>2, <3>3 DEF Readable, Linked
  <2>3. CASE i = n
    <3>1. e.whole /\ gaps' = gaps
      BY <1>6, <2>3
    <3>2. e.prev = file[n].hash
      BY <1>1, <1>2, <2>1, <2>3 DEF FileInv, TailInv, Chained, n
    <3>3. file[n].whole
      BY <1>5, <2>3
    <3>4. n > 1 => n - 1 \in 1..n /\ n - 1 + 1 = n
      BY <1>2
    <3>5. n > 1 => file[n - 1].whole
      BY <1>5, <2>3, <3>4
    <3>6. n + 1 - 1 = n /\ n + 1 > 1 /\ n \in 1..n
      BY <1>2, <2>3
    <3> QED
      BY <1>2, <2>3, <3>1, <3>2, <3>3, <3>4, <3>5, <3>6 DEF Readable, Linked
  <2> QED
    BY <1>2, <2>2, <2>3
<1>13. Chronological'
  <2> SUFFICES ASSUME NEW i \in 1..(n + 1), NEW j \in 1..(n + 1), i < j
               PROVE  file'[i].time <= file'[j].time
    BY <1>2 DEF Chronological
  <2>1. i \in 1..n
    BY <1>2
  <2>2. CASE j = n + 1
    BY <1>2, <1>9, <2>1, <2>2
  <2>3. CASE j \in 1..n
    BY <1>2, <2>1, <2>3 DEF FileInv, Chronological, n
  <2> QED
    BY <1>4, <2>2, <2>3
<1> QED
  BY <1>7, <1>8, <1>10, <1>11, <1>12, <1>13 DEF FileInv

\* A step that adds no line leaves what is about the file alone.
LEMMA FileStays ==
  ASSUME FileInv, UNCHANGED file, gaps \subseteq gaps'
  PROVE  TornInv' /\ BreaksExplained' /\ Chronological'
<1>1. TornInv'
  BY DEF FileInv, TornInv
<1>2. BreaksExplained'
  BY DEF FileInv, BreaksExplained, Readable, Linked
<1>3. Chronological'
  BY DEF FileInv, Chronological
<1> QED
  BY <1>1, <1>2, <1>3

LEMMA FileNext == TypeOK /\ Mutex /\ FileInv /\ [Next]_vars => FileInv'
<1> SUFFICES ASSUME TypeOK, Mutex, FileInv, [Next]_vars PROVE FileInv'
  OBVIOUS
<1>1. CASE Tick
  <2>1. TornInv' /\ BreaksExplained' /\ Chronological'
    BY <1>1, FileStays DEF Tick
  <2>2. TailInv' /\ AckInv'
    BY <1>1 DEF Tick, FileInv, TailInv, AckInv, Chained
  <2>3. AgeInv'
    <3>1. \A i \in 1..Len(file) : file[i] \in Entry
      BY ElementOfSeq DEF TypeOK
    <3>2. \A r \in Reqs : event[r] \in Entry
      BY DEF TypeOK
    <3>3. /\ now \in Nat /\ now' = now + 1
          /\ UNCHANGED <<file, minted, pc, event>>
      BY <1>1 DEF Tick, TypeOK
    <3>4. \A i \in 1..Len(file) : file[i].time <= now'
      BY <3>1, <3>3 DEF FileInv, AgeInv, Entry
    <3>5. \A r \in Reqs : Chained(r) => event[r].time <= now'
      BY <3>2, <3>3 DEF FileInv, AgeInv, Entry
    <3> QED
      BY <3>3, <3>4, <3>5 DEF FileInv, AgeInv, Chained
  <2> QED
    BY <2>1, <2>2, <2>3 DEF FileInv
<1>2. CASE Restart
  <2>1. TornInv' /\ BreaksExplained' /\ Chronological'
    BY <1>2, FileStays DEF Restart
  <2>2. \A r \in Reqs : pc'[r] = "idle"
    BY <1>2 DEF Restart
  <2>3. TailInv' /\ AckInv' /\ AgeInv'
    BY <1>2, <2>2 DEF Restart, FileInv, TailInv, AckInv, AgeInv, Chained
  <2> QED
    BY <2>1, <2>3 DEF FileInv
<1>3. ASSUME NEW r \in Reqs, Arrive(r) \/ Lock(r)
      PROVE  FileInv'
  <2>1. TornInv' /\ BreaksExplained' /\ Chronological'
    BY <1>3, FileStays DEF Arrive, Lock
  <2>2. /\ \A s \in Reqs : pc'[s] \in {"chained", "written"} => pc'[s] = pc[s]
        /\ \A s \in Reqs : Chained(s) => Chained(s)'
        /\ UNCHANGED <<file, lastHash, minted, now, event, acked, gaps>>
    BY <1>3 DEF Arrive, Lock, Goto, TypeOK, Chained
  <2>3. TailInv' /\ AckInv' /\ AgeInv'
    BY <2>2 DEF FileInv, TailInv, AckInv, AgeInv, Chained
  <2> QED
    BY <2>1, <2>3 DEF FileInv
<1>4. ASSUME NEW r \in Reqs, Chain(r)
      PROVE  FileInv'
  <2>1. TornInv' /\ BreaksExplained' /\ Chronological'
    BY <1>4, FileStays DEF Chain
  <2>2. /\ pc[r] = "locked" /\ pc' = [pc EXCEPT ![r] = "chained"]
        /\ event' = [event EXCEPT ![r] = [hash |-> minted + 1, prev |-> lastHash,
                                          time |-> now, whole |-> TRUE]]
        /\ lastHash' = minted + 1 /\ minted' = minted + 1
        /\ UNCHANGED <<file, now, acked, gaps>>
    BY <1>4 DEF Chain, Goto
  <2>3. /\ \A s \in Reqs : ~Chained(s)
        /\ \A s \in Reqs : Chained(s)' <=> s = r
        /\ \A s \in Reqs : pc'[s] # "written"
    BY <2>2 DEF Chained, Mutex, Inside, TypeOK
  <2>4. /\ event'[r].hash = minted + 1 /\ event'[r].prev = lastHash
        /\ event'[r].time = now /\ event'[r].whole
    BY <2>2 DEF TypeOK
  <2>5. TailInv'
    BY <2>2, <2>3, <2>4 DEF FileInv, TailInv
  <2>6. AgeInv'
    <3>1. \A i \in 1..Len(file) : file[i].time <= now /\ file[i].hash <= minted
      BY DEF FileInv, AgeInv
    <3>2. \A i \in 1..Len(file) : file[i] \in Entry
      BY ElementOfSeq DEF TypeOK
    <3>3. minted \in Nat /\ now \in Nat
      BY DEF TypeOK
    <3>4. \A i \in 1..Len(file) : file[i].hash \in Nat
      BY <3>2 DEF Entry
    <3>5. \A i \in 1..Len(file) : file[i].hash < minted + 1
      BY <3>1, <3>3, <3>4
    <3>6. \A i \in 1..Len(file) : file[i].hash <= minted + 1
      BY <3>1, <3>3, <3>4
    <3> QED
      BY <2>2, <2>3, <2>4, <3>1, <3>3, <3>5, <3>6 DEF AgeInv
  <2>7. AckInv'
    BY <2>2, <2>3 DEF FileInv, AckInv
  <2> QED
    BY <2>1, <2>5, <2>6, <2>7 DEF FileInv
<1>5. ASSUME NEW r \in Reqs, Write(r)
      PROVE  FileInv'
  <2>1. event[r] \in Entry /\ event[r].whole
    BY <1>5 DEF Write, TypeOK, FileInv, TailInv, Chained
  <2>2. AddsLine(r)
    BY <1>5, <2>1 DEF Write, Goto, AddsLine
  <2> QED
    BY <2>2, FileGrows
<1>6. ASSUME NEW r \in Reqs, WriteFails(r)
      PROVE  FileInv'
  <2>1. CASE UNCHANGED file /\ gaps' = gaps \cup {Len(file)}
    <3>1. TornInv' /\ BreaksExplained' /\ Chronological'
      BY <2>1, FileStays
    <3>2. /\ pc[r] = "chained" /\ pc' = [pc EXCEPT ![r] = "idle"]
          /\ UNCHANGED <<lastHash, minted, now, event, acked>>
      BY <1>6 DEF WriteFails, Goto
    <3>3. \A s \in Reqs : pc'[s] \notin {"chained", "written"}
      BY <3>2 DEF Mutex, Inside, TypeOK
    <3>4. TailInv' /\ AckInv' /\ AgeInv'
      BY <2>1, <3>2, <3>3 DEF FileInv, TailInv, AckInv, AgeInv, Chained
    <3> QED
      BY <3>1, <3>4 DEF FileInv
  <2>2. CASE /\ file' = Append(file, [event[r] EXCEPT !.whole = FALSE])
             /\ gaps' = gaps \cup {Len(file), Len(file) + 1, Len(file) + 2}
    <3> DEFINE e == [event[r] EXCEPT !.whole = FALSE]
    <3>1. /\ e \in Entry /\ ~e.whole
          /\ e.hash = event[r].hash /\ e.time = event[r].time /\ e.prev = event[r].prev
      BY DEF TypeOK, Entry
    <3>2. AddsLine(r)
      BY <1>6, <2>2, <3>1 DEF WriteFails, Goto, AddsLine
    <3> QED
      BY <3>2, FileGrows
  <2> QED
    BY <1>6, <2>1, <2>2 DEF WriteFails
<1>7. ASSUME NEW r \in Reqs, Respond(r)
      PROVE  FileInv'
  <2>1. TornInv' /\ BreaksExplained' /\ Chronological'
    BY <1>7, FileStays DEF Respond
  <2>2. /\ pc[r] = "written" /\ pc' = [pc EXCEPT ![r] = "idle"]
        /\ acked' = acked \cup {event[r].hash}
        /\ UNCHANGED <<file, lastHash, minted, now, event, gaps>>
    BY <1>7 DEF Respond, Goto
  <2>3. \A s \in Reqs : pc[s] # "chained" /\ pc'[s] \notin {"chained", "written"}
    BY <2>2 DEF Mutex, Inside, TypeOK
  <2>4. TailInv' /\ AgeInv'
    BY <2>2, <2>3 DEF FileInv, TailInv, AgeInv, Chained
  <2>5. AckInv'
    BY <2>2, <2>3 DEF FileInv, AckInv
  <2> QED
    BY <2>1, <2>4, <2>5 DEF FileInv
<1>8. CASE UNCHANGED vars
  <2>1. TornInv' /\ BreaksExplained' /\ Chronological'
    BY <1>8, FileStays DEF vars
  <2>2. TailInv' /\ AckInv' /\ AgeInv'
    BY <1>8 DEF vars, FileInv, TailInv, AckInv, AgeInv, Chained
  <2> QED
    BY <2>1, <2>2 DEF FileInv
<1> QED
  BY <1>1, <1>2, <1>3, <1>4, <1>5, <1>6, <1>7, <1>8 DEF Next, Handler

-----------------------------------------------------------------------------
(***************************************************************************)
(* The theorems                                                            *)
(***************************************************************************)

\* The inductive invariant holds of every behaviour of the audit service.
THEOREM Invariance == Spec => []IInv
<1>1. IInv /\ [Next]_vars => IInv'
  BY TypeNext, MutexNext, FileNext DEF IInv, FileInv
<1> QED
  BY <1>1, FileInit, PTL DEF Spec

\* Every variable of the audit service keeps its type: LogHandler, failed
\* writes and restarts write nothing else to the file.
THEOREM TypeCorrect == Spec => []TypeOK
<1>1. IInv => TypeOK
  BY DEF IInv
<1> QED
  BY <1>1, Invariance, PTL

\* LogHandler's chain breaks only where a write failed or a restart came.
THEOREM OnlyFaultsBreak == Spec => []BreaksExplained
<1>1. IInv => BreaksExplained
  BY DEF IInv
<1> QED
  BY <1>1, Invariance, PTL

\* LogHandler writes the lines in the order of their timestamps.
THEOREM InOrderOfTime == Spec => []Chronological
<1>1. IInv => Chronological
  BY DEF IInv
<1> QED
  BY <1>1, Invariance, PTL

-----------------------------------------------------------------------------
\* A step that adds a line records an event that is new to the log.
LEMMA AddsLineRecords ==
  ASSUME IInv, NEW r \in Reqs, AddsLine(r)
  PROVE  Log!Record
<1>1. PICK e \in Entry : file' = Append(file, e) /\ e.hash = event[r].hash
  BY DEF AddsLine
<1>2. /\ Len(file) \in Nat /\ Len(file') = Len(file) + 1
      /\ \A i \in 1..Len(file) : file'[i] = file[i] /\ file[i] \in Entry
      /\ file'[Len(file) + 1] = e
  BY <1>1, AddLine DEF IInv, TypeOK
<1>3. \A i \in 1..Len(file) : file[i].hash < e.hash /\ file[i].hash \in Nat
  BY <1>1, <1>2 DEF AddsLine, IInv, AgeInv, Chained, Entry
<1>4. e.hash \notin Log!Logged
  BY <1>3 DEF Log!Logged
<1> QED
  BY <1>2, <1>4 DEF Log!Record, AddsLine

LEMMA StepRefines == IInv /\ [Next]_vars => [Log!Next]_<<file, acked>>
<1> SUFFICES ASSUME IInv, [Next]_vars PROVE [Log!Next]_<<file, acked>>
  OBVIOUS
<1>1. CASE Tick \/ Restart \/ UNCHANGED vars
  BY <1>1 DEF Tick, Restart, vars
<1>2. ASSUME NEW r \in Reqs, Arrive(r) \/ Lock(r) \/ Chain(r)
      PROVE  UNCHANGED <<file, acked>>
  BY <1>2 DEF Arrive, Lock, Chain
<1>3. ASSUME NEW r \in Reqs, Write(r)
      PROVE  Log!Next
  <2>1. event[r] \in Entry /\ event[r].whole
    BY <1>3 DEF Write, IInv, TypeOK, TailInv, Chained
  <2>2. AddsLine(r)
    BY <1>3, <2>1 DEF Write, Goto, AddsLine
  <2> QED
    BY <2>2, AddsLineRecords DEF Log!Next
<1>4. ASSUME NEW r \in Reqs, WriteFails(r)
      PROVE  [Log!Next]_<<file, acked>>
  <2>1. CASE UNCHANGED file
    BY <1>4, <2>1 DEF WriteFails
  <2>2. CASE /\ file' = Append(file, [event[r] EXCEPT !.whole = FALSE])
             /\ gaps' = gaps \cup {Len(file), Len(file) + 1, Len(file) + 2}
    <3> DEFINE e == [event[r] EXCEPT !.whole = FALSE]
    <3>1. /\ e \in Entry /\ ~e.whole
          /\ e.hash = event[r].hash /\ e.time = event[r].time /\ e.prev = event[r].prev
      BY DEF IInv, TypeOK, Entry
    <3>2. AddsLine(r)
      BY <1>4, <2>2, <3>1 DEF WriteFails, Goto, AddsLine
    <3> QED
      BY <3>2, AddsLineRecords DEF Log!Next
  <2> QED
    BY <1>4, <2>1, <2>2 DEF WriteFails
<1>5. ASSUME NEW r \in Reqs, Respond(r)
      PROVE  Log!Next
  <2>1. /\ pc[r] = "written" /\ acked' = acked \cup {event[r].hash} /\ UNCHANGED file
    BY <1>5 DEF Respond
  <2>2. /\ event[r].hash \notin acked
        /\ \E i \in 1..Len(file) : file[i].whole /\ file[i].hash = event[r].hash
    BY <2>1 DEF IInv, AckInv
  <2>3. event[r].hash \in Log!LoggedWhole \ acked
    BY <2>2 DEF Log!LoggedWhole
  <2> QED
    BY <2>1, <2>3 DEF Log!Next, Log!Acknowledge
<1> QED
  BY <1>1, <1>2, <1>3, <1>4, <1>5 DEF Next, Handler

\* LogHandler implements the append-only log of AuditLog: it adds one event at
\* a time, each once, and answers 201 only for what stands there in full.
THEOREM Refinement == Spec => ImplementsLog
<1>1. Init => Log!Init
  BY DEF Init, Log!Init
<1> QED
  BY <1>1, StepRefines, Invariance, PTL DEF Spec, ImplementsLog, Log!Spec
=============================================================================

--------------------------- MODULE PresenceProofs ---------------------------
(***************************************************************************)
(* Proofs about Presence, for any users, heartbeats, minute and delay, and *)
(* any number of faults.                                                   *)
(***************************************************************************)
EXTENDS Presence, TLAPS

-----------------------------------------------------------------------------
(***************************************************************************)
(* The inductive invariant, in parts.                                      *)
(***************************************************************************)

\* A row is at most MaxDelay older than anything its user said, and it is as
\* old as what it says, unless it was swept.
RowInv ==
  \A u \in Users : row[u] # None =>
    /\ \A s \in Statuses : row[u].age <= heard[u][s] + MaxDelay
    /\ \/ heard[u][row[u].status] <= row[u].age
       \/ row[u].status = "offline" /\ row[u].age > Minute

\* What a query read was said when its row says, or later.
QueryInv ==
  query # None /\ query.status # "offline" => heard[query.user][query.status] <= query.age

IInv == TypeOK /\ RowInv /\ QueryInv /\ ShownWasSaid

-----------------------------------------------------------------------------
USE PresenceAssumption

\* An age grows by one until it is Old, and keeps the order of ages.
LEMMA Aging ==
  ASSUME NEW x \in Ages, NEW y \in Ages
  PROVE  /\ Older(x) \in Ages /\ x <= Older(x)
         /\ x <= y => Older(x) <= Older(y)
         /\ x <= y + MaxDelay => Older(x) <= Older(y) + MaxDelay
  BY DEF Ages, Old, Older

\* None is no row.
LEMMA NotNone == \A x \in Row : x # None
  <1> SUFFICES ASSUME NEW x \in Row PROVE x # None
    OBVIOUS
  <1>1. x \in [status : Statuses, age : Nat]
    BY DEF Row, Ages, Old
  <1> QED
    BY <1>1

\* The specification starts in the invariant.
LEMMA InitInv == Init => IInv
  <1> SUFFICES ASSUME Init PROVE IInv
    OBVIOUS
  <1>1. Old \in Ages /\ Old \in Nat /\ Old > Minute
    BY DEF Ages, Old
  <1>2. TypeOK
    BY <1>1 DEF Init, TypeOK, Row
  <1>3. RowInv
    <2> SUFFICES ASSUME NEW u \in Users, row[u] # None
                 PROVE row[u].age = Old /\ \A s \in Statuses : heard[u][s] = Old
      BY <1>1, <1>2 DEF RowInv, Init, TypeOK, Row
    <2> QED
      BY DEF Init
  <1> QED
    BY <1>2, <1>3 DEF IInv, Init, QueryInv, ShownWasSaid

\* All ages grow together.
LEMMA TickStep ==
  ASSUME IInv, Tick
  PROVE  IInv'
  <1>1. /\ row' \in [Users -> Row \cup {None}]
        /\ \A u \in Users : /\ row[u] = None => row'[u] = None
                            /\ row[u] # None => /\ row'[u] # None
                                                /\ row'[u].status = row[u].status
                                                /\ row'[u].age = Older(row[u].age)
    BY Aging, NotNone DEF IInv, TypeOK, Tick, Row
  <1>2. /\ heard' \in [Users -> [Statuses -> Ages]]
        /\ \A u \in Users, s \in Statuses : heard'[u][s] = Older(heard[u][s])
    BY Aging DEF IInv, TypeOK, Tick
  <1>3. beat' \in [Beats -> Beat \cup {None}]
    <2> SUFFICES ASSUME NEW b \in Beats, beat[b] # None
                 PROVE [beat[b] EXCEPT !.age = @ + 1] \in Beat
      BY DEF Tick
    <2>1. beat[b] \in Beat /\ beat[b].age \in 0..MaxDelay /\ beat[b].age < MaxDelay
      BY DEF IInv, TypeOK, Tick, Beat
    <2>2. beat[b].age + 1 \in 0..MaxDelay
      BY <2>1
    <2> QED
      BY <2>1, <2>2 DEF Beat
  <1>4. sweep' \in 0..MaxDelay \cup {None}
    BY DEF IInv, TypeOK, Tick
  <1>5. /\ query' \in Query \cup {None}
        /\ query = None => query' = None
        /\ query # None => /\ query'.user = query.user /\ query'.status = query.status
                           /\ query'.age = Older(query.age)
    BY Aging DEF IInv, TypeOK, Tick, Query
  <1>6. TypeOK'
    BY <1>1, <1>2, <1>3, <1>4, <1>5 DEF IInv, TypeOK, Tick
  <1>7. RowInv'
    <2> SUFFICES ASSUME NEW u \in Users, row'[u] # None
                 PROVE /\ \A s \in Statuses : row'[u].age <= heard'[u][s] + MaxDelay
                       /\ \/ heard'[u][row'[u].status] <= row'[u].age
                          \/ row'[u].status = "offline" /\ row'[u].age > Minute
      BY DEF RowInv
    <2>1. row[u] # None /\ row[u].age \in Ages /\ row[u].status \in Statuses
      BY <1>1 DEF IInv, TypeOK, Row
    <2>2. \A s \in Statuses : heard[u][s] \in Ages
      BY DEF IInv, TypeOK
    <2>3. \A s \in Statuses : row'[u].age <= heard'[u][s] + MaxDelay
      BY <1>1, <1>2, <2>1, <2>2, Aging DEF IInv, RowInv
    <2>4. CASE heard[u][row[u].status] <= row[u].age
      BY <1>1, <1>2, <2>1, <2>2, <2>3, <2>4, Aging
    <2>5. CASE row[u].status = "offline" /\ row[u].age > Minute
      <3>1. Older(row[u].age) > Minute
        BY <2>1, <2>5 DEF Ages, Old, Older
      <3> QED
        BY <1>1, <2>1, <2>3, <2>5, <3>1
    <2> QED
      BY <2>1, <2>4, <2>5 DEF IInv, RowInv
  <1>8. QueryInv'
    <2> SUFFICES ASSUME query' # None, query'.status # "offline"
                 PROVE heard'[query'.user][query'.status] <= query'.age
      BY DEF QueryInv
    <2>1. query # None /\ query \in Query /\ query.user \in Users /\ query.status \in Statuses
          /\ query.age \in Ages /\ heard[query.user][query.status] \in Ages
      BY <1>5 DEF IInv, TypeOK, Query
    <2>2. heard[query.user][query.status] <= query.age
      BY <1>5, <2>1 DEF IInv, QueryInv
    <2> QED
      BY <1>2, <1>5, <2>1, <2>2, Aging
  <1>9. ShownWasSaid'
    BY DEF Tick, ShownWasSaid
  <1> QED
    BY <1>6, <1>7, <1>8, <1>9 DEF IInv

\* The row takes what the heartbeat says, and nothing was heard more recently
\* by more than the heartbeat is late.
LEMMA UpsertStep ==
  ASSUME IInv, NEW b \in Beats, Upsert(b)
  PROVE  IInv'
  <1>1. PICK u \in Users, t \in Statuses, x \in 0..MaxDelay :
          beat[b].user = u /\ beat[b].status = t /\ beat[b].age = x
    BY DEF IInv, TypeOK, Upsert, Beat
  <1>2. x \in Ages /\ x \in Nat
    BY DEF Ages, Old
  <1>3. row' = [row EXCEPT ![u] = [status |-> t, age |-> x]]
    BY <1>1 DEF Upsert
  <1>4. PICK y \in Ages : y = IF x < heard[u][t] THEN x ELSE heard[u][t]
    BY <1>2 DEF IInv, TypeOK
  <1>5. heard' = [heard EXCEPT ![u][t] = y]
    BY <1>1, <1>4 DEF Upsert, IInv, TypeOK
  <1>6. /\ heard' \in [Users -> [Statuses -> Ages]]
        /\ heard'[u][t] <= x
        /\ \A v \in Users, s \in Statuses : heard'[v][s] <= heard[v][s]
        /\ \A v \in Users \ {u} : heard'[v] = heard[v]
    BY <1>2, <1>4, <1>5 DEF IInv, TypeOK, Ages, Old
  <1>7. TypeOK'
    BY <1>2, <1>3, <1>6 DEF IInv, TypeOK, Upsert, Row
  <1>8. RowInv'
    <2> SUFFICES ASSUME NEW v \in Users, row'[v] # None
                 PROVE /\ \A s \in Statuses : row'[v].age <= heard'[v][s] + MaxDelay
                       /\ \/ heard'[v][row'[v].status] <= row'[v].age
                          \/ row'[v].status = "offline" /\ row'[v].age > Minute
      BY DEF RowInv
    <2>1. CASE v = u
      <3>1. row'[v].status = t /\ row'[v].age = x
        BY <1>3, <2>1 DEF IInv, TypeOK
      <3>2. \A s \in Statuses : heard'[v][s] \in Nat
        BY <1>6 DEF Ages, Old
      <3>3. \A s \in Statuses : x <= heard'[v][s] + MaxDelay
        BY <3>2
      <3> QED
        BY <1>6, <2>1, <3>1, <3>3
    <2>2. CASE v # u
      BY <1>3, <1>6, <2>2 DEF IInv, RowInv, TypeOK
    <2> QED
      BY <2>1, <2>2
  <1>9. QueryInv'
    <2> SUFFICES ASSUME query # None, query.status # "offline"
                 PROVE heard'[query.user][query.status] <= query.age
      BY DEF QueryInv, Upsert
    <2>1. query.user \in Users /\ query.status \in Statuses /\ query.age \in Nat
      BY DEF IInv, TypeOK, Query, Ages, Old
    <2>2. heard[query.user][query.status] \in Nat /\ heard'[query.user][query.status] \in Nat
      BY <1>6, <2>1 DEF IInv, TypeOK, Ages, Old
    <2>3. heard[query.user][query.status] <= query.age
      BY DEF IInv, QueryInv
    <2>4. heard'[query.user][query.status] <= heard[query.user][query.status]
      BY <1>6, <2>1
    <2> QED
      BY <2>1, <2>2, <2>3, <2>4
  <1>10. ShownWasSaid'
    <2> SUFFICES ASSUME answer # None, answer.status # "offline"
                 PROVE heard'[answer.user][answer.status] <= Minute
      BY DEF ShownWasSaid, Upsert
    <2>1. answer.user \in Users /\ answer.status \in Statuses
      BY DEF IInv, TypeOK
    <2>2. heard[answer.user][answer.status] \in Nat /\ heard'[answer.user][answer.status] \in Nat
      BY <1>6, <2>1 DEF IInv, TypeOK, Ages, Old
    <2>3. heard[answer.user][answer.status] <= Minute
      BY DEF IInv, ShownWasSaid
    <2>4. heard'[answer.user][answer.status] <= heard[answer.user][answer.status]
      BY <1>6, <2>1
    <2> QED
      BY <2>2, <2>3, <2>4
  <1> QED
    BY <1>7, <1>8, <1>9, <1>10 DEF IInv

\* The loop touches the status only of rows that are too old.
LEMMA SweepStep ==
  ASSUME IInv, Sweep
  PROVE  IInv'
  <1>1. sweep \in Nat
    BY DEF IInv, TypeOK, Sweep
  <1>2. /\ row' \in [Users -> Row \cup {None}]
        /\ \A u \in Users : row'[u] # None =>
             /\ row[u] # None /\ row'[u].age = row[u].age /\ row[u].age \in Nat
             /\ \/ row'[u].status = row[u].status
                \/ row'[u].status = "offline" /\ row[u].age > sweep + Minute
    BY NotNone DEF IInv, TypeOK, Sweep, Row, Ages, Old
  <1>3. TypeOK'
    BY <1>2 DEF IInv, TypeOK, Sweep
  <1>4. RowInv'
    BY <1>1, <1>2 DEF IInv, RowInv, Sweep
  <1> QED
    BY <1>3, <1>4 DEF IInv, Sweep, QueryInv, ShownWasSaid

\* Reading a row.
LEMMA SelectStep ==
  ASSUME IInv, NEW u \in Users, Select(u)
  PROVE  IInv'
  <1>1. CASE row[u] = None
    BY <1>1 DEF IInv, Select, TypeOK, RowInv, QueryInv, ShownWasSaid, Query, Ages, Old
  <1>2. CASE row[u] # None
    <2>1. row[u].status \in Statuses /\ row[u].age \in Ages
      BY <1>2 DEF IInv, TypeOK, Row
    <2>2. query' = [user |-> u, status |-> row[u].status, age |-> row[u].age]
      BY <1>2 DEF Select
    <2>3. TypeOK'
      BY <2>1, <2>2 DEF IInv, Select, TypeOK, Query
    <2>4. QueryInv'
      BY <1>2, <2>1, <2>2 DEF IInv, Select, RowInv, QueryInv
    <2> QED
      BY <2>3, <2>4 DEF IInv, Select, RowInv, ShownWasSaid
  <1> QED
    BY <1>1, <1>2

\* Answering: whoever is shown as present was read at an age of a minute at most.
LEMMA AnswerStep ==
  ASSUME IInv, Answer
  PROVE  IInv'
  <1>1. /\ query.user \in Users /\ query.status \in Statuses /\ query.age \in Nat
        /\ heard[query.user][query.status] \in Nat
    BY DEF IInv, TypeOK, Answer, Query, Ages, Old
  <1>2. PICK s \in {query.status, "offline"} :
          /\ query.age > Minute => s = "offline"
          /\ query.age < Minute => s = query.status
          /\ answer' = [user |-> query.user, status |-> s]
    BY DEF Answer
  <1>3. TypeOK'
    BY <1>1, <1>2 DEF IInv, Answer, TypeOK
  <1>4. ShownWasSaid'
    <2> SUFFICES ASSUME s # "offline"
                 PROVE heard[query.user][s] <= Minute
      BY <1>2 DEF ShownWasSaid, Answer
    <2>1. s = query.status /\ query.age <= Minute
      BY <1>1, <1>2
    <2>2. heard[query.user][query.status] <= query.age
      BY <2>1 DEF IInv, QueryInv, Answer
    <2> QED
      BY <1>1, <2>1, <2>2
  <1> QED
    BY <1>3, <1>4 DEF IInv, Answer, RowInv, QueryInv

\* The steps that only begin, fail or forget something.
LEMMA OtherSteps ==
  ASSUME IInv,
         \/ \E b \in Beats, u \in Users, s \in Statuses : Heartbeat(b, u, s)
         \/ \E b \in Beats : UpsertFails(b)
         \/ SweepBegin \/ SweepFails \/ SelectFails \/ Restart
  PROVE  IInv'
  <1>1. TypeOK'
    <2>1. CASE \E b \in Beats, u \in Users, s \in Statuses : Heartbeat(b, u, s)
      BY <2>1 DEF Heartbeat, IInv, TypeOK, Beat
    <2>2. CASE \E b \in Beats : UpsertFails(b)
      BY <2>2 DEF UpsertFails, IInv, TypeOK
    <2>3. CASE SweepBegin \/ SweepFails
      BY <2>3 DEF SweepBegin, SweepFails, IInv, TypeOK
    <2>4. CASE SelectFails \/ Restart
      BY <2>4 DEF SelectFails, Restart, IInv, TypeOK
    <2> QED
      BY <2>1, <2>2, <2>3, <2>4
  <1>2. /\ UNCHANGED <<row, heard>>
        /\ query' \in {query, None} /\ answer' \in {answer, None}
    BY DEF Heartbeat, UpsertFails, SweepBegin, SweepFails, SelectFails, Restart
  <1>3. RowInv' /\ QueryInv' /\ ShownWasSaid'
    BY <1>2 DEF IInv, RowInv, QueryInv, ShownWasSaid
  <1> QED
    BY <1>1, <1>3 DEF IInv

\* Every step keeps the invariant.
LEMMA StepInv == IInv /\ [Next]_vars => IInv'
  <1> SUFFICES ASSUME IInv, [Next]_vars PROVE IInv'
    OBVIOUS
  <1>1. CASE UNCHANGED vars
    BY <1>1 DEF vars, IInv, TypeOK, RowInv, QueryInv, ShownWasSaid
  <1> QED
    BY <1>1, TickStep, UpsertStep, SweepStep, SelectStep, AnswerStep, OtherSteps DEF Next

\* The invariant holds in every behaviour of the service.
THEOREM Invariance == Spec => []IInv
  BY InitInv, StepInv, PTL DEF Spec

\* Types, whatever is sent, fails or restarts.
THEOREM TypeCorrect == Spec => []TypeOK
  <1>1. IInv => TypeOK
    BY DEF IInv
  <1> QED
    BY <1>1, Invariance, PTL

\* Heartbeats that overtake each other take a row back by the delay of one
\* statement at most (main.go:131-140), and the loop spares who was heard.
THEOREM LastSaid == Spec => []RowIsLastSaid
  <1>1. ASSUME IInv PROVE RowIsLastSaid
    <2> SUFFICES ASSUME NEW u \in Users, row[u] # None
                 PROVE \/ \A s \in Statuses : heard[u][row[u].status] <= heard[u][s] + MaxDelay
                       \/ row[u].status = "offline" /\ \A s \in Statuses : heard[u][s] + MaxDelay > Minute
      BY DEF RowIsLastSaid
    <2>1. /\ row[u].status \in Statuses /\ row[u].age \in Nat
          /\ \A s \in Statuses : heard[u][s] \in Nat
      BY <1>1 DEF IInv, TypeOK, Row, Ages, Old
    <2>2. \A s \in Statuses : row[u].age <= heard[u][s] + MaxDelay
      BY <1>1 DEF IInv, RowInv
    <2>3. CASE heard[u][row[u].status] <= row[u].age
      BY <2>1, <2>2, <2>3
    <2>4. CASE row[u].status = "offline" /\ row[u].age > Minute
      BY <2>1, <2>2, <2>4
    <2> QED
      BY <1>1, <2>3, <2>4 DEF IInv, RowInv
  <1> QED
    BY <1>1, Invariance, PTL

\* Nobody is shown as present who did not say so within a minute
\* (main.go:173-177).
THEOREM PresentSaidSo == Spec => []ShownWasSaid
  <1>1. IInv => ShownWasSaid
    BY DEF IInv
  <1> QED
    BY <1>1, Invariance, PTL
=============================================================================

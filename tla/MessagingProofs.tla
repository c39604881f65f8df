-------------------------- MODULE MessagingProofs --------------------------
(***************************************************************************)
(* Proofs about Messaging, for any users, rooms, connections and requests  *)
(* and any capacity of the Send channels.                                  *)
(***************************************************************************)
EXTENDS Messaging, SequenceTheorems, TLAPS

-----------------------------------------------------------------------------
(***************************************************************************)
(* The inductive invariant, in parts.  Each part is inductive relative to  *)
(* the ones before it.                                                     *)
(***************************************************************************)

\* The steps between SaveMessage and the end of the broadcast.
Casting == {"casttype", "castmembers", "rlock", "push"}

\* The steps at which chan is a channel that existed when it was looked up.
Resolved == {"authmember", "save", "rows"} \cup Casting

\* What a request knows at each of its steps.
RequestInv ==
  \A p \in Procs :
    /\ p \in Conns => pc[p] # "idle"
    /\ pc[p] \notin {"off", "idle"} => owner[p] \in Users
    /\ pc[p] \in {"finddm", "makedm"} => chan[p] \in Users \ {owner[p]}
    /\ pc[p] \in Resolved => chan[p] \in Channels

TypeInv == TypeOK /\ RequestInv

\* The lock: what a broadcast has still to reach stays as it was at RLock.
LockInv ==
  /\ \A p \in Procs :
       /\ pc[p] # "push" => todo[p] = {}
       /\ todo[p] \subseteq clients
  /\ \A c \in Conns :
       /\ c \in clients => ~closed[c] /\ pc[c] \notin {"off", "register"}
       /\ pc[c] \in {"off", "register"} => ~closed[c] /\ sent[c] = << >>

\* The message being broadcast is the sender's newest and not yet sent to
\* whoever is still to get it.
OrderInv ==
  /\ \A p \in Procs : pc[p] \in Casting =>
       /\ cur[p] \in 1..Len(stored)
       /\ stored[cur[p]].src = p
       /\ stored[cur[p]].ch = chan[p]
       /\ \A i \in 1..Len(stored) : stored[i].src = p => i <= cur[p]
       /\ \A c \in Conns : pc[p] # "push" \/ c \in todo[p] => ~Holds(c, cur[p])

\* Who may read a message: its channel's members since it was stored.
EntitledInv ==
  /\ Len(entitled) = Len(stored)
  /\ \A d \in Dms : chType[d] \in {"dm", "none"}
  /\ \A p \in Procs : pc[p] \in Resolved => chType[chan[p]] # "unused"
  /\ \A i \in 1..Len(stored) : chType[stored[i].ch] # "unused"
  /\ \A i \in 1..Len(stored), u \in Users :
       <<stored[i].ch, u>> \in members => u \in entitled[i]
  /\ \A p \in Procs : pc[p] \in {"rlock", "push"} /\ Closed(chan[p])
       => audience[p] \subseteq entitled[cur[p]]
  /\ \A p \in Procs : \A c \in todo[p] : owner[c] \in audience[p]

-----------------------------------------------------------------------------
USE StoreAssumption, MessagingAssumption

\* Two different users have a direct-message channel.
LEMMA DmIsChannel ==
  \A u, v \in Users : u # v => DmOf(u, v) \in Dms /\ DmOf(u, v) \in Channels
<1> SUFFICES ASSUME NEW u \in Users, NEW v \in Users, u # v
             PROVE  DmOf(u, v) \in Dms
  BY DEF Channels
<1>1. \A w \in Users : {u, v} # {w, w}
  OBVIOUS
<1>2. DmOf(u, v) \in {DmOf(a, b) : a, b \in Users}
  OBVIOUS
<1>3. DmOf(u, v) \notin {DmOf(w, w) : w \in Users}
  BY <1>1 DEF DmOf
<1> QED
  BY <1>2, <1>3 DEF Dms

LEMMA TypeInit == Init => TypeInv
  BY DEF Init, TypeInv, TypeOK, RequestInv, StoreInit, StoreTypeOK, Types, Labels, Resting,
         DbSteps, Ops, Procs, Resolved, Casting

\* A step that only moves a request on.
LEMMA TypeStep ==
  ASSUME TypeInv, NEW p \in Procs, NEW label \in Labels, Step(p, label),
         owner[p] \in Users,
         label # "idle",
         label \in {"finddm", "makedm"} => chan[p] \in Users \ {owner[p]},
         label \in Resolved => chan[p] \in Channels
  PROVE  TypeInv'
<1> USE DEF Step, Advance, Others, Goto, storeVars, queueVars, counters
<1>1. TypeOK'
  BY DEF TypeInv, TypeOK, StoreTypeOK
<1>2. RequestInv'
  BY DEF TypeInv, TypeOK, RequestInv, Labels
<1> QED
  BY <1>1, <1>2 DEF TypeInv

\* The end of a request.
LEMMA TypeReturn ==
  ASSUME TypeInv, NEW p \in Procs, pc[p] \notin {"off", "idle"}, Return(p),
         UNCHANGED <<storeVars, queueVars, stored, entitled, requests>>,
         events' \in 0..MaxEvents
  PROVE  TypeInv'
<1> USE DEF Return, Goto, storeVars, queueVars
<1>1. TypeOK'
  BY DEF TypeInv, TypeOK, StoreTypeOK, Labels, Resting, Ops
<1>2. RequestInv'
  BY DEF TypeInv, TypeOK, RequestInv, Labels, Resolved, Casting, Procs
<1> QED
  BY <1>1, <1>2 DEF TypeInv

\* Remember keeps one set of users per stored message, and each set grows.
LEMMA RememberGrows ==
  ASSUME entitled \in Seq(SUBSET Users), Remember
  PROVE  /\ entitled' \in Seq(SUBSET Users)
         /\ Len(entitled') = Len(entitled)
         /\ \A i \in 1..Len(entitled) :
              /\ entitled[i] \subseteq entitled'[i]
              /\ \A u \in Users : <<stored[i].ch, u>> \in members' => u \in entitled'[i]
<1>1. DOMAIN entitled = 1..Len(entitled) /\ Len(entitled) \in Nat
  OBVIOUS
<1>2. \A i \in 1..Len(entitled) : entitled[i] \in SUBSET Users
  BY ElementOfSeq
<1>3. entitled' \in [1..Len(entitled) -> SUBSET Users]
  BY <1>1, <1>2 DEF Remember
<1>4. entitled' \in Seq(SUBSET Users)
  BY <1>1, <1>3, SeqDef
<1>5. Len(entitled') = Len(entitled)
  BY <1>1, <1>3, <1>4, LenProperties
<1> QED
  BY <1>1, <1>4, <1>5 DEF Remember

LEMMA TypeNext == TypeInv /\ [Next]_vars => TypeInv'
<1> SUFFICES ASSUME TypeInv, [Next]_vars PROVE TypeInv'
  OBVIOUS
<1> USE DEF Labels, Resting, DbSteps, Resolved, Casting
<1>1. ASSUME NEW c \in Conns, NEW u \in Users, Authenticate(c, u)
      PROVE  TypeInv'
  <2> USE DEF Authenticate, Others, Goto, Advance, storeVars, procVars, queueVars, counters
  <2>1. TypeOK'
    BY <1>1 DEF TypeInv, TypeOK, StoreTypeOK, Procs
  <2>2. RequestInv'
    BY <1>1 DEF TypeInv, TypeOK, RequestInv, Procs
  <2> QED
    BY <2>1, <2>2 DEF TypeInv
<1>2. ASSUME NEW c \in Conns, NEW t \in Targets, Receive(c, t)
      PROVE  TypeInv'
  <2> USE DEF Receive, Goto, Advance, storeVars, procVars, queueVars, counters
  <2>1. TypeOK'
    BY <1>2 DEF TypeInv, TypeOK, StoreTypeOK, Procs
  <2>2. RequestInv'
    BY <1>2 DEF TypeInv, TypeOK, RequestInv, Procs
  <2> QED
    BY <2>1, <2>2 DEF TypeInv
<1>3. ASSUME NEW c \in Conns, Register(c)
      PROVE  TypeInv'
  <2> USE DEF Register, Goto, Advance, storeVars, procVars, queueVars, counters
  <2>1. TypeOK'
    BY <1>3 DEF TypeInv, TypeOK, StoreTypeOK, Procs
  <2>2. RequestInv'
    BY <1>3 DEF TypeInv, TypeOK, RequestInv, Procs
  <2> QED
    BY <2>1, <2>2 DEF TypeInv
<1>4. ASSUME NEW c \in Conns, Unregister(c)
      PROVE  TypeInv'
  <2> USE DEF Unregister, Goto, Advance, storeVars, procVars, queueVars, counters
  <2>1. TypeOK'
    BY <1>4 DEF TypeInv, TypeOK, StoreTypeOK, Procs
  <2>2. RequestInv'
    BY <1>4 DEF TypeInv, TypeOK, RequestInv, Procs
  <2> QED
    BY <2>1, <2>2 DEF TypeInv
<1>5. ASSUME NEW c \in Conns, CloseConn(c)
      PROVE  TypeInv'
  BY <1>5, TypeStep DEF CloseConn, TypeInv, RequestInv, TypeOK, Procs
<1>6. ASSUME NEW c \in Conns, ReadError(c)
      PROVE  TypeInv'
  <2> USE DEF ReadError, Goto, Advance, storeVars, procVars, queueVars, counters
  <2>1. TypeOK'
    BY <1>6 DEF TypeInv, TypeOK, StoreTypeOK, Procs
  <2>2. RequestInv'
    BY <1>6 DEF TypeInv, TypeOK, RequestInv, Procs
  <2> QED
    BY <2>1, <2>2 DEF TypeInv
<1>7. ASSUME NEW c \in Conns, Write(c)
      PROVE  TypeInv'
  <2> USE DEF Write, Buffered, Goto, Advance, storeVars, procVars, queueVars, counters
  <2>1. TypeOK'
    BY <1>7 DEF TypeInv, TypeOK, StoreTypeOK, Procs
  <2>2. RequestInv'
    BY <1>7 DEF TypeInv, TypeOK, RequestInv, Procs
  <2> QED
    BY <2>1, <2>2 DEF TypeInv
<1>8. ASSUME NEW c \in Conns, WriteError(c)
      PROVE  TypeInv'
  <2> USE DEF WriteError, Buffered, Goto, Advance, storeVars, procVars, queueVars, counters
  <2>1. TypeOK'
    <3>1. events' \in 0..MaxEvents
      BY <1>8 DEF TypeInv, TypeOK
    <3>2. /\ taken' \in [Conns -> Nat]
          /\ writer' \in [Conns -> {"off", "run", "done"}]
      BY <1>8 DEF TypeInv, TypeOK
    <3>3. UNCHANGED <<storeVars, procVars, stored, entitled, requests, clients, sent, closed>>
      BY <1>8
    <3> QED
      BY <3>1, <3>2, <3>3 DEF TypeInv, TypeOK, StoreTypeOK
  <2>2. RequestInv'
    BY <1>8 DEF TypeInv, TypeOK, RequestInv
  <2> QED
    BY <2>1, <2>2 DEF TypeInv
<1>9. ASSUME NEW c \in Conns, WriterEnd(c)
      PROVE  TypeInv'
  <2> USE DEF WriterEnd, Buffered, Goto, Advance, storeVars, procVars, queueVars, counters
  <2>1. TypeOK'
    BY <1>9 DEF TypeInv, TypeOK, StoreTypeOK, Procs
  <2>2. RequestInv'
    BY <1>9 DEF TypeInv, TypeOK, RequestInv, Procs
  <2> QED
    BY <2>1, <2>2 DEF TypeInv
<1>10. ASSUME NEW h \in Https, NEW u \in Users, NEW what \in Ops, NEW t \in Targets, Request(h, u, what, t)
      PROVE  TypeInv'
  <2> USE DEF Request, FirstStep, Ops, Goto, Advance, storeVars, procVars, queueVars, counters
  <2>1. TypeOK'
    BY <1>10 DEF TypeInv, TypeOK, StoreTypeOK, Procs
  <2>2. RequestInv'
    BY <1>10 DEF TypeInv, TypeOK, RequestInv, Procs
  <2> QED
    BY <2>1, <2>2 DEF TypeInv
<1>11. ASSUME NEW p \in Procs, ResolveChannel(p)
      PROVE  TypeInv'
  BY <1>11, TypeStep, TypeReturn DEF ResolveChannel, End, Others, counters, TypeInv, RequestInv, TypeOK
<1>12. ASSUME NEW p \in Procs, ResolveUser(p)
      PROVE  TypeInv'
  BY <1>12, TypeStep, TypeReturn DEF ResolveUser, StoreTypeOK, End, Others, counters, TypeInv, RequestInv, TypeOK
<1>13. ASSUME NEW p \in Procs, FindDm(p)
      PROVE  TypeInv'
  <2>1. CASE Exists(Dm(p)) /\ UseDm(p) /\ op[p] # "dm"
    <3> USE DEF FindDm, UseDm, Dm, Others, Goto, Advance, storeVars, procVars, queueVars, counters
    <3>1. DmOf(owner[p], chan[p]) \in Channels
      BY <1>13, DmIsChannel DEF TypeInv, RequestInv
    <3>2. /\ pc[p] = "finddm"
          /\ pc' = [pc EXCEPT ![p] = "authtype"]
          /\ chan' = [chan EXCEPT ![p] = DmOf(owner[p], chan[p])]
          /\ UNCHANGED <<owner, op, audience, cur, todo, full>>
          /\ Others
      BY <1>13, <2>1
    <3> HIDE DEF UseDm, FindDm
    <3>3. TypeOK'
      BY <3>1, <3>2 DEF TypeInv, TypeOK, StoreTypeOK
    <3>4. RequestInv'
      BY <3>1, <3>2 DEF TypeInv, TypeOK, RequestInv
    <3> QED
      BY <3>3, <3>4 DEF TypeInv
  <2>2. CASE Exists(Dm(p)) /\ UseDm(p) /\ op[p] = "dm"
    BY <1>13, <2>2, TypeReturn DEF FindDm, UseDm, Others, counters, TypeInv, TypeOK
  <2>3. CASE ~Exists(Dm(p))
    BY <1>13, <2>3, TypeStep DEF FindDm, TypeInv, RequestInv
  <2> QED
    BY <1>13, <2>1, <2>2, <2>3 DEF FindDm, UseDm
<1>14. ASSUME NEW p \in Procs, MakeDm(p)
      PROVE  TypeInv'
  <2>1. CASE ~DmInsertable(Dm(p))
    BY <1>14, <2>1, TypeReturn DEF MakeDm, InsertDm, End, Others, counters, TypeInv, TypeOK
  <2>2. CASE DmInsertable(Dm(p))
    <3>1. /\ Dm(p) \in Channels
          /\ Dm(p) \subseteq Users
          /\ pc[p] = "makedm"
      BY <1>14, DmIsChannel DEF TypeInv, RequestInv, Dm, DmOf, MakeDm
    <3>2. InsertDm(Dm(p)) /\ UseDm(p) /\ Remember /\ UNCHANGED <<queueVars, stored, counters>>
      BY <1>14, <2>2 DEF MakeDm
    <3>3. StoreTypeOK'
      BY <3>1, <3>2 DEF InsertDm, TypeInv, TypeOK, StoreTypeOK, Types
    <3>4. entitled' \in Seq(SUBSET Users)
      BY <3>2, RememberGrows DEF TypeInv, TypeOK
    <3>5. CASE op[p] = "dm"
      <4>1. Return(p)
        BY <3>2, <3>5 DEF UseDm
      <4>2. TypeOK'
        BY <3>2, <3>3, <3>4, <4>1 DEF Return, Goto, TypeInv, TypeOK, Ops, queueVars, counters
      <4>3. RequestInv'
        BY <3>1, <3>2, <4>1 DEF Return, Goto, TypeInv, TypeOK, RequestInv, Procs
      <4> QED
        BY <4>2, <4>3 DEF TypeInv
    <3>6. CASE op[p] # "dm"
      <4>1. /\ pc' = [pc EXCEPT ![p] = "authtype"]
            /\ chan' = [chan EXCEPT ![p] = Dm(p)]
            /\ UNCHANGED <<owner, op, audience, cur, todo, full>>
        BY <3>2, <3>6 DEF UseDm, Goto
      <4>2. TypeOK'
        BY <3>1, <3>2, <3>3, <3>4, <4>1 DEF TypeInv, TypeOK, queueVars, counters
      <4>3. RequestInv'
        BY <3>1, <4>1 DEF TypeInv, TypeOK, RequestInv
      <4> QED
        BY <4>2, <4>3 DEF TypeInv
    <3> QED
      BY <3>5, <3>6
  <2> QED
    BY <2>1, <2>2
<1>15. ASSUME NEW p \in Procs, AuthType(p)
      PROVE  TypeInv'
  BY <1>15, TypeStep, TypeReturn DEF AuthType, AfterAuth, IsChannel, IsPublic, IsPrivate, End, Others, counters, TypeInv, RequestInv, TypeOK
<1>16. ASSUME NEW p \in Procs, AuthMember(p)
      PROVE  TypeInv'
  BY <1>16, TypeStep, TypeReturn DEF AuthMember, AfterAuth, End, Others, counters, TypeInv, RequestInv, TypeOK
<1>17. ASSUME NEW p \in Procs, AnswerRows(p)
      PROVE  TypeInv'
  BY <1>17, TypeStep, TypeReturn DEF AnswerRows, End, Others, counters, TypeInv, RequestInv, TypeOK
<1>18. ASSUME NEW p \in Procs, Save(p)
      PROVE  TypeInv'
  <2> USE DEF Save, MembersOf, Goto, Advance, storeVars, procVars, queueVars, counters
  <2>a. [src |-> p, sender |-> owner[p], ch |-> chan[p]]
           \in [src : Procs, sender : Users, ch : Channels]
    BY <1>18 DEF TypeInv, RequestInv
  <2>b. stored' \in Seq([src : Procs, sender : Users, ch : Channels])
    BY <1>18, <2>a, AppendProperties DEF TypeInv, TypeOK
  <2>c. entitled' \in Seq(SUBSET Users)
    BY <1>18, AppendProperties DEF TypeInv, TypeOK
  <2>1. TypeOK'
    BY <1>18, <2>b, <2>c DEF TypeInv, TypeOK, StoreTypeOK
  <2>2. RequestInv'
    BY <1>18 DEF TypeInv, TypeOK, RequestInv, Procs
  <2> QED
    BY <2>1, <2>2 DEF TypeInv
<1>19. ASSUME NEW p \in Procs, CastType(p)
      PROVE  TypeInv'
  <2>1. CASE HeardBy(p, Users)
    <3> USE DEF HeardBy, CastType, Others, Goto, Advance, storeVars, procVars, queueVars, counters
    <3>1. TypeOK'
      BY <1>19, <2>1 DEF TypeInv, TypeOK, StoreTypeOK
    <3>2. RequestInv'
      BY <1>19, <2>1 DEF TypeInv, TypeOK, RequestInv
    <3> QED
      BY <3>1, <3>2 DEF TypeInv
  <2>2. CASE ~HeardBy(p, Users)
    BY <1>19, <2>2, TypeStep, TypeReturn DEF CastType, End, Others, counters, TypeInv, RequestInv, TypeOK
  <2> QED
    BY <2>1, <2>2
<1>20. ASSUME NEW p \in Procs, CastMembers(p)
      PROVE  TypeInv'
  <2> PICK got \in SUBSET MembersOf(chan[p]) : HeardBy(p, got)
    BY <1>20 DEF CastMembers
  <2> USE DEF HeardBy, CastMembers, MembersOf, Others, Goto, Advance, storeVars, procVars, queueVars, counters
  <2>1. TypeOK'
    BY <1>20 DEF TypeInv, TypeOK, StoreTypeOK
  <2>2. RequestInv'
    BY <1>20 DEF TypeInv, TypeOK, RequestInv
  <2> QED
    BY <2>1, <2>2 DEF TypeInv
<1>21. ASSUME NEW p \in Procs, RLock(p)
      PROVE  TypeInv'
  <2> USE DEF RLock, Others, Goto, Advance, storeVars, procVars, queueVars, counters
  <2>1. TypeOK'
    <3>1. todo' \in [Procs -> SUBSET Conns] /\ pc' \in [Procs -> Labels]
      BY <1>21 DEF TypeInv, TypeOK
    <3> QED
      BY <1>21, <3>1 DEF TypeInv, TypeOK, StoreTypeOK
  <2>2. RequestInv'
    BY <1>21 DEF TypeInv, TypeOK, RequestInv, Procs
  <2> QED
    BY <2>1, <2>2 DEF TypeInv
<1>22. ASSUME NEW p \in Procs, NEW c \in Conns, Push(p, c)
      PROVE  TypeInv'
  <2> USE DEF Push, Goto, Advance, storeVars, procVars, queueVars, counters
  <2>1. TypeOK'
    <3>1. sent' \in [Conns -> Seq(Nat)]
      <4>1. Append(sent[c], cur[p]) \in Seq(Nat)
        BY AppendProperties DEF TypeInv, TypeOK
      <4> QED
        BY <1>22, <4>1 DEF TypeInv, TypeOK
    <3>2. todo' \in [Procs -> SUBSET Conns]
      BY <1>22 DEF TypeInv, TypeOK
    <3>3. UNCHANGED <<storeVars, stored, entitled, counters, clients, taken, closed,
                      writer, owner, pc, op, chan, audience, cur>>
      BY <1>22
    <3>4. full' \in [Procs -> SUBSET Conns]
      BY <1>22 DEF NoteFull, TypeInv, TypeOK
    <3> HIDE DEF Push
    <3> QED
      BY <3>1, <3>2, <3>3, <3>4 DEF TypeInv, TypeOK, StoreTypeOK
  <2>2. RequestInv'
    BY <1>22 DEF TypeInv, TypeOK, RequestInv, Procs
  <2> QED
    BY <2>1, <2>2 DEF TypeInv
<1>23. ASSUME NEW p \in Procs, RUnlock(p)
      PROVE  TypeInv'
  BY <1>23, TypeStep, TypeReturn DEF RUnlock, End, Others, counters, TypeInv, RequestInv, TypeOK
<1>24. ASSUME NEW p \in Procs, DbError(p)
      PROVE  TypeInv'
  <2>1. events' \in 0..MaxEvents
    BY <1>24 DEF DbError, TypeInv, TypeOK
  <2> QED
    BY <1>24, <2>1, TypeReturn DEF DbError
<1>25. CASE Admin
  <2>1. StoreTypeOK'
    <3> USE DEF TypeInv, TypeOK, StoreTypeOK, Types, Channels
    <3>1. ASSUME NEW r \in Rooms, NEW t \in {"public", "private"}, CreateChannel(r, t)
          PROVE  StoreTypeOK'
      BY <3>1 DEF CreateChannel
    <3>2. ASSUME NEW ch \in Channels, DeleteChannel(ch)
          PROVE  StoreTypeOK'
      BY <3>2 DEF DeleteChannel
    <3>3. ASSUME NEW ch \in Channels, NEW u \in Users, AddMember(ch, u) \/ RemoveMember(ch, u)
          PROVE  StoreTypeOK'
      BY <3>3 DEF AddMember, RemoveMember
    <3>4. ASSUME NEW u \in Users, DeleteUser(u)
          PROVE  StoreTypeOK'
      BY <3>4 DEF DeleteUser
    <3> HIDE DEF TypeInv, TypeOK, StoreTypeOK, Types, Channels
    <3> QED
      BY <1>25, <3>1, <3>2, <3>3, <3>4 DEF Admin
  <2>2. entitled' \in Seq(SUBSET Users)
    BY <1>25, RememberGrows DEF Admin, TypeInv, TypeOK
  <2>3. events' \in 0..MaxEvents
    BY <1>25 DEF Admin, TypeInv, TypeOK
  <2> QED
    BY <1>25, <2>1, <2>2, <2>3 DEF Admin, procVars, queueVars, TypeInv, TypeOK, RequestInv
<1>26. CASE Restart
  <2>1. TypeOK'
    BY <1>26 DEF Restart, TypeInv, TypeOK, StoreTypeOK, storeVars, Ops, Procs
  <2>2. RequestInv'
    <3> SUFFICES ASSUME NEW p \in Procs
                 PROVE  /\ pc'[p] \in {"off", "idle", "gone"}
                        /\ p \in Conns => pc'[p] # "idle"
                        /\ pc'[p] = "gone" => owner'[p] \in Users
      BY DEF RequestInv
    <3>1. CASE p \in Https
      BY <1>26, <3>1 DEF Restart
    <3>2. CASE p \in Conns
      BY <1>26, <3>2 DEF Restart, TypeInv, RequestInv, Procs
    <3> QED
      BY <3>1, <3>2 DEF Procs
  <2> QED
    BY <2>1, <2>2 DEF TypeInv
<1>27. CASE UNCHANGED vars
  BY <1>27 DEF vars, storeVars, procVars, queueVars, counters, TypeInv, TypeOK, RequestInv,
               StoreTypeOK
<1> QED
  BY <1>1, <1>2, <1>3, <1>4, <1>5, <1>6, <1>7, <1>8, <1>9, <1>10, <1>11, <1>12, <1>13,
     <1>14, <1>15, <1>16, <1>17, <1>18, <1>19, <1>20, <1>21, <1>22, <1>23, <1>24, <1>25, <1>26, <1>27
  DEF Next, Progress, Connection, WriteLoop
-----------------------------------------------------------------------------
(***************************************************************************)
(* The lock.                                                               *)
(***************************************************************************)

\* Request p moves on or ends, and leaves the connections' queues alone.
Moves(p) ==
  /\ UNCHANGED <<clients, sent, closed>>
  /\ pc[p] \notin {"off", "register"}
  /\ \E label \in Labels \ {"off", "register", "push"} : pc' = [pc EXCEPT ![p] = label]
  /\ todo' = todo \/ todo' = [todo EXCEPT ![p] = {}]
  /\ pc[p] = "push" => todo'[p] = {}

LEMMA LockMoves ==
  ASSUME TypeInv, LockInv, NEW p \in Procs, Moves(p)
  PROVE  LockInv'
  BY DEF TypeInv, TypeOK, LockInv, Moves, Procs

\* Most steps of a request are of that kind.
LEMMA StepMoves ==
  ASSUME TypeInv, NEW p \in Procs, pc[p] \notin {"off", "register", "push"},
         NEW label \in Labels \ {"off", "register", "push"}, Step(p, label)
  PROVE  Moves(p)
  BY DEF Step, Advance, Others, Goto, queueVars, Moves

LEMMA ReturnMoves ==
  ASSUME TypeInv, NEW p \in Procs, pc[p] \notin {"off", "register"},
         Return(p), UNCHANGED queueVars
  PROVE  Moves(p)
<1>1. pc' = [pc EXCEPT ![p] = IF p \in Conns THEN "read" ELSE "idle"]
  BY DEF Return, Goto
<1>2. todo' = [todo EXCEPT ![p] = {}] /\ todo'[p] = {}
  BY DEF Return, TypeInv, TypeOK
<1>3. (IF p \in Conns THEN "read" ELSE "idle") \in Labels \ {"off", "register", "push"}
  BY DEF Labels, Resting
<1>4. \E label \in Labels \ {"off", "register", "push"} : pc' = [pc EXCEPT ![p] = label]
  BY <1>1, <1>3
<1> QED
  BY <1>2, <1>4 DEF queueVars, Moves

LEMMA LockInit == Init => LockInv
  BY DEF Init, LockInv, Procs

LEMMA LockNext == TypeInv /\ LockInv /\ [Next]_vars => LockInv'
<1> SUFFICES ASSUME TypeInv, LockInv, [Next]_vars PROVE LockInv'
  OBVIOUS
<1> USE DEF Labels, Resting, DbSteps
<1>1. ASSUME NEW c \in Conns, NEW u \in Users, Authenticate(c, u)
      PROVE  LockInv'
  BY <1>1 DEF Authenticate, Others, TypeInv, TypeOK, LockInv, Procs, Goto, Advance, storeVars, procVars, queueVars, counters
<1>2. ASSUME NEW c \in Conns, NEW t \in Targets, Receive(c, t)
      PROVE  LockInv'
  BY <1>2 DEF Receive, TypeInv, TypeOK, LockInv, Procs, Goto, Advance, storeVars, procVars, queueVars, counters
<1>3. ASSUME NEW c \in Conns, Register(c)
      PROVE  LockInv'
  BY <1>3 DEF Register, CanLock, Readers, TypeInv, TypeOK, LockInv, Procs, Goto, Advance, storeVars, procVars, queueVars, counters
<1>4. ASSUME NEW c \in Conns, Unregister(c)
      PROVE  LockInv'
  BY <1>4 DEF Unregister, CanLock, Readers, TypeInv, TypeOK, LockInv, Procs, Goto, Advance, storeVars, procVars, queueVars, counters
<1>5. ASSUME NEW c \in Conns, CloseConn(c)
      PROVE  LockInv'
  BY <1>5, StepMoves, LockMoves DEF CloseConn, Procs
<1>6. ASSUME NEW c \in Conns, ReadError(c)
      PROVE  LockInv'
  BY <1>6 DEF ReadError, TypeInv, TypeOK, LockInv, Procs, Goto, Advance, storeVars, procVars, queueVars, counters
<1>7. ASSUME NEW c \in Conns, WriteLoop(c)
      PROVE  LockInv'
  BY <1>7 DEF WriteLoop, Write, WriteError, WriterEnd, TypeInv, TypeOK, LockInv, Procs, Goto, Advance, storeVars, procVars, queueVars, counters
<1>8. ASSUME NEW h \in Https, NEW u \in Users, NEW what \in Ops, NEW t \in Targets, Request(h, u, what, t)
      PROVE  LockInv'
  BY <1>8 DEF Request, FirstStep, Ops, TypeInv, TypeOK, LockInv, Procs, Goto, Advance, storeVars, procVars, queueVars, counters
<1>9. ASSUME NEW p \in Procs, ResolveChannel(p)
      PROVE  LockInv'
  BY <1>9, StepMoves, ReturnMoves, LockMoves DEF ResolveChannel, End, Others
<1>10. ASSUME NEW p \in Procs, ResolveUser(p)
      PROVE  LockInv'
  BY <1>10, StepMoves, ReturnMoves, LockMoves DEF ResolveUser, End, Others
<1>11. ASSUME NEW p \in Procs, AuthType(p)
      PROVE  LockInv'
  BY <1>11, StepMoves, ReturnMoves, LockMoves DEF AuthType, AfterAuth, End, Others
<1>12. ASSUME NEW p \in Procs, AuthMember(p)
      PROVE  LockInv'
  BY <1>12, StepMoves, ReturnMoves, LockMoves DEF AuthMember, AfterAuth, End, Others
<1>13. ASSUME NEW p \in Procs, AnswerRows(p)
      PROVE  LockInv'
  BY <1>13, StepMoves, ReturnMoves, LockMoves DEF AnswerRows, End, Others
<1>14. ASSUME NEW p \in Procs, RUnlock(p)
      PROVE  LockInv'
  BY <1>14, StepMoves, ReturnMoves, LockMoves DEF RUnlock, End, Others
<1>15. ASSUME NEW p \in Procs, DbError(p)
      PROVE  LockInv'
  BY <1>15, StepMoves, ReturnMoves, LockMoves DEF DbError, End, Others
<1>16. ASSUME NEW p \in Procs, FindDm(p)
      PROVE  LockInv'
  <2>1. CASE Return(p)
    BY <1>16, <2>1, ReturnMoves, LockMoves DEF FindDm, UseDm, Others, queueVars, Step
  <2>2. CASE ~Return(p)
    BY <1>16, <2>2, StepMoves, LockMoves DEF FindDm, UseDm, Others, Goto, queueVars, Moves
  <2> QED
    BY <2>1, <2>2
<1>17. ASSUME NEW p \in Procs, MakeDm(p)
      PROVE  LockInv'
  <2>1. CASE Return(p)
    BY <1>17, <2>1, ReturnMoves, LockMoves DEF MakeDm, UseDm, End, Others, queueVars, Step
  <2>2. CASE ~Return(p)
    BY <1>17, <2>2, StepMoves, LockMoves DEF MakeDm, UseDm, End, Others, Goto, queueVars, Moves
  <2> QED
    BY <2>1, <2>2
<1>18. ASSUME NEW p \in Procs, CastType(p)
      PROVE  LockInv'
  <2>1. CASE Return(p)
    BY <1>18, <2>1, ReturnMoves, LockMoves DEF CastType, HeardBy, End, Others, queueVars, Step
  <2>2. CASE ~Return(p)
    BY <1>18, <2>2, StepMoves, LockMoves DEF CastType, HeardBy, End, Others, Goto, queueVars, Moves
  <2> QED
    BY <2>1, <2>2
<1>19. ASSUME NEW p \in Procs, CastMembers(p)
      PROVE  LockInv'
  BY <1>19, LockMoves DEF CastMembers, HeardBy, Others, Moves, Goto, queueVars
<1>20. ASSUME NEW p \in Procs, Save(p)
      PROVE  LockInv'
  BY <1>20, LockMoves DEF Save, Moves, Goto, queueVars
<1>21. ASSUME NEW p \in Procs, RLock(p)
      PROVE  LockInv'
  BY <1>21 DEF RLock, Others, TypeInv, TypeOK, LockInv, Procs, Goto, Advance, storeVars, procVars, queueVars, counters
<1>22. ASSUME NEW p \in Procs, NEW c \in Conns, Push(p, c)
      PROVE  LockInv'
  BY <1>22 DEF Push, TypeInv, TypeOK, LockInv, Procs, Goto, Advance, storeVars, procVars, queueVars, counters
<1>23. CASE Admin
  BY <1>23 DEF Admin, TypeInv, TypeOK, LockInv, Procs, Goto, Advance, storeVars, procVars, queueVars, counters
<1>24. CASE Restart
  BY <1>24 DEF Restart, TypeInv, TypeOK, LockInv, Procs, Goto, Advance, storeVars, procVars, queueVars, counters
<1>25. CASE UNCHANGED vars
  BY <1>25 DEF vars, LockInv, procVars, queueVars
<1> QED
  BY <1>1, <1>2, <1>3, <1>4, <1>5, <1>6, <1>7, <1>8, <1>9, <1>10, <1>11, <1>12, <1>13,
     <1>14, <1>15, <1>16, <1>17, <1>18, <1>19, <1>20, <1>21, <1>22, <1>23, <1>24, <1>25
  DEF Next, Progress, Connection
-----------------------------------------------------------------------------
(***************************************************************************)
(* The order of messages.                                                  *)
(***************************************************************************)

\* Only request p moves, and it is not broadcasting after the step.
Plain(p) ==
  /\ UNCHANGED <<stored, sent>>
  /\ \A q \in Procs \ {p} :
       pc'[q] = pc[q] /\ cur'[q] = cur[q] /\ chan'[q] = chan[q] /\ todo'[q] = todo[q]
  /\ pc'[p] \notin Casting

\* The broadcast of p goes on before it has taken the lock.
GoesOn(p) ==
  /\ pc[p] \in {"casttype", "castmembers"}
  /\ \E label \in {"castmembers", "rlock"} : pc' = [pc EXCEPT ![p] = label]
  /\ UNCHANGED <<stored, sent, cur, chan, todo>>

Ordered == OrderInv /\ SenderOrder

LEMMA OrderPlain ==
  ASSUME Ordered, NEW p \in Procs, Plain(p)
  PROVE  Ordered'
  BY DEF Ordered, OrderInv, SenderOrder, Holds, Plain

LEMMA OrderGoesOn ==
  ASSUME TypeInv, Ordered, NEW p \in Procs, GoesOn(p)
  PROVE  Ordered'
  BY DEF TypeInv, TypeOK, Ordered, OrderInv, SenderOrder, Holds, GoesOn, Casting

LEMMA StepPlain ==
  ASSUME TypeInv, NEW p \in Procs, NEW label \in Labels \ Casting, Step(p, label)
  PROVE  Plain(p)
  BY DEF TypeInv, TypeOK, Step, Advance, Others, Goto, queueVars, Plain

LEMMA ReturnPlain ==
  ASSUME TypeInv, NEW p \in Procs, Return(p), UNCHANGED <<queueVars, stored>>
  PROVE  Plain(p)
  BY DEF TypeInv, TypeOK, Return, Goto, queueVars, Plain, Casting

LEMMA OrderInit == Init => Ordered
  BY DEF Init, Ordered, OrderInv, SenderOrder, Procs, Casting

LEMMA OrderNext == TypeInv /\ LockInv /\ Ordered /\ [Next]_vars => Ordered'
<1> SUFFICES ASSUME TypeInv, LockInv, Ordered, [Next]_vars PROVE Ordered'
  OBVIOUS
<1> USE DEF Labels, Resting, DbSteps, Casting
<1>1. ASSUME NEW c \in Conns, NEW u \in Users, Authenticate(c, u)
      PROVE  Ordered'
  BY <1>1, OrderPlain DEF Authenticate, Others, Procs, Plain, Goto, Advance, queueVars, TypeInv, TypeOK
<1>2. ASSUME NEW c \in Conns, NEW t \in Targets, Receive(c, t)
      PROVE  Ordered'
  BY <1>2, OrderPlain DEF Receive, Procs, Plain, Goto, Advance, queueVars, TypeInv, TypeOK
<1>3. ASSUME NEW c \in Conns, Register(c)
      PROVE  Ordered'
  BY <1>3, OrderPlain DEF Register, Procs, Plain, Goto, Advance, queueVars, TypeInv, TypeOK
<1>4. ASSUME NEW c \in Conns, Unregister(c)
      PROVE  Ordered'
  BY <1>4, OrderPlain DEF Unregister, Procs, Plain, Goto, Advance, queueVars, TypeInv, TypeOK
<1>5. ASSUME NEW c \in Conns, CloseConn(c)
      PROVE  Ordered'
  BY <1>5, StepPlain, OrderPlain DEF CloseConn, Procs
<1>6. ASSUME NEW c \in Conns, ReadError(c)
      PROVE  Ordered'
  BY <1>6, OrderPlain DEF ReadError, Procs, Plain, Goto, Advance, queueVars, TypeInv, TypeOK
<1>7. ASSUME NEW c \in Conns, WriteLoop(c)
      PROVE  Ordered'
  <2>1. UNCHANGED <<stored, sent, pc, cur, chan, todo>>
    BY <1>7 DEF WriteLoop, Write, WriteError, WriterEnd, procVars
  <2> QED
    BY <2>1 DEF Ordered, OrderInv, SenderOrder, Holds
<1>8. ASSUME NEW h \in Https, NEW u \in Users, NEW what \in Ops, NEW t \in Targets,
             Request(h, u, what, t)
      PROVE  Ordered'
  <2>1. FirstStep[what] \notin Casting
    BY DEF FirstStep, Ops
  <2> QED
    BY <1>8, <2>1, OrderPlain DEF Request, Procs, Plain, Goto, Advance, queueVars, TypeInv, TypeOK
<1>9. ASSUME NEW p \in Procs, ResolveChannel(p)
      PROVE  Ordered'
  BY <1>9, StepPlain, ReturnPlain, OrderPlain DEF ResolveChannel, End, Others, queueVars
<1>10. ASSUME NEW p \in Procs, ResolveUser(p)
      PROVE  Ordered'
  BY <1>10, StepPlain, ReturnPlain, OrderPlain DEF ResolveUser, End, Others, queueVars
<1>11. ASSUME NEW p \in Procs, AuthType(p)
      PROVE  Ordered'
  BY <1>11, StepPlain, ReturnPlain, OrderPlain DEF AuthType, AfterAuth, End, Others, queueVars
<1>12. ASSUME NEW p \in Procs, AuthMember(p)
      PROVE  Ordered'
  BY <1>12, StepPlain, ReturnPlain, OrderPlain DEF AuthMember, AfterAuth, End, Others, queueVars
<1>13. ASSUME NEW p \in Procs, AnswerRows(p)
      PROVE  Ordered'
  BY <1>13, StepPlain, ReturnPlain, OrderPlain DEF AnswerRows, End, Others, queueVars
<1>14. ASSUME NEW p \in Procs, RUnlock(p)
      PROVE  Ordered'
  BY <1>14, StepPlain, ReturnPlain, OrderPlain DEF RUnlock, End, Others, queueVars
<1>15. ASSUME NEW p \in Procs, DbError(p)
      PROVE  Ordered'
  BY <1>15, StepPlain, ReturnPlain, OrderPlain DEF DbError, End, Others, queueVars
<1>16. ASSUME NEW p \in Procs, FindDm(p)
      PROVE  Ordered'
  <2>1. CASE Return(p)
    BY <1>16, <2>1, ReturnPlain, OrderPlain DEF FindDm, UseDm, Others, queueVars, Step, Advance
  <2>2. CASE ~Return(p)
    BY <1>16, <2>2, OrderPlain DEF FindDm, UseDm, Others, Step, Plain, Goto, Advance, queueVars, TypeInv, TypeOK
  <2> QED
    BY <2>1, <2>2
<1>17. ASSUME NEW p \in Procs, MakeDm(p)
      PROVE  Ordered'
  <2>1. CASE Return(p)
    BY <1>17, <2>1, ReturnPlain, OrderPlain DEF MakeDm, UseDm, End, Others, queueVars, Step, Advance
  <2>2. CASE ~Return(p)
    BY <1>17, <2>2, OrderPlain DEF MakeDm, UseDm, End, Others, Step, Plain, Goto, Advance, queueVars, TypeInv, TypeOK
  <2> QED
    BY <2>1, <2>2
<1>18. ASSUME NEW p \in Procs, CastType(p)
      PROVE  Ordered'
  <2>1. CASE End(p)
    BY <2>1, ReturnPlain, OrderPlain DEF End, Others, queueVars
  <2>2. CASE ~End(p)
    BY <1>18, <2>2, OrderGoesOn DEF CastType, HeardBy, Step, Advance, Others, Goto, queueVars, GoesOn
  <2> QED
    BY <2>1, <2>2
<1>19. ASSUME NEW p \in Procs, CastMembers(p)
      PROVE  Ordered'
  BY <1>19, OrderGoesOn DEF CastMembers, HeardBy, Others, Goto, queueVars, GoesOn
<1>20. ASSUME NEW p \in Procs, Save(p)
      PROVE  Ordered'
  <2> DEFINE m == [src |-> p, sender |-> owner[p], ch |-> chan[p]]
  <2>1. /\ Len(stored') = Len(stored) + 1
        /\ \A k \in 1..Len(stored) : stored'[k] = stored[k]
        /\ stored'[Len(stored) + 1] = m
        /\ Len(stored) \in Nat
    BY <1>20, AppendProperties DEF Save, TypeInv, TypeOK
  <2>2. /\ pc' = [pc EXCEPT ![p] = "casttype"]
        /\ cur' = [cur EXCEPT ![p] = Len(stored) + 1]
        /\ UNCHANGED <<sent, chan, todo>>
        /\ pc[p] = "save"
    BY <1>20 DEF Save, Goto, queueVars
  <2>3. SenderOrder'
    <3> SUFFICES ASSUME NEW c \in Conns
                 PROVE  /\ \A k \in 1..Len(sent[c]) : sent[c][k] \in 1..Len(stored')
                        /\ \A k, l \in 1..Len(sent[c]) :
                             k < l /\ stored'[sent[c][k]].src = stored'[sent[c][l]].src
                               => sent[c][k] < sent[c][l]
      BY <2>2 DEF SenderOrder
    <3>1. \A k \in 1..Len(sent[c]) : sent[c][k] \in 1..Len(stored)
      BY DEF Ordered, SenderOrder
    <3>2. \A k \in 1..Len(sent[c]) : stored'[sent[c][k]] = stored[sent[c][k]]
      BY <2>1, <3>1
    <3>3. \A k \in 1..Len(sent[c]) : sent[c][k] \in 1..Len(stored')
      BY <2>1, <3>1
    <3>4. \A k, l \in 1..Len(sent[c]) :
            k < l /\ stored[sent[c][k]].src = stored[sent[c][l]].src
              => sent[c][k] < sent[c][l]
      BY DEF Ordered, SenderOrder
    <3> QED
      BY <3>2, <3>3, <3>4
  <2>4. ASSUME NEW q \in Procs, pc'[q] \in Casting
        PROVE  /\ cur'[q] \in 1..Len(stored')
               /\ stored'[cur'[q]].src = q
               /\ stored'[cur'[q]].ch = chan'[q]
               /\ \A k \in 1..Len(stored') : stored'[k].src = q => k <= cur'[q]
               /\ \A c \in Conns : pc'[q] # "push" \/ c \in todo'[q] => ~Holds(c, cur[q])'
    <3>1. CASE q = p
      BY <2>1, <2>2, <3>1 DEF Ordered, SenderOrder, Holds, TypeInv, TypeOK
    <3>2. CASE q # p
      <4>1. pc[q] = pc'[q] /\ cur'[q] = cur[q]
        BY <2>2, <3>2 DEF TypeInv, TypeOK
      <4> QED
        BY <2>1, <2>2, <2>4, <3>2, <4>1 DEF Ordered, OrderInv, Holds
    <3> QED
      BY <3>1, <3>2
  <2> QED
    BY <2>3, <2>4 DEF Ordered, OrderInv
<1>21. ASSUME NEW p \in Procs, RLock(p)
      PROVE  Ordered'
  <2>1. /\ pc[p] = "rlock" /\ pc' = [pc EXCEPT ![p] = "push"]
        /\ todo' = [todo EXCEPT ![p] = {c \in clients : owner[c] \in audience[p]}]
        /\ UNCHANGED <<stored, sent, cur, chan>>
    BY <1>21 DEF RLock, Others, Goto, queueVars
  <2>2. SenderOrder'
    BY <2>1 DEF Ordered, SenderOrder
  <2>3. ASSUME NEW q \in Procs, pc'[q] \in Casting
        PROVE  /\ pc[q] \in Casting
               /\ \A c \in Conns : pc'[q] # "push" \/ c \in todo'[q] => ~Holds(c, cur[q])
    BY <2>1, <2>3 DEF Ordered, OrderInv, TypeInv, TypeOK
  <2> QED
    BY <2>1, <2>2, <2>3 DEF Ordered, OrderInv, Holds
<1>22. ASSUME NEW p \in Procs, NEW c \in Conns, Push(p, c)
      PROVE  Ordered'
  <2>1. /\ pc[p] = "push" /\ c \in todo[p]
        /\ todo' = [todo EXCEPT ![p] = @ \ {c}]
        /\ UNCHANGED <<stored, pc, cur, chan>>
    BY <1>22 DEF Push
  <2>2. CASE sent' = sent
    BY <2>1, <2>2 DEF Ordered, OrderInv, SenderOrder, Holds, TypeInv, TypeOK
  <2>3. CASE sent' = [sent EXCEPT ![c] = Append(@, cur[p])]
    <3>1. /\ Len(sent'[c]) = Len(sent[c]) + 1
          /\ \A k \in 1..Len(sent[c]) : sent'[c][k] = sent[c][k]
          /\ sent'[c][Len(sent[c]) + 1] = cur[p]
          /\ Len(sent[c]) \in Nat
          /\ \A d \in Conns \ {c} : sent'[d] = sent[d]
      BY <2>3, AppendProperties DEF TypeInv, TypeOK
    <3>2. /\ cur[p] \in 1..Len(stored)
          /\ stored[cur[p]].src = p
          /\ ~Holds(c, cur[p])
          /\ \A k \in 1..Len(stored) : stored[k].src = p => k <= cur[p]
      BY <2>1 DEF Ordered, OrderInv
    <3>3. SenderOrder'
      <4>1. ASSUME NEW d \in Conns
            PROVE  \A k \in 1..Len(sent'[d]) : sent'[d][k] \in 1..Len(stored')
        <5>1. \A k \in 1..Len(sent[d]) : sent[d][k] \in 1..Len(stored)
          BY DEF Ordered, SenderOrder
        <5>2. CASE d = c
          <6> SUFFICES ASSUME NEW k \in 1..Len(sent'[c])
                       PROVE  sent'[c][k] \in 1..Len(stored)
            BY <2>1, <5>2
          <6>1. k \in 1..Len(sent[c]) \/ k = Len(sent[c]) + 1
            BY <3>1
          <6> QED
            BY <3>1, <3>2, <5>1, <5>2, <6>1
        <5>3. CASE d # c
          BY <2>1, <3>1, <5>1, <5>3
        <5> QED
          BY <5>2, <5>3
      <4>2. ASSUME NEW d \in Conns, NEW k \in 1..Len(sent'[d]), NEW l \in 1..Len(sent'[d]),
                   k < l, stored'[sent'[d][k]].src = stored'[sent'[d][l]].src
            PROVE  sent'[d][k] < sent'[d][l]
        <5>1. CASE d # c \/ l # Len(sent[c]) + 1
          <6>1. /\ k \in 1..Len(sent[d]) /\ sent'[d][k] = sent[d][k]
                /\ l \in 1..Len(sent[d]) /\ sent'[d][l] = sent[d][l]
            BY <3>1, <4>2, <5>1
          <6> QED
            BY <2>1, <4>2, <6>1 DEF Ordered, SenderOrder
        <5>2. CASE d = c /\ l = Len(sent[c]) + 1
          <6>1. k \in 1..Len(sent[c]) /\ sent'[d][k] = sent[c][k] /\ sent'[d][l] = cur[p]
            BY <3>1, <4>2, <5>2
          <6>2. sent[c][k] \in 1..Len(stored) /\ sent[c][k] # cur[p]
            BY <3>2, <6>1 DEF Ordered, SenderOrder, Holds
          <6>3. sent[c][k] <= cur[p]
            BY <2>1, <3>2, <4>2, <6>1, <6>2
          <6> QED
            BY <3>2, <6>1, <6>2, <6>3
        <5> QED
          BY <5>1, <5>2
      <4> QED
        BY <4>1, <4>2 DEF SenderOrder
    <3>4. ASSUME NEW q \in Procs, pc[q] \in Casting, NEW d \in Conns,
                 pc[q] # "push" \/ d \in todo'[q]
          PROVE  ~Holds(d, cur[q])'
      <4>1. pc[q] # "push" \/ d \in todo[q]
        BY <2>1, <3>4 DEF TypeInv, TypeOK
      <4>2. ~Holds(d, cur[q]) /\ stored[cur[q]].src = q
        BY <3>4, <4>1 DEF Ordered, OrderInv
      <4>3. CASE d # c
        BY <2>1, <3>1, <4>2, <4>3 DEF Holds
      <4>4. CASE d = c
        <5>1. q # p
          BY <2>1, <3>4, <4>4 DEF TypeInv, TypeOK
        <5>2. cur[q] # cur[p]
          BY <3>2, <4>2, <5>1
        <5> QED
          BY <2>1, <3>1, <4>2, <4>4, <5>2 DEF Holds
      <4> QED
        BY <4>3, <4>4
    <3> QED
      BY <2>1, <3>3, <3>4 DEF Ordered, OrderInv
  <2> QED
    BY <1>22, <2>2, <2>3 DEF Push
<1>23. CASE Admin
  BY <1>23 DEF Admin, procVars, queueVars, Ordered, OrderInv, SenderOrder, Holds
<1>24. CASE Restart
  BY <1>24 DEF Restart, Ordered, OrderInv, SenderOrder, Holds
<1>25. CASE UNCHANGED vars
  BY <1>25 DEF vars, procVars, queueVars, Ordered, OrderInv, SenderOrder, Holds
<1> QED
  BY <1>1, <1>2, <1>3, <1>4, <1>5, <1>6, <1>7, <1>8, <1>9, <1>10, <1>11, <1>12, <1>13,
     <1>14, <1>15, <1>16, <1>17, <1>18, <1>19, <1>20, <1>21, <1>22, <1>23, <1>24, <1>25
  DEF Next, Progress, Connection
-----------------------------------------------------------------------------
(***************************************************************************)
(* Who gets a message.                                                     *)
(***************************************************************************)
Guarded == EntitledInv /\ Confidential

\* Request p moves over unchanged tables, and sends to no one.
Reads(p) ==
  /\ UNCHANGED <<entitled, stored, chType, members, sent>>
  /\ \A q \in Procs \ {p} :
       /\ pc'[q] = pc[q] /\ chan'[q] = chan[q] /\ audience'[q] = audience[q]
       /\ cur'[q] = cur[q] /\ todo'[q] = todo[q]
  /\ \A c \in Conns : pc[c] # "off" => owner'[c] = owner[c]
  /\ todo'[p] = {}
  /\ pc'[p] \in Resolved => chType[chan'[p]] # "unused"
  /\ pc'[p] \in {"rlock", "push"} /\ Closed(chan'[p])
       => audience'[p] \subseteq entitled[cur'[p]]

LEMMA GuardedReads ==
  ASSUME TypeInv, LockInv, Ordered, Guarded, NEW p \in Procs, Reads(p)
  PROVE  Guarded'
<1>1. \A q \in Procs : \A c \in todo'[q] : c \in todo[q] /\ q # p
  BY DEF Reads
<1>2. \A q \in Procs : \A c \in todo[q] : c \in Conns /\ pc[c] # "off"
  BY DEF LockInv, TypeInv, TypeOK
<1>3. \A q \in Procs : \A c \in todo'[q] : owner'[c] \in audience'[q]
  BY <1>1, <1>2 DEF Reads, Guarded, EntitledInv
<1>4. EntitledInv'
  BY <1>3 DEF Guarded, EntitledInv, Reads, Closed
<1>5. ASSUME NEW c \in Conns, NEW i \in 1..Len(sent[c])
      PROVE  owner'[c] = owner[c]
  BY <1>5 DEF Reads, LockInv
<1>6. Confidential'
  BY <1>5 DEF Guarded, Confidential, Reads, Closed
<1> QED
  BY <1>4, <1>6 DEF Guarded

LEMMA StepReads ==
  ASSUME TypeInv, LockInv, NEW p \in Procs, NEW label \in Labels \ {"rlock", "push"},
         pc[p] # "push", Step(p, label),
         label \in Resolved => chType[chan[p]] # "unused"
  PROVE  Reads(p)
  BY DEF TypeInv, TypeOK, LockInv, Step, Advance, Others, Goto, queueVars, storeVars, Reads

LEMMA ReturnReads ==
  ASSUME TypeInv, NEW p \in Procs, Return(p),
         UNCHANGED <<storeVars, queueVars, stored, entitled>>
  PROVE  Reads(p)
<1>1. pc'[p] \in {"read", "idle"}
  BY DEF TypeInv, TypeOK, Return, Goto
<1>2. \A c \in Conns : owner'[c] = owner[c]
  BY DEF TypeInv, TypeOK, Return, Procs
<1> QED
  BY <1>1, <1>2 DEF TypeInv, TypeOK, Return, Goto, queueVars, storeVars, Reads, Resolved, Casting

LEMMA GuardedInit == Init => Guarded
  BY DEF Init, StoreInit, Guarded, EntitledInv, Confidential, Resolved, Casting

\* The tables change, no request moves: members are remembered, and a channel
\* in use does not become another's.
LEMMA GuardedTables ==
  ASSUME TypeInv, Ordered, Guarded, Remember, UNCHANGED <<stored, sent>>,
         chType' \in [Channels -> Types \cup {"unused", "none"}],
         \A q \in Procs : pc'[q] \in Resolved => pc[q] = pc'[q] /\ chan'[q] = chan[q],
         \A q \in Procs : pc'[q] \in {"rlock", "push"} =>
           audience'[q] = audience[q] /\ cur'[q] = cur[q],
         \A q \in Procs : todo'[q] # {} => todo'[q] = todo[q] /\ audience'[q] = audience[q],
         \A c \in Conns : owner'[c] = owner[c],
         \A d \in Dms : chType'[d] \in {"dm", "none"},
         \A ch \in Channels : chType[ch] # "unused" =>
           chType'[ch] # "unused" /\ (chType'[ch] = "private" => chType[ch] = "private")
  PROVE  Guarded'
<1>1. /\ Len(entitled') = Len(entitled)
      /\ \A i \in 1..Len(entitled) :
           /\ entitled[i] \subseteq entitled'[i]
           /\ \A u \in Users : <<stored[i].ch, u>> \in members' => u \in entitled'[i]
  BY RememberGrows DEF TypeInv, TypeOK
<1>2. \A i \in 1..Len(stored) : stored[i].ch \in Channels
  <2>1. \A i \in 1..Len(stored) : stored[i] \in [src : Procs, sender : Users, ch : Channels]
    BY ElementOfSeq DEF TypeInv, TypeOK
  <2> QED
    BY <2>1
<1>3. \A ch \in Channels : chType[ch] # "unused" /\ Closed(ch)' => Closed(ch)
  BY DEF Closed
<1>4. ASSUME NEW q \in Procs, pc'[q] \in {"rlock", "push"}, Closed(chan[q])'
      PROVE  audience'[q] \subseteq entitled'[cur'[q]]
  <2>1. /\ pc[q] \in {"rlock", "push"} /\ chan'[q] = chan[q]
        /\ audience'[q] = audience[q] /\ cur'[q] = cur[q]
    BY <1>4 DEF Resolved, Casting
  <2>2. chan[q] \in Channels /\ chType[chan[q]] # "unused" /\ cur[q] \in 1..Len(stored)
    BY <2>1 DEF TypeInv, RequestInv, Guarded, EntitledInv, Ordered, OrderInv, Resolved, Casting
  <2>3. Closed(chan[q])
    BY <1>3, <1>4, <2>1, <2>2 DEF Closed
  <2>4. audience[q] \subseteq entitled[cur[q]] /\ cur[q] \in 1..Len(entitled)
    BY <2>1, <2>2, <2>3 DEF Guarded, EntitledInv
  <2> QED
    BY <1>1, <2>1, <2>4
<1>5. \A q \in Procs : pc'[q] \in Resolved => chType'[chan'[q]] # "unused"
  BY DEF TypeInv, RequestInv, Guarded, EntitledInv
<1>6. \A q \in Procs : \A c \in todo'[q] : owner'[c] \in audience'[q]
  <2> SUFFICES ASSUME NEW q \in Procs, NEW c \in todo'[q] PROVE owner'[c] \in audience'[q]
    OBVIOUS
  <2> QED
    BY DEF TypeInv, TypeOK, Guarded, EntitledInv
<1>7. EntitledInv'
  <2>1. \A i \in 1..Len(stored') : chType'[stored'[i].ch] # "unused"
    BY <1>2 DEF Guarded, EntitledInv
  <2>2. \A i \in 1..Len(stored'), u \in Users :
          <<stored'[i].ch, u>> \in members' => u \in entitled'[i]
    BY <1>1 DEF Guarded, EntitledInv
  <2>3. Len(entitled') = Len(stored')
    BY <1>1 DEF Guarded, EntitledInv
  <2> QED
    BY <1>4, <1>5, <1>6, <2>1, <2>2, <2>3 DEF EntitledInv
<1>8. Confidential'
  <2> SUFFICES ASSUME NEW c \in Conns, NEW i \in 1..Len(sent[c]),
                      Closed(stored[sent[c][i]].ch)'
               PROVE  owner[c] \in entitled'[sent[c][i]]
    BY DEF Confidential, Closed
  <2>1. sent[c][i] \in 1..Len(stored) /\ sent[c][i] \in 1..Len(entitled)
    BY DEF Ordered, SenderOrder, Guarded, EntitledInv
  <2>2. Closed(stored[sent[c][i]].ch)
    BY <1>2, <1>3, <2>1 DEF Guarded, EntitledInv, Closed
  <2> QED
    BY <1>1, <2>1, <2>2 DEF Guarded, Confidential
<1> QED
  BY <1>7, <1>8 DEF Guarded

LEMMA GuardedNext == TypeInv /\ LockInv /\ Ordered /\ Guarded /\ [Next]_vars => Guarded'
<1> SUFFICES ASSUME TypeInv, LockInv, Ordered, Guarded, [Next]_vars PROVE Guarded'
  OBVIOUS
<1> USE DEF Labels, Resting, DbSteps, Resolved, Casting
<1>1. ASSUME NEW c \in Conns, NEW u \in Users, Authenticate(c, u)
      PROVE  Guarded'
  BY <1>1, GuardedReads DEF Authenticate, Others, Reads, LockInv, Goto, Advance, Procs, queueVars, storeVars, TypeInv, TypeOK
<1>2. ASSUME NEW c \in Conns, NEW t \in Targets, Receive(c, t)
      PROVE  Guarded'
  BY <1>2, GuardedReads DEF Receive, Reads, LockInv, Goto, Advance, Procs, queueVars, storeVars, TypeInv, TypeOK
<1>3. ASSUME NEW c \in Conns, Register(c)
      PROVE  Guarded'
  BY <1>3, GuardedReads DEF Register, Reads, LockInv, Goto, Advance, Procs, queueVars, storeVars, TypeInv, TypeOK
<1>4. ASSUME NEW c \in Conns, Unregister(c)
      PROVE  Guarded'
  BY <1>4, GuardedReads DEF Unregister, Reads, LockInv, Goto, Advance, Procs, queueVars, storeVars, TypeInv, TypeOK
<1>5. ASSUME NEW c \in Conns, CloseConn(c)
      PROVE  Guarded'
  BY <1>5, StepReads, GuardedReads DEF CloseConn, Procs
<1>6. ASSUME NEW c \in Conns, ReadError(c)
      PROVE  Guarded'
  BY <1>6, GuardedReads DEF ReadError, Reads, LockInv, Goto, Advance, Procs, queueVars, storeVars, TypeInv, TypeOK
<1>7. ASSUME NEW c \in Conns, WriteLoop(c)
      PROVE  Guarded'
  <2>1. /\ UNCHANGED <<entitled, stored, chType, members, sent>>
        /\ UNCHANGED procVars
    BY <1>7 DEF WriteLoop, Write, WriteError, WriterEnd, storeVars
  <2> QED
    BY <2>1 DEF procVars, Guarded, EntitledInv, Confidential, Closed
<1>8. ASSUME NEW h \in Https, NEW u \in Users, NEW what \in Ops, NEW t \in Targets,
             Request(h, u, what, t)
      PROVE  Guarded'
  <2>1. FirstStep[what] \notin Resolved
    BY DEF FirstStep, Ops
  <2>2. \A c \in Conns : owner'[c] = owner[c]
    BY <1>8 DEF Request, TypeInv, TypeOK, Procs
  <2> QED
    BY <1>8, <2>1, <2>2, GuardedReads DEF Request, Reads, LockInv, Goto, Advance, Procs, queueVars, storeVars, TypeInv, TypeOK
<1>9. ASSUME NEW p \in Procs, ResolveChannel(p)
      PROVE  Guarded'
  BY <1>9, StepReads, ReturnReads, GuardedReads DEF ResolveChannel, End, Others, queueVars
<1>10. ASSUME NEW p \in Procs, ResolveUser(p)
      PROVE  Guarded'
  BY <1>10, StepReads, ReturnReads, GuardedReads DEF ResolveUser, End, Others, queueVars
<1>11. ASSUME NEW p \in Procs, AuthType(p)
      PROVE  Guarded'
  BY <1>11, StepReads, ReturnReads, GuardedReads DEF AuthType, AfterAuth, IsPublic, IsPrivate, IsChannel, Exists, Types, End, Others, queueVars
<1>12. ASSUME NEW p \in Procs, AuthMember(p)
      PROVE  Guarded'
  BY <1>12, StepReads, ReturnReads, GuardedReads DEF AuthMember, AfterAuth, Guarded, EntitledInv, End, Others, queueVars
<1>13. ASSUME NEW p \in Procs, AnswerRows(p)
      PROVE  Guarded'
  BY <1>13, StepReads, ReturnReads, GuardedReads DEF AnswerRows, End, Others, queueVars
<1>14. ASSUME NEW p \in Procs, RUnlock(p)
      PROVE  Guarded'
  BY <1>14, StepReads, ReturnReads, GuardedReads DEF RUnlock, End, Others, queueVars
<1>15. ASSUME NEW p \in Procs, DbError(p)
      PROVE  Guarded'
  BY <1>15, StepReads, ReturnReads, GuardedReads DEF DbError, End, Others, queueVars
<1>16. ASSUME NEW p \in Procs, FindDm(p)
      PROVE  Guarded'
  <2>1. CASE Return(p)
    BY <1>16, <2>1, ReturnReads, GuardedReads DEF FindDm, UseDm, Others, queueVars, Step, Advance
  <2>2. CASE Exists(Dm(p)) /\ UseDm(p) /\ Others /\ ~Return(p)
    <3>1. /\ pc[p] = "finddm" /\ pc' = [pc EXCEPT ![p] = "authtype"]
          /\ chan' = [chan EXCEPT ![p] = Dm(p)]
          /\ UNCHANGED <<owner, audience, cur, todo>>
          /\ UNCHANGED <<entitled, stored, chType, members, sent>>
      BY <1>16, <2>2 DEF FindDm, UseDm, Goto, Others, queueVars, storeVars
    <3>2. todo[p] = {} /\ pc'[p] = "authtype"
      BY <3>1 DEF TypeInv, TypeOK, LockInv
    <3>3. Reads(p)
      BY <3>1, <3>2 DEF TypeInv, TypeOK, Reads
    <3> QED
      BY <3>3, GuardedReads
  <2>3. CASE Step(p, "makedm")
    BY <1>16, <2>3, StepReads, GuardedReads DEF FindDm
  <2> QED
    BY <1>16, <2>1, <2>2, <2>3 DEF FindDm
<1>17. ASSUME NEW p \in Procs, MakeDm(p)
      PROVE  Guarded'
  <2>1. CASE ~DmInsertable(Dm(p))
    BY <1>17, <2>1, ReturnReads, GuardedReads DEF MakeDm, InsertDm, End, Others
  <2>2. CASE DmInsertable(Dm(p))
    <3>1. /\ pc[p] = "makedm" /\ InsertDm(Dm(p)) /\ UseDm(p) /\ Remember
          /\ UNCHANGED <<queueVars, stored>>
      BY <1>17, <2>2 DEF MakeDm
    <3>2. Dm(p) \in Dms /\ Dm(p) \in Channels
      BY <3>1, DmIsChannel DEF TypeInv, RequestInv, Dm
    <3>3. chType[Dm(p)] \in {"dm", "none"}
      BY <3>2 DEF Guarded, EntitledInv
    <3>4. chType' = [chType EXCEPT ![Dm(p)] = "dm"]
      BY <3>1 DEF InsertDm
    <3>5. TypeInv'
      BY TypeNext
    <3>6. /\ pc'[p] \in {"read", "idle", "authtype"}
          /\ todo'[p] = {}
          /\ \A c \in Conns : owner'[c] = owner[c]
          /\ \A q \in Procs \ {p} :
               /\ pc'[q] = pc[q] /\ chan'[q] = chan[q] /\ audience'[q] = audience[q]
               /\ cur'[q] = cur[q] /\ todo'[q] = todo[q]
      <4>1. CASE Return(p)
        BY <3>1, <4>1 DEF Return, Goto, TypeInv, TypeOK, Procs
      <4>2. CASE ~Return(p)
        BY <3>1, <4>2 DEF UseDm, Goto, TypeInv, TypeOK, Procs, LockInv
      <4> QED
        BY <4>1, <4>2
    <3>7. UNCHANGED <<stored, sent>>
      BY <3>1 DEF queueVars
    <3>8. chType \in [Channels -> Types \cup {"unused", "none"}]
      BY DEF TypeInv, TypeOK, StoreTypeOK
    <3>9. chType' \in [Channels -> Types \cup {"unused", "none"}]
      BY <3>5 DEF TypeInv, TypeOK, StoreTypeOK
    <3>10. \A d \in Dms : chType'[d] \in {"dm", "none"}
      BY <3>4, <3>8 DEF Channels, Guarded, EntitledInv
    <3>11. \A ch \in Channels : chType[ch] # "unused" =>
             chType'[ch] # "unused" /\ (chType'[ch] = "private" => chType[ch] = "private")
      BY <3>4, <3>8
    <3>12. /\ \A q \in Procs : pc'[q] \in Resolved => pc[q] = pc'[q] /\ chan'[q] = chan[q]
           /\ \A q \in Procs : pc'[q] \in {"rlock", "push"} =>
                audience'[q] = audience[q] /\ cur'[q] = cur[q]
           /\ \A q \in Procs : todo'[q] # {} => todo'[q] = todo[q] /\ audience'[q] = audience[q]
      BY <3>6
    <3> QED
      BY <3>1, <3>6, <3>7, <3>9, <3>10, <3>11, <3>12, GuardedTables
  <2> QED
    BY <2>1, <2>2
<1>18. ASSUME NEW p \in Procs, CastType(p)
      PROVE  Guarded'
  <2>1. CASE End(p)
    BY <2>1, ReturnReads, GuardedReads DEF End, Others
  <2>2. CASE IsPublic(chan[p]) /\ HeardBy(p, Users)
    <3>1. ~Closed(chan[p])
      BY <2>2 DEF IsPublic, Closed, Guarded, EntitledInv
    <3> QED
      BY <1>18, <2>2, <3>1, GuardedReads
      DEF CastType, HeardBy, Others, Guarded, EntitledInv, Closed, Reads, LockInv, Goto, Advance, Procs, queueVars, storeVars, TypeInv, TypeOK
  <2>3. CASE Step(p, "castmembers")
    BY <1>18, <2>3, StepReads, GuardedReads DEF CastType, Guarded, EntitledInv
  <2> QED
    BY <1>18, <2>1, <2>2, <2>3 DEF CastType
<1>19. ASSUME NEW p \in Procs, CastMembers(p)
      PROVE  Guarded'
  <2> PICK got \in SUBSET MembersOf(chan[p]) : HeardBy(p, got)
    BY <1>19 DEF CastMembers
  <2>1. /\ pc[p] = "castmembers" /\ cur[p] \in 1..Len(stored)
        /\ stored[cur[p]].ch = chan[p]
    BY <1>19 DEF CastMembers, Ordered, OrderInv
  <2>2. got \subseteq entitled[cur[p]]
    BY <2>1 DEF MembersOf, Guarded, EntitledInv
  <2> QED
    BY <2>1, <2>2, GuardedReads DEF HeardBy, Others, Guarded, EntitledInv, Reads, LockInv, Goto, Advance, Procs, queueVars, storeVars, TypeInv, TypeOK
<1>20. ASSUME NEW p \in Procs, Save(p)
      PROVE  Guarded'
  <2>1. /\ Len(stored') = Len(stored) + 1
        /\ \A k \in 1..Len(stored) : stored'[k] = stored[k]
        /\ stored'[Len(stored) + 1].ch = chan[p]
        /\ Len(stored) \in Nat
    BY <1>20, AppendProperties DEF Save, TypeInv, TypeOK
  <2>2. /\ Len(entitled') = Len(stored) + 1
        /\ \A k \in 1..Len(stored) : entitled'[k] = entitled[k]
        /\ entitled'[Len(stored) + 1] = MembersOf(chan[p])
    BY <1>20, AppendProperties DEF Save, TypeInv, TypeOK, Guarded, EntitledInv
  <2>3. /\ pc[p] = "save" /\ pc' = [pc EXCEPT ![p] = "casttype"]
        /\ cur' = [cur EXCEPT ![p] = Len(stored) + 1]
        /\ UNCHANGED <<sent, chan, todo, audience, owner, chType, members>>
    BY <1>20 DEF Save, Goto, queueVars, storeVars
  <2>4. chType[chan[p]] # "unused"
    BY <2>3 DEF Guarded, EntitledInv
  <2>5. \A k \in 1..Len(stored') : chType'[stored'[k].ch] # "unused"
    BY <2>1, <2>3, <2>4 DEF Guarded, EntitledInv
  <2>6. ASSUME NEW k \in 1..Len(stored'), NEW u \in Users, <<stored'[k].ch, u>> \in members'
        PROVE  u \in entitled'[k]
    <3>1. CASE k = Len(stored) + 1
      BY <2>1, <2>2, <2>3, <2>6, <3>1 DEF MembersOf
    <3>2. CASE k \in 1..Len(stored)
      BY <2>1, <2>2, <2>3, <2>6, <3>2 DEF Guarded, EntitledInv
    <3> QED
      BY <2>1, <3>1, <3>2
  <2>7. ASSUME NEW q \in Procs, pc'[q] \in {"rlock", "push"}, Closed(chan[q])'
        PROVE  audience'[q] \subseteq entitled'[cur'[q]]
    <3>1. pc[q] \in {"rlock", "push"} /\ q # p /\ Closed(chan[q])
      BY <2>3, <2>7 DEF TypeInv, TypeOK, Closed
    <3>2. cur'[q] = cur[q] /\ cur[q] \in 1..Len(stored)
      BY <2>3, <3>1 DEF Ordered, OrderInv
    <3> QED
      BY <2>2, <2>3, <3>1, <3>2 DEF Guarded, EntitledInv
  <2>8. EntitledInv'
    BY <2>1, <2>2, <2>3, <2>4, <2>5, <2>6, <2>7 DEF TypeInv, TypeOK, Guarded, EntitledInv
  <2>9. Confidential'
    <3>1. ASSUME NEW c \in Conns, NEW k \in 1..Len(sent[c]),
                 Closed(stored'[sent[c][k]].ch)
          PROVE  owner[c] \in entitled'[sent[c][k]]
      <4>1. sent[c][k] \in 1..Len(stored)
        BY DEF Ordered, SenderOrder
      <4>2. /\ stored'[sent[c][k]] = stored[sent[c][k]]
            /\ entitled'[sent[c][k]] = entitled[sent[c][k]]
        BY <4>1, <2>1, <2>2
      <4>3. Closed(stored[sent[c][k]].ch)
        BY <3>1, <4>2
      <4> QED
        BY <4>2, <4>3 DEF Guarded, Confidential
    <3> QED
      BY <2>3, <3>1 DEF Confidential, Closed
  <2> QED
    BY <2>8, <2>9 DEF Guarded
<1>21. ASSUME NEW p \in Procs, RLock(p)
      PROVE  Guarded'
  <2>1. /\ pc[p] = "rlock" /\ pc' = [pc EXCEPT ![p] = "push"]
        /\ todo' = [todo EXCEPT ![p] = {c \in clients : owner[c] \in audience[p]}]
        /\ UNCHANGED <<stored, entitled, sent, cur, chan, audience, owner, chType, members>>
    BY <1>21 DEF RLock, Others, Goto, queueVars, storeVars
  <2>2. \A q \in Procs : \A c \in todo'[q] : owner[c] \in audience[q]
    BY <2>1 DEF TypeInv, TypeOK, Guarded, EntitledInv
  <2>3. \A q \in Procs : pc'[q] \in Resolved => pc[q] \in Resolved
    BY <2>1 DEF TypeInv, TypeOK
  <2>4. \A q \in Procs : pc'[q] \in {"rlock", "push"} => pc[q] \in {"rlock", "push"}
    BY <2>1 DEF TypeInv, TypeOK
  <2> QED
    BY <2>1, <2>2, <2>3, <2>4 DEF Guarded, EntitledInv, Confidential, Closed
<1>22. ASSUME NEW p \in Procs, NEW c \in Conns, Push(p, c)
      PROVE  Guarded'
  <2>1. /\ pc[p] = "push" /\ c \in todo[p]
        /\ todo' = [todo EXCEPT ![p] = @ \ {c}]
        /\ UNCHANGED <<stored, entitled, pc, cur, chan, audience, owner, chType, members>>
    BY <1>22 DEF Push, storeVars
  <2>2. EntitledInv'
    BY <2>1 DEF TypeInv, TypeOK, Guarded, EntitledInv, Closed
  <2>3. ASSUME NEW d \in Conns, NEW k \in 1..Len(sent'[d]), Closed(stored[sent'[d][k]].ch)
        PROVE  owner[d] \in entitled[sent'[d][k]]
    <3>1. CASE d \in Conns /\ k \in 1..Len(sent[d]) /\ sent'[d][k] = sent[d][k]
      BY <2>3, <3>1 DEF Guarded, Confidential
    <3>2. CASE d = c /\ sent'[d][k] = cur[p]
      BY <2>1, <2>3, <3>2 DEF Guarded, EntitledInv, Ordered, OrderInv
    <3>3. sent' = sent \/ sent' = [sent EXCEPT ![c] = Append(@, cur[p])]
      BY <1>22 DEF Push
    <3>4. sent[c] \in Seq(Nat) /\ Len(sent[c]) \in Nat /\ cur[p] \in Nat
      BY LenProperties DEF TypeInv, TypeOK
    <3>5. CASE d = c /\ sent'[c] = Append(sent[c], cur[p])
      <4>1. /\ Len(sent'[c]) = Len(sent[c]) + 1 /\ sent'[c][Len(sent[c]) + 1] = cur[p]
            /\ \A i \in 1..Len(sent[c]) : sent'[c][i] = sent[c][i]
        BY <3>4, <3>5, AppendProperties
      <4> QED
        BY <2>3, <3>1, <3>2, <3>4, <3>5, <4>1
    <3>6. d # c \/ sent' = sent => sent'[d] = sent[d]
      BY <3>3 DEF TypeInv, TypeOK
    <3> QED
      BY <2>3, <3>1, <3>3, <3>5, <3>6 DEF TypeInv, TypeOK
  <2> QED
    BY <2>1, <2>2, <2>3 DEF Guarded, Confidential, Closed
<1>23. CASE Admin
  <2>1. Remember /\ UNCHANGED <<stored, sent, pc, chan, audience, cur, todo, owner>>
    BY <1>23 DEF Admin, procVars, queueVars
  <2>2. chType' \in [Channels -> Types \cup {"unused", "none"}]
    BY TypeNext DEF TypeInv, TypeOK, StoreTypeOK
  <2> DEFINE Kept ==
        /\ \A d \in Dms : chType'[d] \in {"dm", "none"}
        /\ \A ch \in Channels : chType[ch] # "unused" =>
             chType'[ch] # "unused" /\ (chType'[ch] = "private" => chType[ch] = "private")
  <2>3. Kept
    <3>1. ASSUME NEW r \in Rooms, NEW t \in {"public", "private"}, CreateChannel(r, t)
          PROVE  Kept
      BY <3>1 DEF CreateChannel, TypeInv, TypeOK, StoreTypeOK, Channels, Guarded, EntitledInv
    <3>2. ASSUME NEW ch \in Channels, DeleteChannel(ch)
          PROVE  Kept
      BY <3>2 DEF DeleteChannel, TypeInv, TypeOK, StoreTypeOK, Channels, Guarded, EntitledInv
    <3>3. CASE chType' = chType
      BY <3>3 DEF Guarded, EntitledInv
    <3> QED
      BY <1>23, <3>1, <3>2, <3>3 DEF Admin, AddMember, RemoveMember, DeleteUser
  <2> QED
    BY <2>1, <2>2, <2>3, GuardedTables
<1>24. CASE Restart
  <2>1. \A q \in Procs : pc'[q] \in {"off", "idle", "gone"} /\ todo'[q] = {}
    BY <1>24 DEF Restart
  <2>2. \A c \in Conns : owner'[c] = owner[c]
    BY <1>24 DEF Restart, Procs
  <2>3. UNCHANGED <<stored, entitled, sent, chType, members>>
    BY <1>24 DEF Restart, storeVars
  <2> QED
    BY <2>1, <2>2, <2>3 DEF Guarded, EntitledInv, Confidential, Closed
<1>25. CASE UNCHANGED vars
  BY <1>25 DEF vars, procVars, queueVars, storeVars, Guarded, EntitledInv, Confidential, Closed
<1> QED
  BY <1>1, <1>2, <1>3, <1>4, <1>5, <1>6, <1>7, <1>8, <1>9, <1>10, <1>11, <1>12, <1>13,
     <1>14, <1>15, <1>16, <1>17, <1>18, <1>19, <1>20, <1>21, <1>22, <1>23, <1>24, <1>25
  DEF Next, Progress, Connection

-----------------------------------------------------------------------------
(***************************************************************************)
(* Whom a broadcast reaches.                                               *)
(***************************************************************************)

\* While p holds the read lock, whoever it is for and is not left to reach has
\* the message, or was found full.
FanInv ==
  \A p \in Procs : pc[p] = "push" =>
    \A c \in clients : owner[c] \in audience[p] =>
      c \in todo[p] \/ Holds(c, cur[p]) \/ c \in full[p]

\* Nobody comes in, nothing is sent, and no broadcast starts or changes.
Still ==
  /\ UNCHANGED sent
  /\ clients' \subseteq clients
  /\ \A c \in clients' : owner'[c] = owner[c]
  /\ \A q \in Procs : pc'[q] = "push" =>
       /\ pc[q] = "push"
       /\ audience'[q] = audience[q] /\ cur'[q] = cur[q] /\ todo'[q] = todo[q]
       /\ full'[q] = full[q]

LEMMA StillFan == FanInv /\ Still => FanInv'
  BY DEF FanInv, Still, Holds

\* Most steps of a request are of that kind.
LEMMA StepStill ==
  ASSUME TypeInv, NEW p \in Procs, NEW label \in Labels \ {"push"}, Step(p, label)
  PROVE  Still
  BY DEF Step, Advance, Others, Goto, queueVars, Still, TypeInv, TypeOK

LEMMA ReturnStill ==
  ASSUME TypeInv, NEW p \in Procs, Return(p), UNCHANGED queueVars
  PROVE  Still
<1>1. pc'[p] # "push" /\ \A q \in Procs \ {p} : pc'[q] = pc[q]
  BY DEF Return, Goto, TypeInv, TypeOK
<1>2. \A c \in Conns : owner'[c] = owner[c]
  BY DEF Return, TypeInv, TypeOK, Procs
<1>3. \A q \in Procs \ {p} :
        /\ audience'[q] = audience[q] /\ cur'[q] = cur[q]
        /\ todo'[q] = todo[q] /\ full'[q] = full[q]
  BY DEF Return, TypeInv, TypeOK
<1>4. UNCHANGED <<sent, clients>> /\ clients \subseteq Conns
  BY DEF queueVars, TypeInv, TypeOK
<1> QED
  BY <1>1, <1>2, <1>3, <1>4 DEF Still

LEMMA FanNext == TypeInv /\ LockInv /\ FanInv /\ [Next]_vars => FanInv'
<1> SUFFICES ASSUME TypeInv, LockInv, FanInv, [Next]_vars PROVE FanInv'
  OBVIOUS
<1> USE DEF Labels, Resting, DbSteps
<1>1. ASSUME NEW c \in Conns, NEW u \in Users, Authenticate(c, u)
      PROVE  FanInv'
  BY <1>1, StillFan DEF Authenticate, Others, Goto, queueVars, Still, LockInv, TypeInv, TypeOK, Procs
<1>2. ASSUME NEW c \in Conns, NEW t \in Targets, Receive(c, t)
      PROVE  FanInv'
  BY <1>2, StillFan DEF Receive, Goto, queueVars, Still, TypeInv, TypeOK, Procs
<1>3. ASSUME NEW c \in Conns, Register(c)
      PROVE  FanInv'
  BY <1>3 DEF Register, CanLock, Readers, Advance, Goto, FanInv, TypeInv, TypeOK, Procs
<1>4. ASSUME NEW c \in Conns, Unregister(c)
      PROVE  FanInv'
  BY <1>4, StillFan DEF Unregister, Advance, Goto, Still, TypeInv, TypeOK, Procs
<1>5. ASSUME NEW c \in Conns, CloseConn(c)
      PROVE  FanInv'
  BY <1>5, StepStill, StillFan DEF CloseConn, Procs
<1>6. ASSUME NEW c \in Conns, ReadError(c)
      PROVE  FanInv'
  BY <1>6, StillFan DEF ReadError, Advance, Goto, queueVars, Still, TypeInv, TypeOK, Procs
<1>7. ASSUME NEW c \in Conns, WriteLoop(c)
      PROVE  FanInv'
  BY <1>7, StillFan DEF WriteLoop, Write, WriteError, WriterEnd, procVars, Still, TypeInv, TypeOK, Procs
<1>8. ASSUME NEW h \in Https, NEW u \in Users, NEW what \in Ops, NEW t \in Targets, Request(h, u, what, t)
      PROVE  FanInv'
  BY <1>8, StillFan DEF Request, FirstStep, Ops, Goto, queueVars, Still, TypeInv, TypeOK, Procs
<1>9. ASSUME NEW p \in Procs, ResolveChannel(p)
      PROVE  FanInv'
  BY <1>9, StepStill, ReturnStill, StillFan DEF ResolveChannel, End, Others
<1>10. ASSUME NEW p \in Procs, ResolveUser(p)
      PROVE  FanInv'
  BY <1>10, StepStill, ReturnStill, StillFan DEF ResolveUser, End, Others
<1>11. ASSUME NEW p \in Procs, AuthType(p)
      PROVE  FanInv'
  BY <1>11, StepStill, ReturnStill, StillFan DEF AuthType, AfterAuth, End, Others
<1>12. ASSUME NEW p \in Procs, AuthMember(p)
      PROVE  FanInv'
  BY <1>12, StepStill, ReturnStill, StillFan DEF AuthMember, AfterAuth, End, Others
<1>13. ASSUME NEW p \in Procs, AnswerRows(p)
      PROVE  FanInv'
  BY <1>13, ReturnStill, StillFan DEF AnswerRows, End, Others
<1>14. ASSUME NEW p \in Procs, RUnlock(p)
      PROVE  FanInv'
  BY <1>14, ReturnStill, StillFan DEF RUnlock, End, Others
<1>15. ASSUME NEW p \in Procs, DbError(p)
      PROVE  FanInv'
  BY <1>15, ReturnStill, StillFan DEF DbError
<1>16. ASSUME NEW p \in Procs, FindDm(p)
      PROVE  FanInv'
  <2>1. CASE Return(p)
    BY <1>16, <2>1, ReturnStill, StillFan DEF FindDm, UseDm, Others, Step
  <2>2. CASE ~Return(p)
    BY <1>16, <2>2, StepStill, StillFan
    DEF FindDm, UseDm, Others, Goto, queueVars, Still, TypeInv, TypeOK
  <2> QED
    BY <2>1, <2>2
<1>17. ASSUME NEW p \in Procs, MakeDm(p)
      PROVE  FanInv'
  <2>1. CASE Return(p)
    BY <1>17, <2>1, ReturnStill, StillFan DEF MakeDm, UseDm, End, Others
  <2>2. CASE ~Return(p)
    BY <1>17, <2>2, StillFan
    DEF MakeDm, UseDm, End, Goto, queueVars, Still, TypeInv, TypeOK
  <2> QED
    BY <2>1, <2>2
<1>18. ASSUME NEW p \in Procs, CastType(p)
      PROVE  FanInv'
  <2>1. CASE End(p)
    BY <2>1, ReturnStill, StillFan DEF End, Others
  <2>2. CASE HeardBy(p, Users)
    BY <2>2, StillFan DEF HeardBy, Others, Goto, queueVars, Still, TypeInv, TypeOK
  <2>3. CASE Step(p, "castmembers")
    BY <2>3, StepStill, StillFan
  <2> QED
    BY <1>18, <2>1, <2>2, <2>3 DEF CastType
<1>19. ASSUME NEW p \in Procs, CastMembers(p)
      PROVE  FanInv'
  <2> PICK got \in SUBSET MembersOf(chan[p]) : HeardBy(p, got)
    BY <1>19 DEF CastMembers
  <2> QED
    BY StillFan DEF HeardBy, Others, Goto, queueVars, Still, TypeInv, TypeOK
<1>20. ASSUME NEW p \in Procs, Save(p)
      PROVE  FanInv'
  BY <1>20, StillFan DEF Save, Goto, queueVars, Still, TypeInv, TypeOK
<1>21. ASSUME NEW p \in Procs, RLock(p)
      PROVE  FanInv'
  <2>1. /\ pc' = [pc EXCEPT ![p] = "push"]
        /\ todo' = [todo EXCEPT ![p] = {c \in clients : owner[c] \in audience[p]}]
        /\ UNCHANGED <<clients, sent, owner, audience, cur, full>>
    BY <1>21 DEF RLock, Others, Goto, queueVars
  <2> QED
    BY <2>1 DEF FanInv, Holds, TypeInv, TypeOK
<1>22. ASSUME NEW p \in Procs, NEW c \in Conns, Push(p, c)
      PROVE  FanInv'
  <2>1. /\ pc[p] = "push" /\ c \in todo[p]
        /\ todo' = [todo EXCEPT ![p] = @ \ {c}]
        /\ UNCHANGED <<clients, owner, pc, audience, cur>>
    BY <1>22 DEF Push
  <2>2. /\ sent[c] \in Seq(Nat) /\ Len(sent[c]) \in Nat
        /\ taken[c] \in Nat /\ cur[p] \in Nat
    BY LenProperties DEF TypeInv, TypeOK
  <2>3. \A d \in Conns : d # c => sent'[d] = sent[d]
    BY <1>22 DEF Push, TypeInv, TypeOK
  <2>4. \A m : Holds(c, m) => Holds(c, m)'
    <3>1. CASE sent'[c] = sent[c]
      BY <3>1 DEF Holds
    <3>2. CASE sent'[c] = Append(sent[c], cur[p])
      BY <2>2, <3>2, AppendProperties DEF Holds
    <3> QED
      BY <1>22, <3>1, <3>2 DEF Push, TypeInv, TypeOK
  <2>5. /\ \A q \in Procs : full[q] \subseteq full'[q]
        /\ Buffered(c) >= SendCap => c \in full'[p]
    BY <1>22 DEF Push, NoteFull, TypeInv, TypeOK
  <2>6. Holds(c, cur[p])' \/ c \in full'[p]
    <3>1. CASE Buffered(c) < SendCap
      <4>1. sent'[c] = Append(sent[c], cur[p])
        BY <1>22, <3>1 DEF Push, TypeInv, TypeOK
      <4>2. Len(sent'[c]) = Len(sent[c]) + 1 /\ sent'[c][Len(sent[c]) + 1] = cur[p]
        BY <2>2, <4>1, AppendProperties
      <4> QED
        BY <2>1, <2>2, <4>2 DEF Holds
    <3>2. CASE ~(Buffered(c) < SendCap)
      BY <2>2, <2>5, <3>2, MessagingAssumption DEF Buffered
    <3> QED
      BY <3>1, <3>2
  <2>7. ASSUME NEW q \in Procs, pc[q] = "push", NEW d \in clients, owner[d] \in audience[q]
        PROVE  d \in todo'[q] \/ Holds(d, cur[q])' \/ d \in full'[q]
    <3>1. d \in todo[q] \/ Holds(d, cur[q]) \/ d \in full'[q]
      BY <2>5, <2>7 DEF FanInv
    <3>2. CASE d # c
      <4>1. d \in Conns /\ sent'[d] = sent[d]
        BY <2>3, <3>2 DEF TypeInv, TypeOK
      <4>2. d \in todo[q] => d \in todo'[q]
        BY <2>1, <3>2 DEF TypeInv, TypeOK
      <4> QED
        BY <2>1, <3>1, <4>1, <4>2 DEF Holds
    <3>3. CASE d = c /\ q # p
      <4>1. todo'[q] = todo[q] /\ cur'[q] = cur[q]
        BY <2>1, <3>3 DEF TypeInv, TypeOK
      <4>2. Holds(c, cur[q]) => Holds(c, cur[q])'
        BY <2>4, <4>1 DEF Holds
      <4> QED
        BY <3>1, <3>3, <4>1, <4>2
    <3>4. CASE d = c /\ q = p
      BY <2>6, <3>4
    <3> QED
      BY <3>2, <3>3, <3>4
  <2> QED
    BY <2>1, <2>7 DEF FanInv, Holds
<1>23. CASE Admin
  BY <1>23, StillFan DEF Admin, procVars, queueVars, Still
<1>24. CASE Restart
  BY <1>24 DEF Restart, FanInv, Procs
<1>25. CASE UNCHANGED vars
  BY <1>25, StillFan DEF vars, procVars, queueVars, Still
<1> QED
  BY <1>1, <1>2, <1>3, <1>4, <1>5, <1>6, <1>7, <1>8, <1>9, <1>10, <1>11, <1>12, <1>13,
     <1>14, <1>15, <1>16, <1>17, <1>18, <1>19, <1>20, <1>21, <1>22, <1>23, <1>24, <1>25
  DEF Next, Progress, Connection

-----------------------------------------------------------------------------
(***************************************************************************)
(* What a connection leaves behind.                                        *)
(***************************************************************************)

\* Whoever has left is not in the table; a write loop that runs can be told to
\* end: by closing the Send of a connection in the table, or that is closed.
WriterInv ==
  \A c \in Conns :
    /\ pc[c] \in {"close", "gone"} => c \notin clients
    /\ writer[c] = "run" => c \in clients \/ closed[c]

\* After its reader is gone, a connection's write loop has ended or can end: its
\* Send is closed.
NoneLeftWriting ==
  \A c \in Conns : pc[c] \in {"close", "gone"} /\ writer[c] = "run" => closed[c]

\* A step that does not touch the connections, and that nobody leaves by.
Apart ==
  /\ UNCHANGED queueVars
  /\ \A c \in Conns : pc'[c] \in {"close", "gone"} => pc[c] \in {"close", "gone"}

LEMMA ApartWriters == WriterInv /\ Apart => WriterInv'
  BY DEF WriterInv, Apart, queueVars

LEMMA StepApart ==
  ASSUME TypeInv, NEW p \in Procs, NEW label \in Labels \ {"close", "gone"}, Step(p, label)
  PROVE  Apart
  BY DEF Step, Advance, Others, Goto, Apart, TypeInv, TypeOK, Procs

LEMMA ReturnApart ==
  ASSUME TypeInv, NEW p \in Procs, Return(p), UNCHANGED queueVars
  PROVE  Apart
  BY DEF Return, Goto, Apart, TypeInv, TypeOK, Procs

\* A request's steps leave the connections alone, or add to what is sent.
LEMMA ProgressWriters ==
  ASSUME TypeInv, WriterInv, NEW p \in Procs, Progress(p)
  PROVE  WriterInv'
<1> USE DEF Labels, Resting, DbSteps
<1>1. CASE ResolveChannel(p) \/ ResolveUser(p)
  BY <1>1, StepApart, ReturnApart, ApartWriters DEF ResolveChannel, ResolveUser, End, Others
<1>2. CASE FindDm(p)
  <2>1. CASE Return(p)
    BY <1>2, <2>1, ReturnApart, ApartWriters DEF FindDm, UseDm, Others, Step
  <2>2. CASE ~Return(p)
    BY <1>2, <2>2, StepApart, ApartWriters
    DEF FindDm, UseDm, Others, Goto, Apart, TypeInv, TypeOK, Procs
  <2> QED
    BY <2>1, <2>2
<1>3. CASE MakeDm(p)
  <2>1. CASE Return(p)
    BY <1>3, <2>1, ReturnApart, ApartWriters DEF MakeDm, UseDm, End, Others
  <2>2. CASE ~Return(p)
    BY <1>3, <2>2, ApartWriters
    DEF MakeDm, UseDm, End, Goto, Apart, TypeInv, TypeOK, Procs
  <2> QED
    BY <2>1, <2>2
<1>4. CASE AuthType(p) \/ AuthMember(p) \/ AnswerRows(p)
  BY <1>4, StepApart, ReturnApart, ApartWriters
  DEF AuthType, AuthMember, AnswerRows, AfterAuth, End, Others
<1>5. CASE Save(p)
  BY <1>5, ApartWriters DEF Save, Goto, Apart, TypeInv, TypeOK, Procs
<1>6. CASE CastType(p)
  <2>1. CASE HeardBy(p, Users)
    BY <2>1, ApartWriters DEF HeardBy, Others, Goto, Apart, TypeInv, TypeOK, Procs
  <2>2. CASE End(p) \/ Step(p, "castmembers")
    BY <2>2, StepApart, ReturnApart, ApartWriters DEF End, Others
  <2> QED
    BY <1>6, <2>1, <2>2 DEF CastType
<1>7. CASE CastMembers(p)
  <2> PICK got \in SUBSET MembersOf(chan[p]) : HeardBy(p, got)
    BY <1>7 DEF CastMembers
  <2> QED
    BY ApartWriters DEF HeardBy, Others, Goto, Apart, TypeInv, TypeOK, Procs
<1>8. CASE RLock(p)
  BY <1>8, ApartWriters DEF RLock, Others, Goto, Apart, TypeInv, TypeOK, Procs
<1>9. CASE RUnlock(p)
  BY <1>9, ReturnApart, ApartWriters DEF RUnlock, End, Others
<1>10. CASE \E c \in Conns : Push(p, c)
  BY <1>10 DEF Push, WriterInv
<1> QED
  BY <1>1, <1>2, <1>3, <1>4, <1>5, <1>6, <1>7, <1>8, <1>9, <1>10 DEF Progress

LEMMA WritersNext == TypeInv /\ LockInv /\ WriterInv /\ [Next]_vars => WriterInv'
<1> SUFFICES ASSUME TypeInv, LockInv, WriterInv, [Next]_vars PROVE WriterInv'
  OBVIOUS
<1> USE DEF Labels, Resting, DbSteps
<1>1. ASSUME NEW c \in Conns, NEW u \in Users, Authenticate(c, u)
      PROVE  WriterInv'
  BY <1>1, ApartWriters DEF Authenticate, Others, Goto, Apart, TypeInv, TypeOK, Procs
<1>2. ASSUME NEW c \in Conns, NEW t \in Targets, Receive(c, t)
      PROVE  WriterInv'
  BY <1>2, ApartWriters DEF Receive, Goto, Apart, TypeInv, TypeOK, Procs
<1>3. ASSUME NEW c \in Conns, Register(c)
      PROVE  WriterInv'
  BY <1>3 DEF Register, Advance, Goto, WriterInv, TypeInv, TypeOK, Procs
<1>4. ASSUME NEW c \in Conns, Unregister(c)
      PROVE  WriterInv'
  BY <1>4 DEF Unregister, Advance, Goto, WriterInv, TypeInv, TypeOK, Procs
<1>5. ASSUME NEW c \in Conns, CloseConn(c)
      PROVE  WriterInv'
  BY <1>5 DEF CloseConn, Step, Advance, Others, Goto, queueVars, WriterInv, TypeInv, TypeOK, Procs
<1>6. ASSUME NEW c \in Conns, ReadError(c)
      PROVE  WriterInv'
  BY <1>6, ApartWriters DEF ReadError, Advance, Goto, Apart, TypeInv, TypeOK, Procs
<1>7. ASSUME NEW c \in Conns, WriteLoop(c)
      PROVE  WriterInv'
  BY <1>7 DEF WriteLoop, Write, WriteError, WriterEnd, procVars, WriterInv, TypeInv, TypeOK
<1>8. ASSUME NEW h \in Https, NEW u \in Users, NEW what \in Ops, NEW t \in Targets, Request(h, u, what, t)
      PROVE  WriterInv'
  BY <1>8, ApartWriters DEF Request, FirstStep, Ops, Goto, Apart, TypeInv, TypeOK, Procs
<1>9. ASSUME NEW p \in Procs, DbError(p)
      PROVE  WriterInv'
  BY <1>9, ReturnApart, ApartWriters DEF DbError
<1>10. CASE Admin
  BY <1>10, ApartWriters DEF Admin, procVars, Apart
<1>11. CASE Restart
  BY <1>11 DEF Restart, WriterInv, TypeInv, TypeOK
<1>12. CASE UNCHANGED vars
  BY <1>12, ApartWriters DEF vars, procVars, Apart
<1> QED
  BY <1>1, <1>2, <1>3, <1>4, <1>5, <1>6, <1>7, <1>8, <1>9, <1>10, <1>11, <1>12, ProgressWriters
  DEF Next, Connection

-----------------------------------------------------------------------------
(***************************************************************************)
(* The theorems                                                            *)
(***************************************************************************)
IInv == TypeInv /\ LockInv /\ Ordered /\ Guarded /\ FanInv /\ WriterInv

\* The inductive invariant holds of every behaviour of the service.
THEOREM Invariance == Spec => []IInv
<1>1. Init => IInv
  <2>1. Init => FanInv /\ WriterInv
    BY DEF Init, FanInv, WriterInv, Procs
  <2> QED
    BY <2>1, TypeInit, LockInit, OrderInit, GuardedInit DEF IInv
<1>2. IInv /\ [Next]_vars => IInv'
  BY TypeNext, LockNext, OrderNext, GuardedNext, FanNext, WritersNext DEF IInv
<1> QED
  BY <1>1, <1>2, PTL DEF Spec

\* Every variable of the messaging service keeps its type, whatever the
\* handlers, the admin API and restarts do.
THEOREM TypeCorrect == Spec => []TypeOK
<1>1. IInv => TypeOK
  BY DEF IInv, TypeInv
<1> QED
  BY <1>1, Invariance, PTL

\* Broadcast never sends on a channel that Unregister closed.
THEOREM SendsAreSafe == Spec => []NoSendOnClosed
<1>1. IInv => NoSendOnClosed
  BY DEF IInv, LockInv, NoSendOnClosed, TypeInv, TypeOK
<1> QED
  BY <1>1, Invariance, PTL

\* Broadcast delivers what one sender stored in order and at most once.
THEOREM OrderKept == Spec => []SenderOrder
<1>1. IInv => SenderOrder
  BY DEF IInv, Ordered
<1> QED
  BY <1>1, Invariance, PTL

\* Broadcast delivers what is not public only to members since it was stored.
THEOREM MembersOnly == Spec => []Confidential
<1>1. IInv => Confidential
  BY DEF IInv, Guarded
<1> QED
  BY <1>1, Invariance, PTL

\* When Broadcast lets go of the read lock, every connection it was for has the
\* message or had a full buffer when the broadcast came to it, whoever came, went,
\* sent or read meanwhile.
THEOREM NobodyMissed == Spec => FanOut
<1>1. IInv => \A p \in Procs : RUnlock(p) => Reached(p)
  BY DEF IInv, FanInv, RUnlock, Reached
<1>2. IInv => [\A p \in Procs : RUnlock(p) => Reached(p)]_vars
  BY <1>1
<1> QED
  BY <1>2, Invariance, PTL DEF FanOut

\* Once its reader is gone (the deferred calls of HandleWS), a connection's write
\* loop has ended or its Send is closed, so that it will: no goroutine is left
\* waiting for a channel that nobody closes.
THEOREM WritersReleased == Spec => []NoneLeftWriting
<1>1. IInv => NoneLeftWriting
  BY DEF IInv, WriterInv, NoneLeftWriting
<1> QED
  BY <1>1, Invariance, PTL
=============================================================================

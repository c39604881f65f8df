--------------------------- MODULE PlatformProofs ---------------------------
(***************************************************************************)
(* Proofs about Platform, for any number of users, roles, departments,     *)
(* names, administrators and requests, and any order of the starts.        *)
(***************************************************************************)
EXTENDS Platform, TLAPS

-----------------------------------------------------------------------------
(***************************************************************************)
(* The tables: whose they are, and which a service has seen to.            *)
(***************************************************************************)

Own(s) == {Statements[s][i] : i \in 1..Len(Statements[s])}

\* A table is of a service that has a statement for it; what a service has run
\* a statement for is there.
StartupInv ==
  /\ \A t \in Tables : creator[t] # "nobody" => t \in Own(creator[t])
  /\ \A s \in Services : \A i \in 1..step[s] : creator[Statements[s][i]] # "nobody"

LEMMA StatementTables ==
  ASSUME NEW s \in Services
  PROVE  /\ Len(Statements[s]) \in Nat
         /\ \A i \in 1..Len(Statements[s]) : Statements[s][i] \in Tables
  <1>1. Len(Statements[s]) \in Nat
    BY DEF Services, Statements
  <1> QED
    BY <1>1 DEF Tables

\* Whose each table can be.
LEMMA Owners ==
  /\ "users" \in Tables /\ "roles" \in Tables
  /\ "channels" \in Tables /\ "channel_members" \in Tables
  /\ "users" \notin Own("messaging") /\ "roles" \notin Own("messaging")
  /\ "channels" \notin Own("auth") /\ "channel_members" \notin Own("auth")
  <1>1. /\ Statements["auth"] = <<"roles", "users">>
        /\ Statements["messaging"] = <<"channels", "channel_members", "messages">>
        /\ Len(Statements["auth"]) = 2 /\ Len(Statements["messaging"]) = 3
    BY DEF Statements
  <1>2. "auth" \in Services /\ "messaging" \in Services
    BY DEF Services
  <1>3. "users" \in Tables /\ "roles" \in Tables
    <2>1. \A i \in 1..Len(Statements["auth"]) : Statements["auth"][i] \in Tables
      BY <1>2, StatementTables
    <2>2. 1 \in 1..2 /\ 2 \in 1..2
      OBVIOUS
    <2> QED
      BY <1>1, <2>1, <2>2
  <1>4. "channels" \in Tables /\ "channel_members" \in Tables
    <2>1. \A i \in 1..Len(Statements["messaging"]) : Statements["messaging"][i] \in Tables
      BY <1>2, StatementTables
    <2>2. 1 \in 1..3 /\ 2 \in 1..3
      OBVIOUS
    <2> QED
      BY <1>1, <2>1, <2>2
  <1>5. \A i \in 1..2 : Statements["auth"][i] \in {"roles", "users"}
    BY <1>1
  <1>6. \A i \in 1..3 : Statements["messaging"][i] \in {"channels", "channel_members", "messages"}
    BY <1>1
  <1> QED
    BY <1>1, <1>3, <1>4, <1>5, <1>6 DEF Own

LEMMA StartupInitInv == StartupInit => StartupTypeOK /\ StartupInv
  <1> SUFFICES ASSUME StartupInit PROVE StartupTypeOK /\ StartupInv
    OBVIOUS
  <1>1. \A s \in Services : 0 \in 0..Len(Statements[s]) /\ step[s] = 0
    <2>1. ASSUME NEW s \in Services PROVE 0 \in 0..Len(Statements[s]) /\ step[s] = 0
      <3>1. PICK n \in Nat : n = Len(Statements[s])
        BY StatementTables
      <3> QED
        BY <3>1 DEF StartupInit
    <2> QED
      BY <2>1
  <1> QED
    BY <1>1 DEF StartupInit, StartupTypeOK, StartupInv

LEMMA CreateInv ==
  ASSUME StartupTypeOK, StartupInv, NEW s \in Services, Create(s)
  PROVE  StartupTypeOK' /\ StartupInv'
  <1>1. PICK n \in Nat : n = step[s]
    BY DEF StartupTypeOK
  <1>2. n + 1 \in 1..Len(Statements[s])
    BY <1>1, StatementTables DEF Create, Up, StartupTypeOK
  <1>3. PICK t \in Tables : t = Statements[s][n + 1]
    BY <1>2, StatementTables
  <1>4. PICK w : w = IF creator[t] = "nobody" THEN s ELSE creator[t]
    OBVIOUS
  <1>5. creator' = [creator EXCEPT ![t] = w] /\ step' = [step EXCEPT ![s] = n + 1]
    BY <1>1, <1>3, <1>4 DEF Create
  <1>6. /\ creator \in [Tables -> Services \cup {"nobody"}] /\ step \in [Services -> Nat]
        /\ w \in Services /\ w # "nobody"
    BY <1>4 DEF StartupTypeOK, Services
  <1>7. StartupTypeOK'
    BY <1>2, <1>5, <1>6 DEF StartupTypeOK
  <1>8. creator'[t] = w /\ \A u \in Tables \ {t} : creator'[u] = creator[u]
    BY <1>5, <1>6
  <1>9. t \in Own(w)
    BY <1>2, <1>3, <1>4 DEF Own, StartupInv
  <1>10. ASSUME NEW u \in Tables, creator'[u] # "nobody" PROVE u \in Own(creator'[u])
    BY <1>8, <1>9, <1>10 DEF StartupInv
  <1>11. ASSUME NEW v \in Services, NEW i \in 1..step'[v]
         PROVE  creator'[Statements[v][i]] # "nobody"
    <2>1. CASE v = s /\ i = n + 1
      BY <1>3, <1>6, <1>8, <2>1
    <2>2. CASE ~ (v = s /\ i = n + 1)
      <3>1. i \in 1..step[v]
        BY <1>1, <1>5, <1>6, <1>11, <2>2
      <3>2. i \in 1..Len(Statements[v])
        BY <3>1, StatementTables DEF StartupTypeOK
      <3>3. Statements[v][i] \in Tables /\ creator[Statements[v][i]] # "nobody"
        BY <3>1, <3>2, StatementTables DEF StartupInv
      <3> QED
        BY <1>6, <1>8, <3>3
    <2> QED
      BY <2>1, <2>2
  <1> QED
    BY <1>7, <1>10, <1>11 DEF StartupInv, Own

LEMMA StartAgainInv ==
  ASSUME StartupTypeOK, StartupInv, NEW s \in Services, StartAgain(s)
  PROVE  StartupTypeOK' /\ StartupInv'
  <1>1. step \in [Services -> Nat] /\ step' = [step EXCEPT ![s] = 0] /\ creator' = creator
    BY DEF StartAgain, StartupTypeOK
  <1>2. 0 \in 0..Len(Statements[s])
    BY StatementTables
  <1> QED
    BY <1>1, <1>2 DEF StartupTypeOK, StartupInv, Own

\* The statement for a table of a service that is up has been run.
LEMMA TablesThere ==
  ASSUME StartupTypeOK, StartupInv, NEW s \in Services, Up(s), NEW t \in Own(s)
  PROVE  creator[t] # "nobody"
  BY DEF Up, Own, StartupInv

LEMMA StoreInv ==
  ASSUME StartupTypeOK, StartupInv
  PROVE  WhoCanStore
  <1>1. /\ creator["users"] \in {"auth", "admin", "nobody"}
        /\ creator["roles"] \in {"auth", "admin", "nobody"}
        /\ creator["channels"] \in {"messaging", "admin", "nobody"}
        /\ creator["channel_members"] \in {"messaging", "admin", "nobody"}
    BY Owners DEF StartupTypeOK, StartupInv, Services
  <1>2. /\ Up("auth") => creator["users"] # "nobody"
        /\ Up("admin") => creator["users"] # "nobody" /\ creator["roles"] # "nobody"
        /\ Up("messaging") \/ Up("admin") =>
             creator["channels"] # "nobody" /\ creator["channel_members"] # "nobody"
    <2>1. /\ Statements["auth"][2] = "users" /\ Len(Statements["auth"]) = 2
          /\ Statements["messaging"][1] = "channels" /\ Len(Statements["messaging"]) = 3
          /\ Statements["messaging"][2] = "channel_members"
          /\ Len(Statements["admin"]) = 8 /\ Statements["admin"][2] = "roles"
          /\ Statements["admin"][4] = "channels" /\ Statements["admin"][5] = "channel_members"
          /\ Statements["admin"][6] = "users"
      BY DEF Statements
    <2>2. /\ "users" \in Own("auth") /\ "users" \in Own("admin") /\ "roles" \in Own("admin")
          /\ "channels" \in Own("messaging") /\ "channel_members" \in Own("messaging")
          /\ "channels" \in Own("admin") /\ "channel_members" \in Own("admin")
      BY <2>1 DEF Own
    <2>3. "auth" \in Services /\ "messaging" \in Services /\ "admin" \in Services
      BY DEF Services
    <2> QED
      BY <2>2, <2>3, TablesThere
  <1>3. ASSUME creator["users"] \in {"auth", "admin"} PROVE Fits("auth", "users") /\ Fits("admin", "users")
    BY <1>3 DEF Fits, Required, Given, Columns
  <1>4. ASSUME creator["roles"] \in {"auth", "admin"} PROVE Fits("admin", "roles")
    BY <1>4 DEF Fits, Required, Given, Columns
  <1>5. ASSUME creator["channels"] \in {"messaging", "admin"}, NEW s \in {"messaging", "admin"}
        PROVE  Fits(s, "channels") <=> creator["channels"] = s
    BY <1>5 DEF Fits, Required, Given, Columns
  <1>6. ASSUME creator["channel_members"] \in {"messaging", "admin"}, NEW s \in {"messaging", "admin"}
        PROVE  Fits(s, "channel_members") <=> creator["channel_members"] = s
    BY <1>6 DEF Fits, Required, Given, Columns
  <1> QED
    BY <1>1, <1>2, <1>3, <1>4, <1>5, <1>6 DEF WhoCanStore

-----------------------------------------------------------------------------
(***************************************************************************)
(* The directory: what its rows and the requests under way have to do with *)
(* one another.                                                            *)
(***************************************************************************)

Unique == \A u, v \in Rows(user) : user[u].name = user[v].name => u = v

\* What a request under way can rely on.
LateInv(q) == q.at = "delete" /\ q.count = "zero" =>
                \A u \in Rows(user) : user[u].dept = q.dept => u \in q.late
UpdateInv(q) == q.at \in {"perms", "answer"} /\ q.excuse = "none" =>
                  /\ q.role \in Rows(role)
                  /\ q.name \in {Keep, role[q.role].name}
                  /\ q.at = "answer" => q.perms \in {Keep, role[q.role].perms}
ReqInv(q) == LateInv(q) /\ UpdateInv(q)

AdminsInv == FirstAdmin /\ (admins # << >> => Default \in AdminNames)

TablesTypeOK ==
  /\ user \in [Users -> UserRow \cup NoRow]
  /\ role \in [Roles -> RoleRow \cup NoRow]
  /\ dept \in [Depts -> {There} \cup NoRow]
  /\ admins \in Seq(AdminRow)
  /\ req \in [Reqs -> Pending]

\* All but the counters and where the services are in their mains.
DataInv ==
  /\ TablesTypeOK
  /\ Unique /\ AdminsInv
  /\ \A r \in Reqs : ReqInv(req[r])

LEMMA DataStays ==
  ASSUME DataInv, UNCHANGED <<tables, req>>
  PROVE  DataInv'
  BY DEF DataInv, TablesTypeOK, Unique, AdminsInv, FirstAdmin, AdminNames, ReqInv,
     LateInv, UpdateInv, tables, Rows

\* What kind of request is under way is seen from where it is.
LEMMA Kinds ==
  ASSUME NEW q \in Pending
  PROVE  /\ q.at = "delete" => q \in DeleteReq
         /\ q.at \in {"perms", "answer"} => q \in UpdateReq
         /\ q.at \in {"idle", "delete", "perms", "answer"}
  BY DEF Pending, Idle, DeleteReq, UpdateReq

\* A request moves on, and nothing else does but its department.
LEMMA MoveInv ==
  ASSUME DataInv, NEW r \in Reqs, NEW q \in Pending, ReqInv(q),
         req' = [req EXCEPT ![r] = q], UNCHANGED <<user, role, admins>>,
         dept' \in [Depts -> {There} \cup NoRow]
  PROVE  DataInv'
  <1>1. TablesTypeOK'
    BY DEF DataInv, TablesTypeOK
  <1>2. Unique' /\ AdminsInv'
    BY DEF DataInv, Unique, AdminsInv, FirstAdmin, AdminNames, Rows
  <1>3. req'[r] = q /\ \A s \in Reqs \ {r} : req'[s] = req[s]
    BY DEF DataInv, TablesTypeOK
  <1>4. ASSUME NEW s \in Reqs PROVE ReqInv(req[s])'
    <2>1. PICK p : p = req'[s]
      OBVIOUS
    <2>2. ReqInv(p)
      BY <1>3, <2>1 DEF DataInv
    <2> QED
      BY <2>1, <2>2 DEF ReqInv, LateInv, UpdateInv, Rows
  <1> QED
    BY <1>1, <1>2, <1>4 DEF DataInv

\* A user's row is written: the name is free, and those who count its
\* department hear of it.
LEMMA PutUserInv ==
  ASSUME DataInv, NEW u \in Users, NEW row \in UserRow, PutUser(u, row),
         UNCHANGED <<role, dept, admins>>
  PROVE  DataInv'
  <1>1. /\ user \in [Users -> UserRow \cup NoRow]
        /\ req \in [Reqs -> Pending] /\ row.name \in Names
    BY DEF DataInv, TablesTypeOK, UserRow
  <1>2. PICK n \in Names : n = row.name
    BY <1>1
  <1>3. user' = [user EXCEPT ![u] = row]
    BY DEF PutUser
  <1>4. /\ user'[u] = row /\ \A v \in Users \ {u} : user'[v] = user[v]
        /\ user' \in [Users -> UserRow \cup NoRow]
    BY <1>1, <1>3
  <1>5. /\ \A v \in Rows(user)' : v \in Users /\ (v = u \/ v \in Rows(user))
        /\ \A v \in Rows(user) : v \in Users /\ user[v] \in UserRow
    BY <1>1, <1>4 DEF Rows
  <1>6. \A v \in Rows(user) : user[v].name = n => v = u
    BY <1>2 DEF PutUser, Free, UserOf
  <1>7. Unique'
    <2>1. ASSUME NEW v \in Rows(user)', NEW w \in Rows(user)', user'[v].name = user'[w].name
          PROVE  v = w
      <3>1. CASE v = u
        BY <1>2, <1>4, <1>5, <1>6, <2>1, <3>1
      <3>2. CASE w = u
        BY <1>2, <1>4, <1>5, <1>6, <2>1, <3>2
      <3>3. CASE v # u /\ w # u
        BY <1>4, <1>5, <2>1, <3>3 DEF DataInv, Unique
      <3> QED
        BY <3>1, <3>2, <3>3
    <2> QED
      BY <2>1 DEF Unique
  <1>8. ASSUME NEW r \in Reqs PROVE req'[r] \in Pending /\ ReqInv(req[r])'
    <2>1. PICK q \in Pending : q = req[r]
      BY <1>1
    <2>2. ReqInv(q)
      BY <2>1 DEF DataInv
    <2>3. CASE ~ (q.at = "delete" /\ q.dept = row.dept)
      <3>1. req'[r] = q
        BY <2>1, <2>3 DEF PutUser
      <3>2. LateInv(q)'
        BY <1>4, <1>5, <2>2, <2>3 DEF ReqInv, LateInv
      <3>3. UpdateInv(q)'
        BY <2>2 DEF ReqInv, UpdateInv, Rows
      <3> QED
        BY <3>1, <3>2, <3>3 DEF ReqInv, LateInv, UpdateInv
    <2>4. CASE q.at = "delete" /\ q.dept = row.dept
      <3>1. PICK l : l = q.late \cup {u}
        OBVIOUS
      <3>2. PICK p : p = [q EXCEPT !.late = l]
        OBVIOUS
      <3>3. req'[r] = p
        BY <2>1, <2>4, <3>1, <3>2 DEF PutUser
      <3>4. q \in DeleteReq /\ l \in SUBSET Users
        BY <2>4, <3>1, Kinds DEF DeleteReq
      <3>5. /\ p \in DeleteReq /\ p.at = "delete" /\ p.late = l /\ p.dept = q.dept
            /\ p.count = q.count
        BY <3>2, <3>4 DEF DeleteReq
      <3>6. LateInv(p)'
        BY <1>4, <1>5, <2>2, <2>4, <3>1, <3>5 DEF ReqInv, LateInv
      <3>7. UpdateInv(p)'
        BY <3>5 DEF UpdateInv
      <3> QED
        BY <3>3, <3>5, <3>6, <3>7 DEF ReqInv, LateInv, UpdateInv, Pending
    <2> QED
      BY <2>3, <2>4
  <1>9. req' \in [Reqs -> Pending]
    <2>1. req' = [r \in Reqs |-> req'[r]]
      BY DEF PutUser
    <2> QED
      BY <1>8, <2>1
  <1>10. TablesTypeOK' /\ AdminsInv'
    BY <1>4, <1>9 DEF DataInv, TablesTypeOK, AdminsInv, FirstAdmin, AdminNames
  <1> QED
    BY <1>7, <1>8, <1>10 DEF DataInv

LEMMA UserDeleteInv ==
  ASSUME DataInv, UserDelete
  PROVE  DataInv'
  <1>1. PICK u \in Rows(user) : user' = [user EXCEPT ![u] = Gone]
    BY DEF UserDelete
  <1>2. user \in [Users -> UserRow \cup NoRow]
    BY DEF DataInv, TablesTypeOK
  <1>3. /\ user' \in [Users -> UserRow \cup NoRow]
        /\ \A v \in Rows(user)' : v \in Rows(user) /\ user'[v] = user[v]
    BY <1>1, <1>2 DEF Rows, NoRow
  <1>4. /\ UNCHANGED <<role, dept, admins, req>>
    BY DEF UserDelete
  <1>5. TablesTypeOK' /\ Unique' /\ AdminsInv'
    BY <1>3, <1>4 DEF DataInv, TablesTypeOK, Unique, AdminsInv, FirstAdmin, AdminNames
  <1>6. ASSUME NEW r \in Reqs PROVE ReqInv(req[r])'
    <2>1. PICK q : q = req[r]
      OBVIOUS
    <2>2. ReqInv(q)
      BY <2>1 DEF DataInv
    <2>3. LateInv(q)' /\ UpdateInv(q)'
      BY <1>3, <1>4, <2>2 DEF ReqInv, LateInv, UpdateInv
    <2> QED
      BY <1>4, <2>1, <2>3 DEF ReqInv, LateInv, UpdateInv
  <1> QED
    BY <1>4, <1>5, <1>6 DEF DataInv

\* A role's row is not that of an id without one.
LEMMA RowsDiffer ==
  ASSUME NEW row \in RoleRow
  PROVE  row \notin NoRow
  <1>1. DOMAIN row = {"name", "perms"} /\ DOMAIN Unused = {"row"} /\ DOMAIN Gone = {"row"}
    BY DEF RoleRow, Unused, Gone
  <1>2. "name" \in DOMAIN row /\ "name" \notin DOMAIN Unused /\ "name" \notin DOMAIN Gone
    BY <1>1
  <1> QED
    BY <1>2 DEF NoRow

\* A role's row is written or deleted: the others who are at it know.
LEMMA PutRoleInv ==
  ASSUME DataInv, NEW x \in Rows(role), NEW row \in RoleRow \cup NoRow, NEW mine,
         NEW next \in Pending, PutRole(x, row, mine, next), ReqInv(next)',
         UNCHANGED <<user, dept, admins>>
  PROVE  DataInv'
  <1>1. role \in [Roles -> RoleRow \cup NoRow] /\ req \in [Reqs -> Pending] /\ x \in Roles
    BY DEF DataInv, TablesTypeOK, Rows
  <1>2. role' = [role EXCEPT ![x] = row]
    BY DEF PutRole
  <1>3. /\ role' \in [Roles -> RoleRow \cup NoRow]
        /\ \A y \in Roles \ {x} : role'[y] = role[y]
    BY <1>1, <1>2
  <1>4. \A y \in Rows(role) : y # x => y \in Rows(role)' /\ role'[y] = role[y]
    BY <1>1, <1>3 DEF Rows
  <1>5. ASSUME NEW r \in Reqs PROVE req'[r] \in Pending /\ ReqInv(req[r])'
    <2>1. PICK q \in Pending : q = req[r]
      BY <1>1
    <2>2. ReqInv(q)
      BY <2>1 DEF DataInv
    <2>3. CASE r = mine
      <3>1. req'[r] = next
        BY <2>3 DEF PutRole
      <3> QED
        BY <3>1 DEF ReqInv, LateInv, UpdateInv
    <2>4. CASE r # mine /\ ~ (q.at \in {"perms", "answer"} /\ q.role = x)
      <3>1. req'[r] = q
        BY <2>1, <2>4 DEF PutRole
      <3>2. LateInv(q)'
        BY <2>2 DEF ReqInv, LateInv, Rows
      <3>3. UpdateInv(q)'
        BY <1>4, <2>2, <2>4 DEF ReqInv, UpdateInv
      <3> QED
        BY <3>1, <3>2, <3>3 DEF ReqInv, LateInv, UpdateInv
    <2>5. CASE r # mine /\ q.at \in {"perms", "answer"} /\ q.role = x
      <3>1. PICK p : p = [q EXCEPT !.excuse = "met"]
        OBVIOUS
      <3>2. req'[r] = p
        BY <2>1, <2>5, <3>1 DEF PutRole
      <3>3. q \in UpdateReq
        BY <2>5, Kinds
      <3>4. p \in UpdateReq /\ p.at = q.at /\ p.excuse = "met"
        BY <3>1, <3>3 DEF UpdateReq
      <3>5. LateInv(p)' /\ UpdateInv(p)'
        BY <2>5, <3>4 DEF LateInv, UpdateInv
      <3> QED
        BY <3>2, <3>4, <3>5 DEF ReqInv, LateInv, UpdateInv, Pending
    <2> QED
      BY <2>3, <2>4, <2>5
  <1>6. req' \in [Reqs -> Pending]
    <2>1. req' = [r \in Reqs |-> req'[r]]
      BY DEF PutRole
    <2> QED
      BY <1>5, <2>1
  <1>7. TablesTypeOK' /\ Unique' /\ AdminsInv' 
    BY <1>3, <1>6
    DEF DataInv, TablesTypeOK, Unique, AdminsInv, FirstAdmin, AdminNames, Rows
  <1> QED
    BY <1>5, <1>7 DEF DataInv

LEMMA RoleCreateInv ==
  ASSUME DataInv, RoleCreate
  PROVE  DataInv'
  <1>1. PICK x \in Roles, n \in RoleNames, p \in Perms :
          /\ role[x] = Unused
          /\ role' = [role EXCEPT ![x] = [name |-> n, perms |-> p]]
    BY DEF RoleCreate
  <1>2. /\ role \in [Roles -> RoleRow \cup NoRow] /\ [name |-> n, perms |-> p] \in RoleRow
    BY DEF DataInv, TablesTypeOK, RoleRow
  <1>3. /\ role' \in [Roles -> RoleRow \cup NoRow]
        /\ \A y \in Roles \ {x} : role'[y] = role[y]
    BY <1>1, <1>2
  <1>4. \A y \in Rows(role) : y \in Rows(role)' /\ role'[y] = role[y]
    BY <1>1, <1>2, <1>3 DEF Rows, NoRow
  <1>5. UNCHANGED <<user, dept, admins, req>>
    BY DEF RoleCreate
  <1>6. TablesTypeOK' /\ Unique' /\ AdminsInv' 
    BY <1>3, <1>5
    DEF DataInv, TablesTypeOK, Unique, AdminsInv, FirstAdmin, AdminNames, Rows
  <1>7. ASSUME NEW r \in Reqs PROVE ReqInv(req[r])'
    <2>1. PICK q : q = req[r]
      OBVIOUS
    <2>2. ReqInv(q)
      BY <2>1 DEF DataInv
    <2>3. LateInv(q)'
      BY <1>5, <2>2 DEF ReqInv, LateInv, Rows
    <2>4. UpdateInv(q)'
      BY <1>4, <2>2 DEF ReqInv, UpdateInv
    <2> QED
      BY <1>5, <2>1, <2>3, <2>4 DEF ReqInv, LateInv, UpdateInv
  <1> QED
    BY <1>6, <1>7 DEF DataInv

\* An administrator is added, with the default password only as the first.
LEMMA AdminsStep ==
  ASSUME DataInv, NEW e \in AdminRow, e.made = "default" <=> admins = << >>,
         e.made = "default" => e.name = Default,
         admins' = Append(admins, e), UNCHANGED <<user, role, dept, req>>
  PROVE  DataInv'
  <1>1. PICK n \in Nat : n = Len(admins)
    BY DEF DataInv, TablesTypeOK
  <1>2. /\ admins' \in Seq(AdminRow) /\ Len(admins') = n + 1 /\ admins'[n + 1] = e
        /\ \A i \in 1..n : admins'[i] = admins[i]
    BY <1>1 DEF DataInv, TablesTypeOK
  <1>3. admins = << >> <=> n = 0
    BY <1>1 DEF DataInv, TablesTypeOK
  <1>4. FirstAdmin'
    <2>1. ASSUME NEW i \in 1..(n + 1) PROVE admins'[i].made = "default" <=> i = 1
      <3>1. CASE i = n + 1
        BY <1>2, <1>3, <3>1
      <3>2. CASE i \in 1..n
        BY <1>1, <1>2, <3>2 DEF DataInv, AdminsInv, FirstAdmin
      <3>3. i = n + 1 \/ i \in 1..n
        OBVIOUS
      <3> QED
        BY <3>1, <3>2, <3>3
    <2> QED
      BY <1>2, <2>1 DEF FirstAdmin
  <1>5. Default \in AdminNames'
    <2>1. CASE n = 0
      BY <1>2, <1>3, <2>1 DEF AdminNames
    <2>2. CASE n # 0
      <3>1. PICK i \in 1..n : admins[i].name = Default
        BY <1>1, <1>3, <2>2 DEF DataInv, AdminsInv, AdminNames
      <3>2. i \in 1..(n + 1) /\ admins'[i].name = Default
        BY <1>2, <3>1
      <3> QED
        BY <1>2, <3>2 DEF AdminNames
    <2> QED
      BY <2>1, <2>2
  <1> QED
    BY <1>2, <1>4, <1>5
    DEF DataInv, TablesTypeOK, Unique, AdminsInv, ReqInv, LateInv, UpdateInv, Rows

-----------------------------------------------------------------------------
(***************************************************************************)
(* Each step of the two services.                                          *)
(***************************************************************************)

LEMMA IdleInv == Idle \in Pending /\ ReqInv(Idle)
  BY DEF Pending, Idle, ReqInv, LateInv, UpdateInv

LEMMA AuthInv ==
  ASSUME DataInv, AuthStep
  PROVE  DataInv'
  <1>1. CASE CheckDefaultUser
    BY <1>1, DataStays DEF CheckDefaultUser
  <1>2. CASE InsertDefaultUser
    <2>1. CASE UNCHANGED <<user, req>>
      BY <1>2, <2>1, DataStays DEF InsertDefaultUser, tables
    <2>2. CASE \E u \in Users : user[u] = Unused /\ PutUser(u, [name |-> Default, dept |-> NoDept])
      <3>1. PICK u \in Users : PutUser(u, [name |-> Default, dept |-> NoDept])
        BY <2>2
      <3>2. [name |-> Default, dept |-> NoDept] \in UserRow
        BY DirectoryAssumption DEF UserRow
      <3>3. UNCHANGED <<role, dept, admins>>
        BY <1>2 DEF InsertDefaultUser
      <3> QED
        BY <3>1, <3>2, <3>3, PutUserInv
    <2> QED
      BY <1>2, <2>1, <2>2 DEF InsertDefaultUser
  <1>3. CASE ToAuth /\ RegisterHandler
    <2>1. PICK u \in Users, n \in Names : PutUser(u, [name |-> n, dept |-> NoDept])
      BY <1>3 DEF RegisterHandler
    <2>2. [name |-> n, dept |-> NoDept] \in UserRow
      BY DEF UserRow
    <2>3. UNCHANGED <<role, dept, admins>>
      BY <1>3 DEF RegisterHandler, ToAuth, Comes
    <2> QED
      BY <2>1, <2>2, <2>3, PutUserInv
  <1> QED
    BY <1>1, <1>2, <1>3 DEF AuthStep

LEMMA AdminInv ==
  ASSUME DataInv, AdminStep
  PROVE  DataInv'
  <1>1. CASE CountAdmins
    BY <1>1, DataStays DEF CountAdmins
  <1>2. CASE InsertSuperAdmin
    <2>1. CASE UNCHANGED admins
      BY <1>2, <2>1, DataStays DEF InsertSuperAdmin, tables
    <2>2. CASE /\ Default \notin AdminNames
               /\ admins' = Append(admins, [name |-> Default, made |-> "default"])
      <3>1. PICK e : e = [name |-> Default, made |-> "default"]
        OBVIOUS
      <3>2. e \in AdminRow /\ e.made = "default" /\ e.name = Default
        BY <3>1, DirectoryAssumption DEF AdminRow
      <3>3. admins = << >>
        BY <2>2 DEF DataInv, AdminsInv
      <3>4. admins' = Append(admins, e) /\ UNCHANGED <<user, role, dept, req>>
        BY <1>2, <2>2, <3>1 DEF InsertSuperAdmin
      <3> QED
        BY <3>2, <3>3, <3>4, AdminsStep
    <2> QED
      BY <1>2, <2>1, <2>2 DEF InsertSuperAdmin
  <1>3. CASE ToAdmin /\ CreateAdminHandler
    <2>1. PICK n \in Names : admins' = Append(admins, [name |-> n, made |-> "request"])
      BY <1>3 DEF CreateAdminHandler
    <2>2. PICK e : e = [name |-> n, made |-> "request"]
      OBVIOUS
    <2>3. e \in AdminRow /\ e.made = "request"
      BY <2>2 DEF AdminRow
    <2>4. /\ admins # << >> /\ admins' = Append(admins, e)
          /\ UNCHANGED <<user, role, dept, req>>
      BY <1>3, <2>1, <2>2 DEF ToAdmin, Comes, CreateAdminHandler
    <2> QED
      BY <2>3, <2>4, AdminsStep
  <1> QED
    BY <1>1, <1>2, <1>3 DEF AdminStep

LEMMA PeopleInv ==
  ASSUME DataInv, PeopleStep
  PROVE  DataInv'
  <1>1. CASE ToAdmin /\ UserCreate
    <2>1. PICK u \in Users, n \in Names, d \in Depts \cup {NoDept} : PutUser(u, [name |-> n, dept |-> d])
      BY <1>1 DEF UserCreate
    <2>2. [name |-> n, dept |-> d] \in UserRow
      BY DEF UserRow
    <2>3. UNCHANGED <<role, dept, admins>>
      BY <1>1 DEF UserCreate, ToAdmin, Comes
    <2> QED
      BY <2>1, <2>2, <2>3, PutUserInv
  <1>2. CASE ToAdmin /\ UserUpdate
    <2>1. PICK u \in Rows(user), n \in Names, d \in Depts \cup {NoDept} :
            PutUser(u, [name |-> n, dept |-> d])
      BY <1>2 DEF UserUpdate
    <2>2. u \in Users /\ [name |-> n, dept |-> d] \in UserRow
      BY DEF UserRow, Rows, DataInv, TablesTypeOK
    <2>3. UNCHANGED <<role, dept, admins>>
      BY <1>2 DEF UserUpdate, ToAdmin, Comes
    <2> QED
      BY <2>1, <2>2, <2>3, PutUserInv
  <1>3. CASE ToAdmin /\ UserDelete
    BY <1>3, UserDeleteInv DEF ToAdmin, Comes
  <1>4. CASE ToAdmin /\ DepartmentCreate
    <2>1. UNCHANGED <<user, role, admins, req>>
      BY <1>4 DEF ToAdmin, Comes, DepartmentCreate
    <2>2. dept' \in [Depts -> {There} \cup NoRow]
      BY <1>4 DEF DepartmentCreate, DataInv, TablesTypeOK
    <2> QED
      BY <2>1, <2>2
      DEF DataInv, TablesTypeOK, Unique, AdminsInv, FirstAdmin, AdminNames, ReqInv,
          LateInv, UpdateInv, Rows
  <1>5. ASSUME NEW r \in Reqs, ToAdmin, DepartmentCount(r) PROVE DataInv'
    <2>1. PICK d \in Depts, count \in {"zero", "error"} :
            /\ count = "zero" => Empty(d)
            /\ req' = [req EXCEPT ![r] = [at |-> "delete", dept |-> d, count |-> count, late |-> {}]]
      BY <1>5 DEF DepartmentCount
    <2>2. PICK q : q = [at |-> "delete", dept |-> d, count |-> count, late |-> {}]
      OBVIOUS
    <2>3. q \in DeleteReq /\ q.at = "delete" /\ q.dept = d /\ q.count = count
      BY <2>2 DEF DeleteReq
    <2>4. q \in Pending /\ ReqInv(q)
      BY <2>1, <2>3 DEF Pending, ReqInv, LateInv, UpdateInv, Empty
    <2>5. req' = [req EXCEPT ![r] = q]
      BY <2>1, <2>2
    <2>6. /\ UNCHANGED <<user, role, admins>> /\ dept' \in [Depts -> {There} \cup NoRow]
      BY <1>5 DEF DepartmentCount, ToAdmin, Comes, tables, DataInv, TablesTypeOK
    <2> QED
      BY <2>4, <2>5, <2>6, MoveInv
  <1>6. ASSUME NEW r \in Reqs, DepartmentDelete(r) PROVE DataInv'
    <2>1. dept' \in [Depts -> {There} \cup NoRow]
      BY <1>6 DEF DepartmentDelete, DataInv, TablesTypeOK, NoRow
    <2>2. /\ UNCHANGED <<user, role, admins>> /\ req' = [req EXCEPT ![r] = Idle]
      BY <1>6 DEF DepartmentDelete, DataInv, TablesTypeOK
    <2> QED
      BY <2>1, <2>2, IdleInv, MoveInv
  <1> QED
    BY <1>1, <1>2, <1>3, <1>4, <1>5, <1>6 DEF PeopleStep, Goes

LEMMA RoleInv ==
  ASSUME DataInv, RoleStep
  PROVE  DataInv'
  <1>1. CASE ToAdmin /\ RoleCreate
    BY <1>1, RoleCreateInv DEF ToAdmin, Comes
  <1>2. CASE ToAdmin /\ RoleDelete
    <2>1. PICK x \in Rows(role) : PutRole(x, Gone, Keep, Idle)
      BY <1>2 DEF RoleDelete
    <2>2. UNCHANGED <<user, dept, admins>>
      BY <1>2 DEF RoleDelete, ToAdmin, Comes
    <2>3. Gone \in RoleRow \cup NoRow /\ ReqInv(Idle)'
      BY DEF NoRow, Idle, ReqInv, LateInv, UpdateInv
    <2> QED
      BY <2>1, <2>2, <2>3, IdleInv, PutRoleInv
  <1>3. ASSUME NEW r \in Reqs, ToAdmin, RoleUpdateName(r) PROVE DataInv'
    <2>1. UNCHANGED <<user, dept, admins>>
      BY <1>3 DEF RoleUpdateName, ToAdmin, Comes
    <2>2. PICK x \in Roles, n \in RoleNames \cup {Keep}, p \in Perms \cup {Keep} :
            \/ /\ n # Keep /\ x \in Rows(role)
               /\ PutRole(x, [role[x] EXCEPT !.name = n], r,
                          [at |-> "perms", role |-> x, name |-> n, perms |-> p, excuse |-> "none"])
            \/ /\ req' = [req EXCEPT ![r] =
                     [at |-> "perms", role |-> x, name |-> n, perms |-> p,
                      excuse |-> IF n # Keep \/ x \notin Rows(role) THEN "failed" ELSE "none"]]
               /\ UNCHANGED role
      BY <1>3 DEF RoleUpdateName
    <2>3. CASE /\ n # Keep /\ x \in Rows(role)
               /\ PutRole(x, [role[x] EXCEPT !.name = n], r,
                          [at |-> "perms", role |-> x, name |-> n, perms |-> p, excuse |-> "none"])
      <3>1. PICK q : q = [at |-> "perms", role |-> x, name |-> n, perms |-> p, excuse |-> "none"]
        OBVIOUS
      <3>2. PICK row : row = [role[x] EXCEPT !.name = n]
        OBVIOUS
      <3>3. PutRole(x, row, r, q)
        BY <2>3, <3>1, <3>2
      <3>4. role[x] \in RoleRow /\ n \in RoleNames
        BY <2>3 DEF Rows, DataInv, TablesTypeOK
      <3>5. row \in RoleRow /\ row.name = n
        BY <3>2, <3>4 DEF RoleRow
      <3>6. /\ q \in Pending /\ q.at = "perms" /\ q.role = x /\ q.name = n
        BY <3>1 DEF Pending, UpdateReq
      <3>7. role' = [role EXCEPT ![x] = row] /\ role \in [Roles -> RoleRow \cup NoRow]
        BY <3>3 DEF PutRole, DataInv, TablesTypeOK
      <3>8. x \in Rows(role)' /\ role'[x] = row
        BY <3>5, <3>7, RowsDiffer DEF Rows
      <3>9. ReqInv(q)'
        BY <3>5, <3>6, <3>8 DEF ReqInv, LateInv, UpdateInv
      <3> QED
        BY <2>1, <2>3, <3>3, <3>5, <3>6, <3>9, PutRoleInv
    <2>4. CASE /\ req' = [req EXCEPT ![r] =
                     [at |-> "perms", role |-> x, name |-> n, perms |-> p,
                      excuse |-> IF n # Keep \/ x \notin Rows(role) THEN "failed" ELSE "none"]]
               /\ UNCHANGED role
      <3>1. PICK q : q = [at |-> "perms", role |-> x, name |-> n, perms |-> p,
                          excuse |-> IF n # Keep \/ x \notin Rows(role) THEN "failed" ELSE "none"]
        OBVIOUS
      <3>2. /\ q \in Pending /\ q.at = "perms" /\ q.role = x /\ q.name = n
            /\ q.excuse = "none" => n = Keep /\ x \in Rows(role)
        BY <3>1 DEF Pending, UpdateReq
      <3>3. ReqInv(q)
        BY <3>2 DEF ReqInv, LateInv, UpdateInv
      <3>4. req' = [req EXCEPT ![r] = q]
        BY <2>4, <3>1
      <3>5. /\ UNCHANGED <<user, role, admins>> /\ dept' \in [Depts -> {There} \cup NoRow]
        BY <2>1, <2>4 DEF DataInv, TablesTypeOK
      <3> QED
        BY <3>2, <3>3, <3>4, <3>5, MoveInv
    <2> QED
      BY <2>2, <2>3, <2>4
  <1>4. ASSUME NEW r \in Reqs, RoleUpdatePerms(r) PROVE DataInv'
    <2>1. UNCHANGED <<user, dept, admins>>
      BY <1>4 DEF RoleUpdatePerms
    <2>2. PICK p \in Pending : p = req[r]
      BY DEF DataInv, TablesTypeOK
    <2>3. p \in UpdateReq /\ p.at = "perms" /\ UpdateInv(p)
      BY <1>4, <2>2, Kinds DEF RoleUpdatePerms, DataInv, ReqInv
    <2>4. CASE /\ p.role \in Rows(role) /\ p.perms # Keep
               /\ PutRole(p.role, [role[p.role] EXCEPT !.perms = p.perms], r, [p EXCEPT !.at = "answer"])
      <3>1. PICK q : q = [p EXCEPT !.at = "answer"]
        OBVIOUS
      <3>2. PICK x \in Rows(role) : x = p.role
        BY <2>4
      <3>3. PICK row : row = [role[x] EXCEPT !.perms = p.perms]
        OBVIOUS
      <3>4. PutRole(x, row, r, q)
        BY <2>4, <3>1, <3>2, <3>3
      <3>5. x \in Roles /\ role[x] \in RoleRow /\ p.perms \in Perms
        BY <2>3, <2>4 DEF Rows, DataInv, TablesTypeOK, UpdateReq
      <3>6. row \in RoleRow /\ row.name = role[x].name /\ row.perms = p.perms
        BY <3>3, <3>5 DEF RoleRow
      <3>7. /\ q \in UpdateReq /\ q.at = "answer" /\ q.role = x /\ q.name = p.name
            /\ q.perms = p.perms /\ q.excuse = p.excuse
        BY <2>3, <3>1, <3>2 DEF UpdateReq
      <3>8. role' = [role EXCEPT ![x] = row] /\ role \in [Roles -> RoleRow \cup NoRow]
        BY <3>4 DEF PutRole, DataInv, TablesTypeOK
      <3>9. x \in Rows(role)' /\ role'[x] = row
        BY <3>5, <3>6, <3>8, RowsDiffer DEF Rows
      <3>10. ReqInv(q)'
        BY <2>3, <3>2, <3>6, <3>7, <3>9 DEF ReqInv, LateInv, UpdateInv
      <3>11. q \in Pending
        BY <3>7 DEF Pending
      <3> QED
        BY <2>1, <3>4, <3>6, <3>10, <3>11, PutRoleInv
    <2>5. CASE /\ req' = [req EXCEPT ![r] = [p EXCEPT !.at = "answer",
                              !.excuse = IF p.perms = Keep THEN p.excuse ELSE "failed"]]
               /\ UNCHANGED role
      <3>1. PICK excuse : excuse = IF p.perms = Keep THEN p.excuse ELSE "failed"
        OBVIOUS
      <3>2. PICK q : q = [p EXCEPT !.at = "answer", !.excuse = excuse]
        OBVIOUS
      <3>3. excuse \in {"none", "failed", "met"}
        BY <2>3, <3>1 DEF UpdateReq
      <3>4. /\ q \in UpdateReq /\ q.at = "answer" /\ q.role = p.role /\ q.name = p.name
            /\ q.perms = p.perms /\ q.excuse = excuse
        BY <2>3, <3>2, <3>3 DEF UpdateReq
      <3>5. q \in Pending /\ ReqInv(q)
        BY <2>3, <3>1, <3>4 DEF Pending, ReqInv, LateInv, UpdateInv
      <3>6. req' = [req EXCEPT ![r] = q]
        BY <2>5, <3>1, <3>2
      <3>7. /\ UNCHANGED <<user, role, admins>> /\ dept' \in [Depts -> {There} \cup NoRow]
        BY <2>1, <2>5 DEF DataInv, TablesTypeOK
      <3> QED
        BY <3>5, <3>6, <3>7, MoveInv
    <2> QED
      BY <1>4, <2>2, <2>4, <2>5 DEF RoleUpdatePerms, NewPerms
  <1>5. ASSUME NEW r \in Reqs, RoleUpdateEnds(r) PROVE DataInv'
    <2>1. /\ UNCHANGED <<user, role, admins>> /\ req' = [req EXCEPT ![r] = Idle]
          /\ dept' \in [Depts -> {There} \cup NoRow]
      BY <1>5 DEF RoleUpdateEnds, tables, DataInv, TablesTypeOK
    <2> QED
      BY <2>1, IdleInv, MoveInv
  <1> QED
    BY <1>1, <1>2, <1>3, <1>4, <1>5 DEF RoleStep, Goes

\* A service starts again, and what it had under way is gone.
LEMMA StartMainInv ==
  ASSUME DataInv, NEW s, StartMain(s)
  PROVE  DataInv'
  <1>1. UNCHANGED <<user, role, dept, admins>>
    BY DEF StartMain, tables
  <1>2. ASSUME NEW r \in Reqs PROVE req'[r] \in {Idle, req[r]}
    BY DEF StartMain
  <1>3. req' \in [Reqs -> Pending]
    <2>1. req \in [Reqs -> Pending]
      BY DEF DataInv, TablesTypeOK
    <2>2. CASE req' = [r \in Reqs |-> Idle]
      BY <2>2, IdleInv
    <2>3. CASE req' = req
      BY <2>1, <2>3
    <2> QED
      BY <2>2, <2>3 DEF StartMain
  <1>4. ASSUME NEW r \in Reqs PROVE ReqInv(req[r])'
    <2>1. PICK q : q = req'[r]
      OBVIOUS
    <2>2. ReqInv(q)
      BY <1>2, <2>1, IdleInv DEF DataInv
    <2> QED
      BY <1>1, <2>1, <2>2 DEF ReqInv, LateInv, UpdateInv, Rows
  <1> QED
    BY <1>1, <1>3, <1>4
    DEF DataInv, TablesTypeOK, Unique, AdminsInv, FirstAdmin, AdminNames, Rows

-----------------------------------------------------------------------------
(***************************************************************************)
(* The invariant of the whole, and what follows from it.                   *)
(***************************************************************************)

CountersOK ==
  /\ main \in [{"auth", "admin"} -> {"check", "insert", "up"}]
  /\ requests \in 0..MaxRequests /\ starts \in 0..MaxStarts

IInv == StartupTypeOK /\ StartupInv /\ DataInv /\ CountersOK

LEMMA TypesApart == DirectoryTypeOK <=> TablesTypeOK /\ CountersOK
  BY DEF DirectoryTypeOK, TablesTypeOK, CountersOK

LEMMA InitInv == Init => IInv
  <1> SUFFICES ASSUME Init PROVE IInv
    OBVIOUS
  <1>1. StartupTypeOK /\ StartupInv
    BY StartupInitInv DEF Init
  <1>2. CountersOK
    BY DirectoryAssumption DEF Init, DirectoryInit, CountersOK
  <1>3. Rows(user) = {} /\ Rows(role) = {}
    BY DEF Init, DirectoryInit, Rows, NoRow
  <1>4. admins = << >> /\ Len(admins) = 0 /\ admins \in Seq(AdminRow)
    BY DEF Init, DirectoryInit
  <1>5. TablesTypeOK
    BY <1>4, IdleInv DEF Init, DirectoryInit, TablesTypeOK, NoRow
  <1>6. \A r \in Reqs : ReqInv(req[r])
    BY IdleInv DEF Init, DirectoryInit
  <1>7. AdminsInv /\ Unique
    BY <1>3, <1>4 DEF AdminsInv, FirstAdmin, Unique, Init, DirectoryInit
  <1> QED
    BY <1>1, <1>2, <1>5, <1>6, <1>7 DEF IInv, DataInv

\* The counters and where the services are in their mains.
LEMMA CountersStep ==
  ASSUME CountersOK, AuthStep \/ AdminStep \/ PeopleStep \/ RoleStep
  PROVE  CountersOK'
  <1>1. /\ requests \in 0..MaxRequests /\ MaxRequests \in Nat
        /\ main \in [{"auth", "admin"} -> {"check", "insert", "up"}]
    BY DirectoryAssumption DEF CountersOK
  <1>2. CASE UNCHANGED <<main, requests, starts>>
    BY <1>2 DEF CountersOK
  <1>3. CASE ToAuth \/ ToAdmin
    <2>1. requests < MaxRequests /\ requests' = requests + 1 /\ UNCHANGED <<main, starts>>
      BY <1>3 DEF ToAuth, ToAdmin, Comes
    <2>2. requests' \in 0..MaxRequests
      BY <1>1, <2>1
    <2> QED
      BY <2>1, <2>2 DEF CountersOK
  <1>4. CASE CheckDefaultUser \/ InsertDefaultUser \/ CountAdmins \/ InsertSuperAdmin
    <2>1. main' \in [{"auth", "admin"} -> {"check", "insert", "up"}]
      BY <1>1, <1>4 DEF CheckDefaultUser, InsertDefaultUser, CountAdmins, InsertSuperAdmin
    <2>2. UNCHANGED <<requests, starts>>
      BY <1>4 DEF CheckDefaultUser, InsertDefaultUser, CountAdmins, InsertSuperAdmin
    <2> QED
      BY <2>1, <2>2 DEF CountersOK
  <1> QED
    BY <1>2, <1>3, <1>4 DEF AuthStep, AdminStep, PeopleStep, RoleStep, Goes

LEMMA NextInv == IInv /\ [Next]_vars => IInv'
  <1> SUFFICES ASSUME IInv, [Next]_vars PROVE IInv'
    OBVIOUS
  <1>1. StartupTypeOK /\ StartupInv /\ DataInv /\ CountersOK
    BY DEF IInv
  <1>2. UNCHANGED startupVars => StartupTypeOK' /\ StartupInv'
    BY <1>1 DEF StartupTypeOK, StartupInv, startupVars
  <1>3. UNCHANGED directoryVars => DataInv' /\ CountersOK'
    BY <1>1, DataStays DEF directoryVars, CountersOK
  <1>4. CASE CreateStep
    BY <1>1, <1>3, <1>4, CreateInv DEF CreateStep, IInv
  <1>5. CASE StartStep
    <2>1. PICK s \in Services :
            StartAgain(s) /\ IF s # "messaging" /\ Up(s) THEN StartMain(s) ELSE UNCHANGED directoryVars
      BY <1>5 DEF StartStep
    <2>2. StartupTypeOK' /\ StartupInv'
      BY <1>1, <2>1, StartAgainInv
    <2>3. CASE s # "messaging" /\ StartMain(s)
      <3>1. DataInv'
        BY <1>1, <2>3, StartMainInv
      <3>2. s \in {"auth", "admin"}
        BY <2>3 DEF Services
      <3>3. CountersOK'
        BY <1>1, <2>3, <3>2, DirectoryAssumption DEF CountersOK, StartMain
      <3> QED
        BY <2>2, <3>1, <3>3 DEF IInv
    <2> QED
      BY <1>3, <2>1, <2>2, <2>3 DEF IInv
  <1>6. CASE DirectoryStep
    <2>1. AuthStep \/ AdminStep \/ PeopleStep \/ RoleStep
      BY <1>6 DEF DirectoryStep
    <2>2. DataInv'
      BY <1>1, <2>1, AuthInv, AdminInv, PeopleInv, RoleInv
    <2>3. CountersOK'
      BY <1>1, <2>1, CountersStep
    <2> QED
      BY <1>2, <1>6, <2>2, <2>3 DEF DirectoryStep, IInv
  <1>7. CASE UNCHANGED vars
    BY <1>2, <1>3, <1>7 DEF vars, IInv
  <1> QED
    BY <1>4, <1>5, <1>6, <1>7 DEF Next

(***************************************************************************)
(* The tables stay those of the services that have statements for them,    *)
(* usernames unique, what a request has read true or known to be changed   *)
(* (auth/main.go 165-189, 258-337; db.go 30-119; users, roles and          *)
(* departments/handler.go).                                                *)
(***************************************************************************)
THEOREM Invariance == Spec => []IInv
  <1> QED
    BY InitInv, NextInv, PTL DEF Spec

(***************************************************************************)
(* Every table, request and counter has its type (db.go 32-92).            *)
(***************************************************************************)
THEOREM TypeCorrect == Spec => []TypeOK
  <1>1. IInv => TypeOK
    BY TypesApart DEF IInv, DataInv, TypeOK
  <1> QED
    BY <1>1, Invariance, PTL

(***************************************************************************)
(* Who can store users, roles and channels once which services are up, in  *)
(* any order of the starts (auth 165-189, db.go 30-119, messaging          *)
(* 170-196).                                                               *)
(***************************************************************************)
THEOREM StoresDecided == Spec => []WhoCanStore
  <1>1. IInv => WhoCanStore
    BY StoreInv DEF IInv
  <1> QED
    BY <1>1, Invariance, PTL

(***************************************************************************)
(* The administrator of the well-known password is the first and the only  *)
(* one (admin-api/internal/auth/auth.go 86-94).                            *)
(***************************************************************************)
THEOREM DefaultAdminFirst == Spec => []FirstAdmin
  <1>1. IInv => FirstAdmin
    BY DEF IInv, DataInv, AdminsInv
  <1> QED
    BY <1>1, Invariance, PTL

(***************************************************************************)
(* An update of a role answered with `ok' is in the table, unless a        *)
(* statement failed or another request met it (roles/handler.go 96-113).   *)
(***************************************************************************)
THEOREM RolesUpdated == Spec => []RoleUpdated
  <1>1. IInv => RoleUpdated
    BY DEF IInv, DataInv, ReqInv, UpdateInv, RoleUpdated
  <1> QED
    BY <1>1, Invariance, PTL

(***************************************************************************)
(* A department goes under users only if they came late or its count       *)
(* failed (departments/handler.go 65-92).                                  *)
(***************************************************************************)
THEOREM DepartmentsEmptied == Spec => DepartmentEmptied
  <1>1. ASSUME IInv
        PROVE  [ \A d \in Depts, r \in Reqs :
                   dept[d] = There /\ dept'[d] = Gone /\ req[r].at = "delete" /\ req'[r] = Idle
                     /\ req[r].dept = d /\ req[r].count = "zero"
                   => {u \in Rows(user) : user[u].dept = d} \subseteq req[r].late ]_directoryVars
    <2>1. \A r \in Reqs : LateInv(req[r])
      BY <1>1 DEF IInv, DataInv, ReqInv
    <2> QED
      BY <2>1 DEF LateInv
  <1> QED
    BY <1>1, Invariance, PTL DEF Spec, DepartmentEmptied
=============================================================================

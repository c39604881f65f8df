------------------------------ MODULE Directory ------------------------------
(***************************************************************************)
(* Users, roles, departments and administrators, which auth and the admin  *)
(* API change in platform.db, statement by statement: nothing but the      *)
(* UNIQUE constraints holds two statements of a handler together.  A       *)
(* handler with one statement is one step.  No foreign key is enforced.    *)
(*                                                                         *)
(* Left out are columns nobody decides by (passwords, full names, times),  *)
(* the entries of audit_logs, which are only ever added, after the change  *)
(* and without a look at whether that succeeds, and requests that write    *)
(* nothing, logins among them.                                             *)
(***************************************************************************)
EXTENDS Naturals, Sequences, FiniteSets

CONSTANTS
  Users, Roles, Depts,    \* ids: uuids, used once
  Names,                  \* usernames
  Default,                \* "admin", of auth's default user and the first administrator
  RoleNames, Perms,
  Reqs,                   \* requests at one time that take more than one step
  MaxRequests, MaxStarts  \* bounds: requests, and starts of a service again

ASSUME DirectoryAssumption ==
  /\ Default \in Names
  /\ {MaxRequests, MaxStarts} \subseteq Nat

VARIABLES
  user, role, dept,  \* the tables: per id its row, or Unused or Gone
  admins,            \* admin_users in the order they came
  main,              \* how far each of the two services is in its main
  req,               \* the requests under way
  requests, starts   \* counters for the bounds

tables == <<user, role, dept, admins>>
directoryVars == <<tables, main, req, requests, starts>>

Unused == [row |-> "unused"]
Gone == [row |-> "gone"]
There == [row |-> "there"]  \* a department, of which nothing more is told
NoRow == {Unused, Gone}
Keep == "keep"   \* a field that an update leaves out
NoDept == "none"
Idle == [at |-> "idle"]

UserRow == [name : Names, dept : Depts \cup {NoDept}]
RoleRow == [name : RoleNames, perms : Perms]

\* Made by EnsureSuperAdmin, with the well-known password, or by a request.
AdminRow == [name : Names, made : {"default", "request"}]

\* A request of several steps: the delete of a department, what its count said
\* and who came late for it; the update of a role, and (history) why its answer
\* may be wrong.
DeleteReq == [at : {"delete"}, dept : Depts, count : {"zero", "error"}, late : SUBSET Users]
UpdateReq == [at : {"perms", "answer"}, role : Roles, name : RoleNames \cup {Keep},
              perms : Perms \cup {Keep}, excuse : {"none", "failed", "met"}]
Pending == {Idle} \cup DeleteReq \cup UpdateReq

DirectoryTypeOK ==
  /\ user \in [Users -> UserRow \cup NoRow]
  /\ role \in [Roles -> RoleRow \cup NoRow]
  /\ dept \in [Depts -> {There} \cup NoRow]
  /\ admins \in Seq(AdminRow)
  /\ main \in [{"auth", "admin"} -> {"check", "insert", "up"}]
  /\ req \in [Reqs -> Pending]
  /\ requests \in 0..MaxRequests /\ starts \in 0..MaxStarts

Rows(table) == {x \in DOMAIN table : table[x] \notin NoRow}
UserOf(n) == {u \in Rows(user) : user[u].name = n}
RoleOf(n) == {x \in Rows(role) : role[x].name = n}
AdminNames == {admins[i].name : i \in 1..Len(admins)}

DirectoryInit ==
  /\ user = [u \in Users |-> Unused]
  /\ role = [x \in Roles |-> Unused]
  /\ dept = [d \in Depts |-> Unused]
  /\ admins = << >>
  /\ main = [s \in {"auth", "admin"} |-> "check"]
  /\ req = [r \in Reqs |-> Idle]
  /\ requests = 0 /\ starts = 0

-----------------------------------------------------------------------------
(***************************************************************************)
(* Mutants; the specification uses none of them.                           *)
(***************************************************************************)

\* The administrator of the start has no unique name.
MutInsertSuperAdmin ==
  /\ main["admin"] = "insert"
  /\ main' = [main EXCEPT !["admin"] = "up"]
  /\ admins' = Append(admins, [name |-> Default, made |-> "default"])
  /\ UNCHANGED <<user, role, dept, req, requests, starts>>

\* One user more than none.
MutEmpty(d) == Cardinality({u \in Rows(user) : user[u].dept = d}) <= 1

\* Without a name the update ends after its first half.
MutNewPerms(r) == IF req[r].name = Keep THEN role[req[r].role].perms ELSE req[r].perms

\* The row stays, under a name that says so.
MutUserDelete ==
  /\ \E u \in Rows(user) : user' = [user EXCEPT ![u].name = "deleted"]
  /\ UNCHANGED <<role, dept, admins, req>>

-----------------------------------------------------------------------------
(***************************************************************************)
(* Statements                                                              *)
(***************************************************************************)

\* username is UNIQUE.
Free(u, n) == UserOf(n) \subseteq {u}

\* The row of u, with a department that nobody looks up.  A request that is
\* about to delete it has counted already.
PutUser(u, row) ==
  /\ Free(u, row.name)
  /\ user' = [user EXCEPT ![u] = row]
  /\ req' = [r \in Reqs |-> IF req[r].at = "delete" /\ req[r].dept = row.dept
                            THEN [req[r] EXCEPT !.late = @ \cup {u}] ELSE req[r]]

\* The row of x, while other requests have half updated or just answered it.
PutRole(x, row, mine, next) ==
  /\ role' = [role EXCEPT ![x] = row]
  /\ req' = [r \in Reqs |->
       IF r = mine THEN next
       ELSE IF req[r].at \in {"perms", "answer"} /\ req[r].role = x
       THEN [req[r] EXCEPT !.excuse = "met"] ELSE req[r]]

-----------------------------------------------------------------------------
(***************************************************************************)
(* main of the two services                                                *)
(***************************************************************************)

\* SELECT EXISTS of ensureDefaultUser; an error is logged and main goes on.
CheckDefaultUser ==
  /\ main["auth"] = "check"
  /\ \E next \in {"insert", "up"} :
       /\ next = "insert" => UserOf(Default) = {}
       /\ main' = [main EXCEPT !["auth"] = next]
  /\ UNCHANGED <<tables, req, requests, starts>>

InsertDefaultUser ==
  /\ main["auth"] = "insert"
  /\ main' = [main EXCEPT !["auth"] = "up"]
  /\ \/ \E u \in Users : user[u] = Unused /\ PutUser(u, [name |-> Default, dept |-> NoDept])
     \/ UNCHANGED <<user, req>>
  /\ UNCHANGED <<role, dept, admins, requests, starts>>

\* SELECT COUNT of EnsureSuperAdmin: an error counts as none.
CountAdmins ==
  /\ main["admin"] = "check"
  /\ \E next \in {"insert", "up"} :
       /\ next = "up" => admins # << >>
       /\ main' = [main EXCEPT !["admin"] = next]
  /\ UNCHANGED <<tables, req, requests, starts>>

InsertSuperAdmin ==
  /\ main["admin"] = "insert"
  /\ main' = [main EXCEPT !["admin"] = "up"]
  /\ \/ Default \notin AdminNames /\ admins' = Append(admins, [name |-> Default, made |-> "default"])
     \/ UNCHANGED admins
  /\ UNCHANGED <<user, role, dept, req, requests, starts>>

\* A service stops and starts again, and its requests are gone; those of auth
\* are of one statement.
StartMain(s) ==
  /\ starts < MaxStarts
  /\ starts' = starts + 1
  /\ main' = [main EXCEPT ![s] = "check"]
  /\ req' = IF s = "admin" THEN [r \in Reqs |-> Idle] ELSE req
  /\ UNCHANGED <<tables, requests>>

-----------------------------------------------------------------------------
(***************************************************************************)
(* Handlers of one statement.  One that fails changes nothing.             *)
(***************************************************************************)

\* Auth: everything before the INSERT is about the request alone.
RegisterHandler ==
  /\ \E u \in Users, n \in Names :
       user[u] = Unused /\ PutUser(u, [name |-> n, dept |-> NoDept])
  /\ UNCHANGED <<role, dept, admins>>

UserCreate ==
  /\ \E u \in Users, n \in Names, d \in Depts \cup {NoDept} :
       user[u] = Unused /\ PutUser(u, [name |-> n, dept |-> d])
  /\ UNCHANGED <<role, dept, admins>>

\* The fields that are given, in one UPDATE; a department cannot be taken away.
UserUpdate ==
  /\ \E u \in Rows(user), n \in Names, d \in Depts \cup {NoDept} :
       /\ d = NoDept => user[u].dept = NoDept
       /\ PutUser(u, [name |-> n, dept |-> d])
  /\ UNCHANGED <<role, dept, admins>>

UserDelete ==
  /\ \E u \in Rows(user) : user' = [user EXCEPT ![u] = Gone]
  /\ UNCHANGED <<role, dept, admins, req>>

DepartmentCreate ==
  /\ \E d \in Depts : dept[d] = Unused /\ dept' = [dept EXCEPT ![d] = There]
  /\ UNCHANGED <<user, role, admins, req>>

RoleCreate ==
  /\ \E x \in Roles, n \in RoleNames, p \in Perms :
       /\ role[x] = Unused /\ RoleOf(n) = {}
       /\ role' = [role EXCEPT ![x] = [name |-> n, perms |-> p]]
  /\ UNCHANGED <<user, dept, admins, req>>

RoleDelete ==
  /\ \E x \in Rows(role) : PutRole(x, Gone, Keep, Idle)
  /\ UNCHANGED <<user, dept, admins>>

CreateAdminHandler ==
  /\ \E n \in Names \ AdminNames : admins' = Append(admins, [name |-> n, made |-> "request"])
  /\ UNCHANGED <<user, role, dept, req>>

-----------------------------------------------------------------------------
(***************************************************************************)
(* Handlers of several steps                                               *)
(***************************************************************************)

Empty(d) == {u \in Rows(user) : user[u].dept = d} = {}

\* SELECT COUNT of the users, where an error counts as none.
DepartmentCount(r) ==
  /\ \E d \in Depts, count \in {"zero", "error"} :
       /\ count = "zero" => Empty(d)
       /\ req' = [req EXCEPT ![r] = [at |-> "delete", dept |-> d, count |-> count, late |-> {}]]
  /\ UNCHANGED tables

DepartmentDelete(r) ==
  /\ req[r].at = "delete"
  /\ \/ dept[req[r].dept] = There /\ dept' = [dept EXCEPT ![req[r].dept] = Gone]
     \/ UNCHANGED dept
  /\ req' = [req EXCEPT ![r] = Idle]
  /\ UNCHANGED <<user, role, admins>>

\* The first UPDATE, if a name is given; an error (it is taken, say) is not
\* looked at, nor whether there is such a role.
RoleUpdateName(r) ==
  /\ \E x \in Roles, n \in RoleNames \cup {Keep}, p \in Perms \cup {Keep} :
       LET next(excuse) == [at |-> "perms", role |-> x, name |-> n, perms |-> p,
                            excuse |-> excuse]
       IN \/ /\ n # Keep /\ x \in Rows(role) /\ RoleOf(n) \subseteq {x}
             /\ PutRole(x, [role[x] EXCEPT !.name = n], r, next("none"))
          \/ /\ req' = [req EXCEPT ![r] = next(IF n # Keep \/ x \notin Rows(role)
                                             THEN "failed" ELSE "none")]
             /\ UNCHANGED role
  /\ UNCHANGED <<user, dept, admins>>

NewPerms(r) == req[r].perms

\* The second UPDATE, if permissions are given, and `ok' whatever came of the two.
RoleUpdatePerms(r) ==
  /\ req[r].at = "perms"
  /\ LET x == req[r].role IN
     \/ /\ x \in Rows(role) /\ req[r].perms # Keep
        /\ PutRole(x, [role[x] EXCEPT !.perms = NewPerms(r)], r, [req[r] EXCEPT !.at = "answer"])
     \/ /\ LET excuse == IF req[r].perms = Keep THEN req[r].excuse ELSE "failed" IN
             req' = [req EXCEPT ![r] = [@ EXCEPT !.at = "answer", !.excuse = excuse]]
        /\ UNCHANGED role
  /\ UNCHANGED <<user, dept, admins>>

RoleUpdateEnds(r) ==
  /\ req[r].at = "answer"
  /\ req' = [req EXCEPT ![r] = Idle]
  /\ UNCHANGED tables

-----------------------------------------------------------------------------
\* A request comes to a service that is up; the admin API wants the token of an
\* administrator.
Comes ==
  /\ requests < MaxRequests
  /\ requests' = requests + 1
  /\ UNCHANGED <<main, starts>>

ToAuth == main["auth"] = "up" /\ Comes
ToAdmin == main["admin"] = "up" /\ admins # << >> /\ Comes

Goes(step) == step /\ UNCHANGED <<main, requests, starts>>

AuthStep ==
  \/ CheckDefaultUser \/ InsertDefaultUser
  \/ ToAuth /\ RegisterHandler

AdminStep ==
  \/ CountAdmins \/ InsertSuperAdmin
  \/ ToAdmin /\ CreateAdminHandler

\* The two groups of requests to the admin API share no table but admin_users.
PeopleStep ==
  \/ ToAdmin /\ (UserCreate \/ UserUpdate \/ UserDelete \/ DepartmentCreate)
  \/ \E r \in Reqs : \/ req[r] = Idle /\ ToAdmin /\ DepartmentCount(r)
                    \/ Goes(DepartmentDelete(r))

RoleStep ==
  \/ ToAdmin /\ (RoleCreate \/ RoleDelete)
  \/ \E r \in Reqs : \/ req[r] = Idle /\ ToAdmin /\ RoleUpdateName(r)
                    \/ Goes(RoleUpdatePerms(r) \/ RoleUpdateEnds(r))

-----------------------------------------------------------------------------
(***************************************************************************)
(* Properties                                                              *)
(***************************************************************************)

(***************************************************************************)
(* The administrator with the well-known password is made once, as the     *)
(* first, and never again, although a count that fails is taken for zero   *)
(* and the service may stop between counting and inserting                 *)
(* (admin-api/internal/auth/auth.go 86-94).                                *)
(***************************************************************************)
FirstAdmin == \A i \in 1..Len(admins) : admins[i].made = "default" <=> i = 1

(***************************************************************************)
(* A department is deleted under users only if they came into it after     *)
(* that request counted, or the count failed (departments/handler.go       *)
(* 65-92).                                                                 *)
(***************************************************************************)
DepartmentEmptied ==
  [][ \A d \in Depts, r \in Reqs :
        dept[d] = There /\ dept'[d] = Gone /\ req[r].at = "delete" /\ req'[r] = Idle
          /\ req[r].dept = d /\ req[r].count = "zero"
        => {u \in Rows(user) : user[u].dept = d} \subseteq req[r].late ]_directoryVars

(***************************************************************************)
(* An update of a role that is answered with `ok' is in the table, both    *)
(* parts, unless one of its statements failed, there was no such role, or  *)
(* another request changed the role between its first statement and the    *)
(* answer (roles/handler.go 96-113).                                       *)
(***************************************************************************)
RoleUpdated ==
  \A r \in Reqs :
    req[r].at = "answer" /\ req[r].excuse = "none" =>
      /\ req[r].role \in Rows(role)
      /\ req[r].perms \in {Keep, role[req[r].role].perms}
      /\ req[r].name \in {Keep, role[req[r].role].name}
=============================================================================

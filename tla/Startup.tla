------------------------------- MODULE Startup -------------------------------
(***************************************************************************)
(* The services that share platform.db start in any order: each runs its   *)
(* CREATE TABLE IF NOT EXISTS statements one by one, a statement may fail  *)
(* (the file is locked) and then the service stops until it is started     *)
(* again.  A table keeps the columns of whoever was first.                 *)
(***************************************************************************)
EXTENDS Naturals, Sequences

Services == {"auth", "messaging", "admin"}

\* The tables of each service, in the order of its statements.
Statements == [
  auth      |-> <<"roles", "users">>,
  messaging |-> <<"channels", "channel_members", "messages">>,
  admin     |-> <<"admin_users", "roles", "departments", "channels",
                  "channel_members", "users", "devices", "audit_logs">>]

Tables == UNION {{Statements[s][i] : i \in 1..Len(Statements[s])} : s \in Services}

VARIABLES
  creator,  \* whose columns each table has, or "nobody"
  step      \* how many statements each service has run

startupVars == <<creator, step>>

Up(s) == step[s] = Len(Statements[s])

StartupTypeOK ==
  /\ creator \in [Tables -> Services \cup {"nobody"}]
  /\ step \in [Services -> Nat]
  /\ \A s \in Services : step[s] \in 0..Len(Statements[s])

StartupInit ==
  /\ creator = [t \in Tables |-> "nobody"]
  /\ step = [s \in Services |-> 0]

Create(s) ==
  /\ ~ Up(s)
  /\ LET t == Statements[s][step[s] + 1] IN
       creator' = [creator EXCEPT ![t] = IF @ = "nobody" THEN s ELSE @]
  /\ step' = [step EXCEPT ![s] = @ + 1]

\* A statement fails and main ends, or a service is stopped and started.
StartAgain(s) ==
  /\ step' = [step EXCEPT ![s] = 0]
  /\ UNCHANGED creator

StartupNext == \E s \in Services : Create(s) \/ StartAgain(s)

-----------------------------------------------------------------------------
(***************************************************************************)
(* Columns, of the tables that more than one service makes or fills.       *)
(***************************************************************************)

\* Mutant: auth leaves out the two times, which its own table does not require.
MutGiven(s, t) ==
  IF t = "users" /\ s = "auth" THEN {"id", "username", "full_name", "password_hash", "role_id"}
  ELSE IF t = "channels" THEN {"id", "name", "type"} ELSE {"channel_id", "user_id"}

Columns(t, s) ==
  CASE t = "roles" -> {"id", "name", "permissions", "created_at", "updated_at"}
    [] t = "users" -> {"id", "username", "full_name", "password_hash", "role_id",
                       "department_id", "created_at", "updated_at"}
    [] t = "channels" -> {"id", "name", "type"} \cup
         (IF s = "admin" THEN {"department_id", "created_at", "updated_at", "created_by"} ELSE {})
    [] t = "channel_members" -> {"channel_id", "user_id"} \cup
         (IF s = "admin" THEN {"role", "joined_at"} ELSE {})

\* NOT NULL and without a DEFAULT (a primary key is always given).
Required(t, s) ==
  CASE t = "roles" -> {"name", "permissions", "created_at", "updated_at"}
    [] t = "users" /\ s = "admin" -> {"username", "password_hash", "created_at", "updated_at"}
    [] t = "channels" /\ s = "admin" -> {"name", "created_at", "updated_at"}
    [] t = "channel_members" /\ s = "admin" -> {"channel_id", "user_id", "joined_at"}
    [] OTHER -> {}

\* The columns that a service's INSERT names.
Given(s, t) ==
  CASE t = "roles" -> {"id", "name", "permissions", "created_at", "updated_at"}
    [] t = "users" -> {"id", "username", "full_name", "password_hash", "role_id",
                       "created_at", "updated_at"}
                      \cup (IF s = "admin" THEN {"department_id"} ELSE {})
    [] t = "channels" /\ s = "messaging" -> {"id", "name", "type"}
    [] t = "channels" /\ s = "admin" ->
         {"id", "name", "type", "department_id", "created_at", "updated_at", "created_by"}
    [] t = "channel_members" /\ s = "messaging" -> {"channel_id", "user_id"}
    [] t = "channel_members" /\ s = "admin" -> {"channel_id", "user_id", "role", "joined_at"}

\* Whether the INSERT of s can succeed.
Fits(s, t) ==
  /\ creator[t] # "nobody"
  /\ Required(t, creator[t]) \subseteq Given(s, t)
  /\ Given(s, t) \subseteq Columns(t, creator[t])

(***************************************************************************)
(* Whoever came first, and wherever a service failed and started again:    *)
(* once auth and the admin API are up they can both store users and roles, *)
(* but the same is never true of channels: of messaging and the admin API  *)
(* at most one can make them, and neither if each of them made one of the  *)
(* two tables (auth 165-189, db.go 30-119, messaging 170-196).             *)
(***************************************************************************)
WhoCanStore ==
  LET MakesChannels(s) == Fits(s, "channels") /\ Fits(s, "channel_members") IN
  /\ Up("auth") => Fits("auth", "users")
  /\ Up("admin") => Fits("admin", "users") /\ Fits("admin", "roles")
  /\ Up("messaging") \/ Up("admin") =>
       \A s \in {"messaging", "admin"} :
         MakesChannels(s) <=> creator["channels"] = s /\ creator["channel_members"] = s
=============================================================================

----------------------------- MODULE ChatStore -----------------------------
(***************************************************************************)
(* The tables of platform.db that the messaging service and the admin API  *)
(* share: channels, channel_members and users.  Both services open the     *)
(* same SQLite file, so a statement or a committed transaction of one is   *)
(* one atomic step for the other.                                          *)
(*                                                                         *)
(* Foreign keys are declared and never enforced (the sqlite3 driver leaves *)
(* them off and nobody turns them on): no ON DELETE CASCADE ever happens,  *)
(* and a membership row needs neither its channel nor its user.            *)
(***************************************************************************)
EXTENDS Naturals, FiniteSets

CONSTANTS
  Users,      \* the ids that users.id may hold
  Rooms,      \* the uuids that the admin API may give to new channels
  Schemas     \* which service may have created each of the two tables

(***************************************************************************)
(* The id of a direct-message channel is "dm:<p1>:<p2>" with p1 < p2: it   *)
(* depends on the two users and not on which of them asked.                *)
(***************************************************************************)
DmOf(u, v) == {u, v}

Dms == {DmOf(u, v) : u, v \in Users} \ {DmOf(u, u) : u \in Users}

Channels == Rooms \cup Dms

Owners == {"messaging", "admin"}

(***************************************************************************)
(* Ids of different kinds differ: rooms and users have uuids, the ids of   *)
(* direct messages start with "dm:".                                       *)
(***************************************************************************)
ASSUME StoreAssumption ==
  /\ Rooms \cap Users = {}
  /\ Dms \cap (Rooms \cup Users) = {}
  /\ Schemas \subseteq [channels : Owners, members : Owners]

VARIABLES
  schema,     \* the service whose CREATE TABLE made each table
  chType,     \* channels.type of each id; "unused" or "none" without a row
  members,    \* the rows <<channel_id, user_id>> of channel_members
  users       \* the rows of users

storeVars == <<schema, chType, members, users>>

Types == {"public", "private", "dm"}

Exists(ch) == chType[ch] \in Types

MembersOf(ch) == {u \in Users : <<ch, u>> \in members}

StoreTypeOK ==
  /\ schema \in Schemas
  /\ chType \in [Channels -> Types \cup {"unused", "none"}]
  /\ members \subseteq Channels \X Users
  /\ users \subseteq Users

-----------------------------------------------------------------------------
(***************************************************************************)
(* What an INSERT may do.  The admin API's tables require created_at,      *)
(* updated_at and joined_at, which messaging does not give; messaging's    *)
(* tables have no such columns, nor role, which the admin API names.       *)
(***************************************************************************)
MessagingCanInsert == schema = [channels |-> "messaging", members |-> "messaging"]
AdminCanInsertChannel == schema = [channels |-> "admin", members |-> "admin"]
AdminCanInsertMember == schema.members = "admin"

(***************************************************************************)
(* The database a service finds when it starts.  It outlives the services, *)
(* so any contents that earlier runs can have left are possible: rooms in  *)
(* use or deleted, with any members, where both tables are the admin       *)
(* API's; direct messages, present or deleted, with any of their two       *)
(* membership rows, where both are messaging's.                            *)
(***************************************************************************)
StoreInit ==
  /\ schema \in Schemas
  /\ chType \in [Channels -> {"public", "private", "dm", "unused", "none"}]
  /\ members \in SUBSET (Channels \X Users)
  /\ users = Users
  /\ \A r \in Rooms :
       /\ chType[r] # "dm"
       /\ ~AdminCanInsertChannel => chType[r] = "unused"
       /\ chType[r] = "unused" => MembersOf(r) = {}
  /\ \A d \in Dms :
       /\ chType[d] \in {"dm", "none"}
       /\ MembersOf(d) \subseteq d
       /\ ~MessagingCanInsert => chType[d] = "none" /\ MembersOf(d) = {}

-----------------------------------------------------------------------------
(***************************************************************************)
(* The admin API's handlers.  A request that answers 4xx or 5xx changes    *)
(* nothing and is no step.                                                 *)
(***************************************************************************)

\* Create: one transaction inserts the channel and, as its owner, the admin,
\* whose id is one of admin_users and of no chat user.
CreateChannel(r, type) ==
  /\ AdminCanInsertChannel
  /\ chType[r] = "unused"
  /\ chType' = [chType EXCEPT ![r] = type]
  /\ UNCHANGED <<schema, members, users>>

\* Delete: the row of channels goes, its members and messages stay.
DeleteChannel(ch) ==
  /\ Exists(ch)
  /\ chType' = [chType EXCEPT ![ch] = "none"]
  /\ UNCHANGED <<schema, members, users>>

\* AddMember: it looks neither at the channel nor at its type.
AddMember(ch, u) ==
  /\ AdminCanInsertMember
  /\ chType[ch] # "unused"
  /\ <<ch, u>> \notin members
  /\ members' = members \cup {<<ch, u>>}
  /\ UNCHANGED <<schema, chType, users>>

RemoveMember(ch, u) ==
  /\ <<ch, u>> \in members
  /\ members' = members \ {<<ch, u>>}
  /\ UNCHANGED <<schema, chType, users>>

\* users.Delete: membership rows stay, and so do live connections.
DeleteUser(u) ==
  /\ u \in users
  /\ users' = users \ {u}
  /\ UNCHANGED <<schema, chType, members>>

-----------------------------------------------------------------------------
(***************************************************************************)
(* The transaction of findOrCreateDMChannel: three INSERTs, none with an   *)
(* ON CONFLICT clause, so that one existing row rolls all of them back.    *)
(***************************************************************************)
DmInsertable(d) ==
  /\ MessagingCanInsert
  /\ ~Exists(d)
  /\ MembersOf(d) \cap d = {}

InsertDm(d) ==
  /\ DmInsertable(d)
  /\ chType' = [chType EXCEPT ![d] = "dm"]
  /\ members' = members \cup {<<d, u>> : u \in d}
  /\ UNCHANGED <<schema, users>>
=============================================================================

----------------------------- MODULE MCDirectory -----------------------------
(***************************************************************************)
(* Starting on an empty platform.db, and the directory in it once the      *)
(* tables are there, in a small instance.                                  *)
(***************************************************************************)
EXTENDS Platform, TLC
CONSTANTS
  user1, user2, user3, role1, role2, dept1, bob, reader, writer, perms1, perms2, req1, req2

MCUsers == {user1, user2, user3}
MCRoles == {role1, role2}
MCDepts == {dept1}
MCNames == {Default, bob}
MCRoleNames == {reader, writer}
MCPerms == {perms1, perms2}
MCReqs == {req1, req2}
Symmetry == Permutations(MCUsers) \cup Permutations(MCRoles) \cup Permutations(MCRoleNames)
            \cup Permutations(MCPerms) \cup Permutations(MCReqs)

VARIABLE part
MCVars == <<vars, part>>

MCInit == Init /\ part \in {"startup", "people", "roles"}

\* Which tables there are decides what INSERTs can succeed; those of the
\* directory always can when their service is up (WhoCanStore), so that the
\* starts are looked at in every order without the directory, and the directory
\* with the services up or starting one by one; of the directory the requests
\* about people apart from those about roles.
AllUp == \A s \in Services : Up(s)
Turn == IF ~ Up("auth") THEN "auth" ELSE IF ~ Up("messaging") THEN "messaging" ELSE "admin"

MCNext ==
  /\ \/ part = "startup" /\ (CreateStep \/ StartStep)
     \/ part # "startup" /\ ~ AllUp /\ Create(Turn) /\ UNCHANGED directoryVars
     \/ part # "startup" /\ AllUp /\ StartStep
     \/ /\ AllUp
        /\ \/ part = "people" /\ (AuthStep \/ AdminStep \/ PeopleStep)
           \/ part = "roles" /\ (AdminStep \/ RoleStep)
        /\ UNCHANGED startupVars
  /\ UNCHANGED part

\* Its behaviours are behaviours of Spec.
MCSpec == MCInit /\ [][MCNext]_MCVars
=============================================================================

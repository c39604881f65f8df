------------------------------ MODULE Platform ------------------------------
(***************************************************************************)
(* platform.db from the first start of the services on: each creates its   *)
(* tables, and then the two that keep the directory in them go on to their *)
(* administrators and users.                                               *)
(***************************************************************************)
EXTENDS Startup, Directory

vars == <<startupVars, directoryVars>>

\* Types of both.
TypeOK == StartupTypeOK /\ DirectoryTypeOK

Init == StartupInit /\ DirectoryInit

\* A statement of initDB or migrate.
CreateStep ==
  /\ \E s \in Services : Create(s)
  /\ UNCHANGED directoryVars

\* A service that has its tables has begun with its directory, and loses its
\* requests; of messaging's nothing is told here.
StartStep ==
  \E s \in Services :
    /\ StartAgain(s)
    /\ IF s # "messaging" /\ Up(s) THEN StartMain(s) ELSE UNCHANGED directoryVars

DirectoryStep ==
  /\ \/ Up("auth") /\ AuthStep
     \/ Up("admin") /\ (AdminStep \/ PeopleStep \/ RoleStep)
  /\ UNCHANGED startupVars

Next == CreateStep \/ StartStep \/ DirectoryStep

Spec == Init /\ [][Next]_vars
=============================================================================

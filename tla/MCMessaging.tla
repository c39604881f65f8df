---------------------------- MODULE MCMessaging ----------------------------
(***************************************************************************)
(* Small instances of Messaging for TLC.                                   *)
(***************************************************************************)
EXTENDS Messaging, TLC

CONSTANTS u1, u2, r1, c1, c2, h1

\* platform.db as the admin API created it, and as messaging created it.
AdminSchema == [channels |-> "admin", members |-> "admin"]
MessagingSchema == [channels |-> "messaging", members |-> "messaging"]

BothSchemas == {AdminSchema, MessagingSchema}
OnlyMessagingSchema == {MessagingSchema}

MCUsers == {u1, u2}
MCRooms == {r1}
MCConns == {c1, c2}
MCHttps == {h1}
NoHttps == {}
MCTargets == {r1, u1, u2}
OneOfEach == {r1, u2}

\* A database in which no service has written anything yet.
FreshSpec ==
  /\ Init /\ members = {}
  /\ \A ch \in Channels : ~Exists(ch)
  /\ [][Next]_vars

Sym == Permutations(MCUsers) \cup Permutations(MCConns)
=============================================================================

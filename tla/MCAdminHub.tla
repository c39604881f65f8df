----------------------------- MODULE MCAdminHub -----------------------------
(***************************************************************************)
(* Small instances of AdminHub for TLC.                                    *)
(***************************************************************************)
EXTENDS AdminHub
CONSTANTS a, b, d

MCClients == {a, b}
ThreeClients == {a, b, d}
=============================================================================

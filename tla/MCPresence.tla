----------------------------- MODULE MCPresence -----------------------------
(***************************************************************************)
(* Small instances of Presence for TLC.                                    *)
(***************************************************************************)
EXTENDS Presence
CONSTANTS p, b, c

MCUsers == {p}
MCBeats == {b, c}
MCStatuses == {"offline", "online", "busy"}
=============================================================================

---------------------------- MODULE MCFileTransfer ----------------------------
(***************************************************************************)
(* Small instances of RateLimiter, with the handlers of the file transfer  *)
(* service behind the variant that it uses, for TLC.                       *)
(***************************************************************************)
EXTENDS FileTransfer, TLC
CONSTANTS req1, req2, req3, ip1, ip2, file1, file2

MCReqs == {req1, req2, req3}
MCIps == {ip1, ip2}
MCIds == {file1, file2}
MCVariants == {"clockFirst", "lockFirst"}
Symmetry == Permutations(MCReqs) \cup Permutations(MCIps) \cup Permutations(MCIds)
=============================================================================

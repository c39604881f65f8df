---------------------------- MODULE FileTransfer ----------------------------
(***************************************************************************)
(* The file transfer service behind its rate limiter: an upload is let     *)
(* through, reads its body until the server's ReadTimeout, makes its file, *)
(* writes it in two parts and answers with the id; a failure at any point  *)
(* leaves the file as it is, and so does a crash, after which the limiter  *)
(* is a new one.  Only a request of the variant "lockFirst", the limiter   *)
(* of this service, gets to these handlers.                                *)
(***************************************************************************)
EXTENDS RateLimiter

CONSTANTS
  Ids,         \* file ids: uuids, new for each upload
  ReadTimeout  \* 30 seconds, half a Window

NoFile == "none"

ASSUME FileAssumption ==
  /\ ReadTimeout \in Nat /\ ReadTimeout <= Window
  /\ NoFile \notin Ids

VARIABLES
  job,   \* per request: what its upload does next, and the id of its file
  disk,  \* per id, how much of its file is there
  known  \* the ids a client was told, by a 201

storageVars == <<job, disk, known>>
fileVars == <<vars, storageVars>>

NoJob == [next |-> "none", id |-> NoFile]

StorageTypeOK ==
  /\ TypeOK
  /\ job \in [Reqs -> [next : {"none", "body", "iv", "ciphertext", "answer"}, id : Ids \cup {NoFile}]]
  /\ \A r \in Reqs : pc[r] # "handle" => job[r] = NoJob
  /\ disk \in [Ids -> {NoFile, "part", "whole"}]
  /\ known \in SUBSET Ids

FilesInit ==
  /\ Init
  /\ job = [r \in Reqs |-> NoJob]
  /\ disk = [i \in Ids |-> NoFile]
  /\ known = {}

Proceed(r, step) == job' = [job EXCEPT ![r].next = step] /\ UNCHANGED vars

-----------------------------------------------------------------------------
(***************************************************************************)
(* Mutants, unused by the specification: a short write goes unnoticed; the *)
(* file is made once the file is read, under a name that is taken.         *)
(***************************************************************************)
MutUploadFails(r) ==
  /\ job[r].next \in {"iv", "ciphertext"}
  /\ Proceed(r, "answer")
  /\ UNCHANGED <<disk, known>>

MutAnswer(r) == Finish(r) /\ UNCHANGED job

MutTime == Tick /\ UNCHANGED storageVars

-----------------------------------------------------------------------------
\* The answer is given, whatever it is.
Answer(r) ==
  /\ Finish(r)
  /\ job' = [job EXCEPT ![r] = NoJob]

(***************************************************************************)
(* withRequestTrace                                                        *)
(***************************************************************************)

\* The server cuts off a body that takes longer than ReadTimeout.
Time ==
  /\ Tick
  /\ \A r \in Reqs : job[r].next = "body" => now < stamp[r] + ReadTimeout
  /\ UNCHANGED storageVars

Limited(r) ==
  /\ \/ \E a \in Ips : Arrive(r, a)
     \/ AllowClockFirst(r) \/ AllowLockFirst(r)
     \/ (variant = "clockFirst" \/ pc[r] = "refuse") /\ Finish(r)
  /\ UNCHANGED storageVars

Handling(r) == variant = "lockFirst" /\ pc[r] = "handle" /\ job[r] = NoJob

-----------------------------------------------------------------------------
(***************************************************************************)
(* UploadHandler                                                           *)
(***************************************************************************)

\* A multipart POST, whose body FormFile reads; once the deadline has passed it
\* fails at its first read.
Upload(r) ==
  /\ Handling(r)
  /\ now <= stamp[r] + ReadTimeout
  /\ Proceed(r, "body")
  /\ UNCHANGED <<disk, known>>

\* 400 or 500 before there is a file: of another kind, not read in time or not
\* to the end, too long a name, or the file cannot be made.
Reject(r) ==
  /\ job[r].next = "body" \/ Handling(r)
  /\ Answer(r)
  /\ UNCHANGED <<disk, known>>

Create(r) ==
  /\ job[r].next = "body"
  /\ \E i \in {j \in Ids : disk[j] = NoFile} :
       /\ job' = [job EXCEPT ![r] = [next |-> "iv", id |-> i]]
       /\ disk' = [disk EXCEPT ![i] = "part"]
  /\ UNCHANGED <<vars, known>>

\* 500, and the file stays: no randomness, or a write that fails half-way.
UploadFails(r) ==
  /\ job[r].next \in {"iv", "ciphertext"}
  /\ Answer(r)
  /\ UNCHANGED <<disk, known>>

WriteIv(r) ==
  /\ job[r].next = "iv"
  /\ Proceed(r, "ciphertext")
  /\ UNCHANGED <<disk, known>>

WriteCiphertext(r) ==
  /\ job[r].next = "ciphertext"
  /\ Proceed(r, "answer")
  /\ disk' = [disk EXCEPT ![job[r].id] = "whole"]
  /\ UNCHANGED known

\* 201 with id and key, unless the client is gone: then nobody knows either.
Created(r) ==
  /\ job[r].next = "answer"
  /\ Answer(r)
  /\ known' = known \cup {job[r].id} \/ UNCHANGED known
  /\ UNCHANGED disk

-----------------------------------------------------------------------------
\* DownloadHandler serves the file of the id it is given, or 404; it and
\* /health change nothing.
Download(r) ==
  /\ Handling(r)
  /\ Answer(r)
  /\ UNCHANGED <<disk, known>>

\* The service stops anywhere and starts again; what is in its memory is gone.
Crash ==
  /\ Restart
  /\ job' = [r \in Reqs |-> NoJob]
  /\ UNCHANGED <<disk, known>>

FilesNext ==
  \/ Time
  \/ \E r \in Reqs :
       \/ Limited(r) \/ Download(r)
       \/ Upload(r) \/ Reject(r) \/ Create(r) \/ UploadFails(r)
       \/ WriteIv(r) \/ WriteCiphertext(r) \/ Created(r)
  \/ Crash

FilesSpec == FilesInit /\ [][FilesNext]_fileVars

-----------------------------------------------------------------------------
(***************************************************************************)
(* Properties                                                              *)
(***************************************************************************)

(***************************************************************************)
(* What a client was given an id for is there, all of it, whatever failed  *)
(* or crashed since and however many failed uploads left pieces behind;    *)
(* and an upload under way writes to none of these                         *)
(* (filetransfer 162-229).                                                 *)
(***************************************************************************)
Stored ==
  \A i \in known :
    /\ disk[i] = "whole"
    /\ \A r \in Reqs : job[r].id # i

(***************************************************************************)
(* However slowly clients send, the service never receives more than Limit *)
(* bodies of one address at a time: a body is cut off before its request   *)
(* leaves the limiter's window (filetransfer 58-79, 106-119, 265-272).     *)
(***************************************************************************)
BodiesBounded ==
  \A a \in Ips : Cardinality({r \in Reqs : ip[r] = a /\ job[r].next = "body"}) <= Limit
=============================================================================

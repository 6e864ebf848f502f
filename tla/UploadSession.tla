---------------------------- MODULE UploadSession ----------------------------
(***************************************************************************)
(* One resumable upload of the file manager: init, uploadPart, finalize,   *)
(* cancel and the sweep of expired sessions (upload-session.service.ts,    *)
(* upload-session.cron.ts), over a row in Postgres and a large file in B2. *)
(* A request is cut at every await; the bytes of a part are always those   *)
(* of the same file, so that its checksum is not told apart from it.       *)
(***************************************************************************)
EXTENDS Integers, FiniteSets

CONSTANTS Sizes,        \* the numbers of chunks an upload may have
          MaxRequests,  \* bound of the requests and cron ticks, numbered as they come
          MaxExpiries,  \* bound of the times the session reaches its expiresAt
          MaxFaults     \* bound of calls that fail or whose answer is lost

VARIABLES row,      \* FileManagerUploadSession: status, partsReceived, expiresAt
          b2,       \* the large file, or the object of a single-shot upload
          file,     \* FileManagerFile rows made from the session
          folder,   \* the folder the file goes to
          req,      \* the requests under way
          expiries, faults

vars == <<row, b2, file, folder, req, expiries, faults>>

Requests == 1..MaxRequests
Parts == 1..row.total
Large == row.total > 1
Idle == [pc |-> "idle", part |-> 0, seen |-> {}]

Init ==
    /\ row = [status |-> "none", total |-> 0, parts |-> {}, life |-> "fresh"]
    /\ b2 = [state |-> "none", parts |-> {}]
    /\ file = 0 /\ folder = "there"
    /\ req = [r \in Requests |-> Idle]
    /\ expiries = 0 /\ faults = 0

Goto(r, pc) == [req EXCEPT ![r].pc = pc]
End(r) == Goto(r, "done")
Fault == faults < MaxFaults /\ faults' = faults + 1
Comes(r) == req[r].pc = "idle" /\ \A q \in 1..(r - 1) : req[q].pc # "idle"
Same == UNCHANGED <<expiries, faults>>

-----------------------------------------------------------------------------
(* init: the large file is started before the row is created.              *)

Start(n) ==
    /\ row.status = "none" /\ b2.state = "none" /\ row.total = 0
    /\ row' = [row EXCEPT !.total = n]
    /\ b2' = [b2 EXCEPT !.state = IF n > 1 THEN "open" ELSE "none"]
    /\ UNCHANGED <<file, folder, req>> /\ Same

CreateRow ==
    /\ row.status = "none" /\ row.total # 0
    /\ \/ row' = [row EXCEPT !.status = "OPEN"] /\ UNCHANGED faults
       \/ row' = [row EXCEPT !.status = "failed"] /\ Fault
    /\ UNCHANGED <<b2, file, folder, req, expiries>>

-----------------------------------------------------------------------------
(* uploadPart.                                                             *)

EnsureOpen == row.status = "OPEN" /\ row.life = "fresh"

PartRead(r, p) ==
    /\ Comes(r) /\ EnsureOpen
    /\ req' = [req EXCEPT ![r] = [pc |-> "put", part |-> p, seen |-> {}]]
    /\ UNCHANGED <<row, b2, file, folder>> /\ Same

Put(r) == IF Large THEN [b2 EXCEPT !.parts = @ \union {req[r].part}]
                   ELSE [state |-> "done", parts |-> {req[r].part}]
Accepted == Large => b2.state = "open"

PutPart(r) ==
    /\ req[r].pc = "put"
    /\ IF Accepted THEN b2' = Put(r) /\ req' = Goto(r, "read")
                   ELSE UNCHANGED b2 /\ req' = End(r)
    /\ UNCHANGED <<row, file, folder>> /\ Same

\* The call fails, or its answer is lost after B2 took the part.
PutFails(r) ==
    /\ req[r].pc = "put" /\ Fault
    /\ b2' \in {b2, IF Accepted THEN Put(r) ELSE b2}
    /\ req' = End(r)
    /\ UNCHANGED <<row, file, folder, expiries>>

\* The transaction reads and writes without a lock.
TxRead(r) ==
    /\ req[r].pc = "read"
    /\ req' = [req EXCEPT ![r].pc = "write", ![r].seen = row.parts]
    /\ UNCHANGED <<row, b2, file, folder>> /\ Same

TxWrite(r) ==
    /\ req[r].pc = "write"
    /\ row' = [row EXCEPT !.parts = req[r].seen \union {req[r].part}, !.life = "fresh"]
    /\ req' = End(r)
    /\ UNCHANGED <<b2, file, folder, expiries, faults>>

-----------------------------------------------------------------------------
(* finalize: complete in B2 first, then one transaction for row and status. *)

\* Mutant: the missing parts are not looked for.
NothingMissingAny == TRUE
NothingMissing == row.parts = Parts

FinalizeRead(r) ==
    /\ Comes(r) /\ EnsureOpen /\ NothingMissing
    /\ req' = [req EXCEPT ![r] = [pc |-> IF Large THEN "finish" ELSE "commit",
                                  part |-> 0, seen |-> row.parts]]
    /\ UNCHANGED <<row, b2, file, folder>> /\ Same

\* B2 wants one checksum for each part that it holds.
Finishes(r) == b2.state = "open" /\ b2.parts = req[r].seen

FinishLarge(r) ==
    /\ req[r].pc = "finish"
    /\ IF Finishes(r) THEN b2' = [b2 EXCEPT !.state = "done"] /\ req' = Goto(r, "commit")
                      ELSE UNCHANGED b2 /\ req' = End(r)
    /\ UNCHANGED <<row, file, folder>> /\ Same

FinishFails(r) ==
    /\ req[r].pc = "finish" /\ Fault
    /\ b2' \in {b2, IF Finishes(r) THEN [b2 EXCEPT !.state = "done"] ELSE b2}
    /\ req' = End(r)
    /\ UNCHANGED <<row, file, folder, expiries>>

\* The row needs its folder, and storageKey is unique.
Commit(r) ==
    /\ req[r].pc = "commit"
    /\ IF folder = "there" /\ file = 0
       THEN /\ file' = file + 1
            /\ row' = [row EXCEPT !.status = "FINALIZED"]
       ELSE UNCHANGED <<file, row>>
    /\ req' = End(r)
    /\ UNCHANGED <<b2, folder>> /\ Same

CommitFails(r) ==
    /\ req[r].pc = "commit" /\ Fault
    /\ req' = End(r)
    /\ UNCHANGED <<row, b2, file, folder, expiries>>

-----------------------------------------------------------------------------
(* cancel and sweepExpired: cancel in B2, then mark the row by its id.     *)

CancelRead(r) ==
    /\ Comes(r) /\ row.status = "OPEN"
    /\ req' = Goto(r, "drop")
    /\ UNCHANGED <<row, b2, file, folder>> /\ Same

SweepRead(r) ==
    /\ Comes(r) /\ row.status = "OPEN" /\ row.life = "expired"
    /\ req' = Goto(r, "drop")
    /\ UNCHANGED <<row, b2, file, folder>> /\ Same

\* Mutant: the file is cancelled by name, finished or not.
CancelledAny == IF Large THEN [state |-> "cancelled", parts |-> {}] ELSE b2
Cancelled == IF b2.state = "open" THEN [state |-> "cancelled", parts |-> {}] ELSE b2

\* cancelLarge swallows every error.
Drop(r) ==
    /\ req[r].pc = "drop"
    /\ \/ b2' = Cancelled /\ UNCHANGED faults
       \/ UNCHANGED b2 /\ Fault
    /\ req' = Goto(r, "mark")
    /\ UNCHANGED <<row, file, folder, expiries>>

Mark(r) ==
    /\ req[r].pc = "mark"
    /\ \/ row' = [row EXCEPT !.status = "ABORTED"] /\ UNCHANGED faults
       \/ UNCHANGED row /\ Fault
    /\ req' = End(r)
    /\ UNCHANGED <<b2, file, folder, expiries>>

-----------------------------------------------------------------------------

Expire ==
    /\ expiries < MaxExpiries /\ expiries' = expiries + 1
    /\ row.status # "none" /\ row.life = "fresh"
    /\ row' = [row EXCEPT !.life = "expired"]
    /\ UNCHANGED <<b2, file, folder, req, faults>>

\* deleteFolder of the file manager, before there is a file in it.
FolderDeleted ==
    /\ folder = "there" /\ file = 0
    /\ folder' = "gone"
    /\ UNCHANGED <<row, b2, file, req>> /\ Same

RequestStep(r) ==
    \/ \E p \in Parts : PartRead(r, p)
    \/ PutPart(r) \/ PutFails(r) \/ TxRead(r) \/ TxWrite(r)
    \/ FinalizeRead(r) \/ FinishLarge(r) \/ FinishFails(r) \/ Commit(r) \/ CommitFails(r)
    \/ CancelRead(r) \/ SweepRead(r) \/ Drop(r) \/ Mark(r)

Next ==
    \/ \E n \in Sizes : Start(n)
    \/ CreateRow \/ Expire \/ FolderDeleted
    \/ \E r \in Requests : RequestStep(r)

Spec == Init /\ [][Next]_vars

-----------------------------------------------------------------------------
(* Properties.                                                             *)

\* Every variable keeps its type.
TypeOK ==
    /\ row \in [status : {"none", "failed", "OPEN", "FINALIZED", "ABORTED"},
                total : Sizes \union {0}, parts : SUBSET (1..row.total),
                life : {"fresh", "expired"}]
    /\ b2 \in [state : {"none", "open", "done", "cancelled"}, parts : SUBSET (1..row.total)]
    /\ file \in 0..1 /\ folder \in {"there", "gone"}
    /\ \A r \in Requests : req[r].pc \in {"idle", "put", "read", "write", "finish", "commit",
                                          "drop", "mark", "done"}

\* A file of the file manager is stored with all its parts, whichever parts,
\* finalizations, cancellations and sweeps ran at the same time.
FileComplete == file = 1 => b2.state = "done" /\ b2.parts = Parts

\* A part that the session has recorded is in B2, unless it was cancelled:
\* parallel parts may lose each other's record, never invent one.
RecordedIsStored == b2.state # "cancelled" => row.parts \subseteq b2.parts

\* Nobody is at work: every request is over.
Quiet == \A r \in Requests : req[r].pc \in {"idle", "done"}

\* Nothing stays behind unseen: a large file is only open under a session
\* that the sweep will find, and only finished under a file; but for failed
\* calls, and for a folder that was deleted between the two ends of finalize.
NothingLeaks ==
    /\ Quiet /\ row.status \notin {"none", "OPEN"} /\ b2.state = "open" => faults > 0
    /\ Quiet /\ Large /\ b2.state = "done" /\ file = 0 => faults > 0 \/ folder = "gone"

\* A session that says FINALIZED has its file; one that a cancellation or a
\* sweep has marked ABORTED over it lost nothing but the word.
FinalizedHasFile == row.status = "FINALIZED" => file = 1

\* What an upload promises under every interleaving.
UploadsSound ==
    /\ FileComplete
    /\ RecordedIsStored
    /\ NothingLeaks
    /\ FinalizedHasFile
=============================================================================

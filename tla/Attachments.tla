------------------------------ MODULE Attachments ------------------------------
(***************************************************************************)
(* Attachments of leads and clients, which lie on the disk of the server,   *)
(* and of employees and projects, which lie in a bucket: for each a row and *)
(* a file.  The two kinds write and remove the halves in another order.     *)
(***************************************************************************)
EXTENDS Integers

CONSTANTS Requests,
          MaxRequests    \* bound of the requests that begin; one attachment for each

Places == {"disk", "bucket"}

VARIABLES owners,    \* places whose owner exists
          rows,      \* attachments that have a row
          files,     \* attachments that have a file
          placeOf,   \* where an attachment belongs
          req,       \* requests at work
          begun,     \* requests so far
          left,      \* history: files that a failure may have left behind
          lost       \* history: rows that a failure may have left without a file

vars == <<owners, rows, files, placeOf, req, begun, left, lost>>

Ids == 1..MaxRequests
Idle == [pc |-> "idle", id |-> 0]

Init ==
    /\ owners = Places /\ rows = {} /\ files = {} /\ placeOf = [i \in Ids |-> "none"]
    /\ req = [r \in Requests |-> Idle] /\ begun = 0 /\ left = {} /\ lost = {}

Goto(r, pc, i) == req' = [req EXCEPT ![r] = [pc |-> pc, id |-> i]]
To(r, pc) == req' = [req EXCEPT ![r].pc = pc]
Done(r) == req' = [req EXCEPT ![r] = Idle]
Fresh(r) == req[r].pc = "idle" /\ begun < MaxRequests /\ begun' = begun + 1
OnDisk(r) == placeOf[req[r].id] = "disk"

-----------------------------------------------------------------------------
(* upload: the file first, under a key of its own, and then the row.       *)

UploadBegins(r, place) ==
    /\ place \in owners /\ Fresh(r)
    /\ placeOf' = [placeOf EXCEPT ![begun + 1] = place] /\ Goto(r, "put", begun + 1)
    /\ UNCHANGED <<owners, rows, files, left, lost>>
PutFile(r) ==
    /\ req[r].pc = "put"
    /\ \/ files' = files \union {req[r].id} /\ To(r, "create")
       \/ UNCHANGED files /\ Done(r)
    /\ UNCHANGED <<owners, rows, placeOf, begun, left, lost>>
CreateRow(r) ==
    /\ req[r].pc = "create" /\ placeOf[req[r].id] \in owners
    /\ rows' = rows \union {req[r].id} /\ Done(r)
    /\ UNCHANGED <<owners, files, placeOf, begun, left, lost>>

\* When the row cannot be written a file on the disk is taken back, and an object
\* in the bucket stays.
\* Mutant: nothing is taken back.
RowFailsQuietly(r) ==
    /\ req[r].pc = "create" /\ Done(r)
    /\ left' = left \union (IF OnDisk(r) THEN {} ELSE {req[r].id})
    /\ UNCHANGED <<owners, rows, files, placeOf, begun, lost>>
RowFails(r) ==
    /\ req[r].pc = "create"
    /\ IF OnDisk(r) THEN To(r, "unlink") /\ UNCHANGED left
                    ELSE Done(r) /\ left' = left \union {req[r].id}
    /\ UNCHANGED <<owners, rows, files, placeOf, begun, lost>>

-----------------------------------------------------------------------------
(* remove.                                                                 *)

RemoveBegins(r, i) ==
    /\ i \in rows /\ Fresh(r)
    /\ Goto(r, IF placeOf[i] = "disk" THEN "dropRow" ELSE "dropObject", i)
    /\ UNCHANGED <<owners, rows, files, placeOf, left, lost>>
\* An object that is not found any more is no obstacle; any other error is.
DropObject(r) ==
    /\ req[r].pc = "dropObject"
    /\ \/ files' = files \ {req[r].id} /\ To(r, "dropRow")
       \/ UNCHANGED files /\ Done(r)
    /\ UNCHANGED <<owners, rows, placeOf, begun, left, lost>>
\* A row that is gone, or a database that is, ends the request with an error.
DropRow(r) ==
    /\ req[r].pc = "dropRow"
    /\ \/ /\ req[r].id \in rows /\ rows' = rows \ {req[r].id} /\ UNCHANGED lost
          /\ IF OnDisk(r) THEN To(r, "unlink") ELSE Done(r)
       \/ /\ Done(r) /\ UNCHANGED rows
          /\ lost' = lost \union (IF OnDisk(r) THEN {} ELSE {req[r].id})
    /\ UNCHANGED <<owners, files, placeOf, begun, left>>
\* The last step of a removal, or of an upload without a row, may fail silently.
Unlink(r) ==
    /\ req[r].pc = "unlink" /\ Done(r)
    /\ \/ files' = files \ {req[r].id} /\ UNCHANGED left
       \/ left' = left \union {req[r].id} /\ UNCHANGED files
    /\ UNCHANGED <<owners, rows, placeOf, begun, lost>>

-----------------------------------------------------------------------------
(* The owner goes, and a restart.                                          *)

\* The rows follow by the foreign key, the files stay.
OwnerRemoved(place) ==
    /\ place \in owners /\ owners' = owners \ {place}
    /\ LET gone == {i \in rows : placeOf[i] = place} IN rows' = rows \ gone /\ left' = left \union gone
    /\ UNCHANGED <<files, placeOf, req, begun, lost>>

Crash ==
    /\ \E r \in Requests : req[r].pc # "idle"
    /\ LET atWork(pcs) == {req[r].id : r \in {q \in Requests : req[q].pc \in pcs}} IN
       /\ left' = left \union atWork({"create", "unlink"})
       /\ lost' = lost \union {i \in atWork({"dropRow"}) : placeOf[i] = "bucket"}
    /\ req' = [r \in Requests |-> Idle]
    /\ UNCHANGED <<owners, rows, files, placeOf, begun>>

Next ==
    \/ Crash
    \/ \E place \in Places : OwnerRemoved(place)
    \/ \E r \in Requests :
          \/ \E place \in Places : UploadBegins(r, place)
          \/ PutFile(r) \/ CreateRow(r) \/ RowFails(r)
          \/ \E i \in Ids : RemoveBegins(r, i)
          \/ DropObject(r) \/ DropRow(r) \/ Unlink(r)

Spec == Init /\ [][Next]_vars

-----------------------------------------------------------------------------
(* Properties.                                                             *)

\* Every variable keeps its type.
TypeOK ==
    /\ owners \subseteq Places /\ placeOf \in [Ids -> Places \union {"none"}]
    /\ rows \union files \union left \union lost \subseteq Ids
    /\ \A r \in Requests : req[r].id \in 0..MaxRequests

\* What is listed can be opened: on the disk always, across failures and restarts;
\* in the bucket unless its removal is half-way, or failed there.
RowHasFile ==
    \A i \in rows :
        \/ i \in files
        \/ placeOf[i] = "bucket" /\ (i \in lost \/ \E r \in Requests : req[r] = [pc |-> "dropRow", id |-> i])

\* At rest no file lies without a row, except where the deletion of the file failed,
\* the row of an object could not be written, the owner was deleted, or the service
\* was restarted between the two.
NoStrayFiles == (\A r \in Requests : req[r].pc = "idle") => files \subseteq rows \union left

AttachmentsSound ==
    /\ RowHasFile
    /\ NoStrayFiles
=============================================================================

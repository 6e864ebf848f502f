------------------------------ MODULE ClientIntake ------------------------------
(***************************************************************************)
(* ClientRequestsService: one request from the site with its files.  The    *)
(* row comes first, the files go to the store side by side, and the first   *)
(* failure starts a cleanup while the others are still on their way; the    *)
(* operators' list shows the row, and can remove it, from the start.        *)
(***************************************************************************)
EXTENDS Integers, FiniteSets

CONSTANTS Files,       \* the files of the form
          Removers     \* operators at work on the list

VARIABLES row,       \* "none", "empty" before its files are saved, "full", or "gone"
          objects,   \* files in the store
          flying,    \* uploads on their way
          keys,      \* keys the form knows of: files stored, not yet cleaned up
          create,    \* step of the form
          remove,    \* steps of the removals
          event,     \* a notification was created
          excused,   \* history: objects that may be left over
          taken,     \* history: files that a removal deleted
          crashed    \* history: the service stopped under the form

vars == <<row, objects, flying, keys, create, remove, event, excused, taken, crashed>>

Idle == [pc |-> "idle"]
There == row \in {"empty", "full"}

Init ==
    /\ row = "none" /\ objects = {} /\ flying = {} /\ keys = {} /\ create = "form"
    /\ remove = [o \in Removers |-> Idle] /\ event = FALSE /\ excused = {} /\ taken = {} /\ crashed = FALSE

-----------------------------------------------------------------------------
(* create.                                                                 *)

CreateRow ==
    /\ create = "form" /\ create' = "upload"
    /\ row' = "empty" /\ flying' = Files
    /\ UNCHANGED <<objects, keys, remove, event, excused, crashed, taken>>

\* After the cleanup has gone through its keys nobody looks at a late one.
Land(f) ==
    /\ f \in flying
    /\ flying' = flying \ {f} /\ objects' = objects \union {f} /\ keys' = keys \union {f}
    /\ excused' = excused \union (IF create \in {"dropRow", "failed"} THEN {f} ELSE {})
    /\ UNCHANGED <<row, create, remove, event, crashed, taken>>

\* The store refuses the file, or keeps it and the answer is lost.
Fail(f) ==
    /\ f \in flying
    /\ flying' = flying \ {f}
    /\ create' = IF create = "upload" THEN "cleanup" ELSE create
    /\ \/ UNCHANGED <<objects, excused>>
       \/ objects' = objects \union {f} /\ excused' = excused \union {f}
    /\ UNCHANGED <<row, keys, remove, event, crashed, taken>>

\* All are stored; the update fails when the row was removed meanwhile.
SaveFiles ==
    /\ create = "upload" /\ flying = {}
    /\ \/ There /\ row' = "full" /\ create' = "announce"
       \/ create' = "cleanup" /\ UNCHANGED row
    /\ UNCHANGED <<objects, flying, keys, remove, event, excused, crashed, taken>>

\* cleanupOrphans: key by key, those that came in meanwhile included; a failure
\* is logged and left.
Orphans == keys
CleanKey(f) ==
    /\ create = "cleanup" /\ f \in Orphans /\ keys' = keys \ {f}
    /\ \/ objects' = objects \ {f} /\ UNCHANGED excused
       \/ excused' = excused \union {f} /\ UNCHANGED objects
    /\ UNCHANGED <<row, flying, create, remove, event, crashed, taken>>
\* Mutant: the cleanup of an empty list of keys is all there is to it.
CleanedAtOnce == TRUE
Cleaned == Orphans = {}

CleanupEnds ==
    /\ create = "cleanup" /\ Cleaned
    /\ create' = "dropRow"
    /\ UNCHANGED <<row, objects, flying, keys, remove, event, excused, crashed, taken>>

DropRow ==
    /\ create = "dropRow" /\ create' = "failed"
    /\ row' \in {row, "gone"}
    /\ UNCHANGED <<objects, flying, keys, remove, event, excused, crashed, taken>>

\* The notification may fail; the form answers all the same.
Announce ==
    /\ create = "announce" /\ create' = "done"
    /\ event' \in BOOLEAN
    /\ UNCHANGED <<row, objects, flying, keys, remove, excused, crashed, taken>>

-----------------------------------------------------------------------------
(* remove and bulkRemove.                                                  *)

\* The folder is worked out from the first file of the row that was read; a row
\* without files names a folder in which the form stores nothing.
RemoveBegins(o, bulk) ==
    /\ There /\ remove[o].pc = "idle"
    /\ remove' = [remove EXCEPT ![o] = [pc |-> "folder", bulk |-> bulk, folder |-> IF row = "full" THEN Files ELSE {}]]
    /\ UNCHANGED <<row, objects, flying, keys, create, event, excused, crashed, taken>>

\* deleteFolder may stop half-way: the single removal gives up, a bulk one goes on.
DeleteFolder(o) ==
    /\ remove[o].pc = "folder"
    /\ \E left \in SUBSET (objects \intersect remove[o].folder) :
          /\ objects' = (objects \ remove[o].folder) \union left
          /\ excused' = excused \union left /\ taken' = taken \union (remove[o].folder \ left)
          /\ remove' = [remove EXCEPT ![o] = IF left = {} \/ remove[o].bulk
                                             THEN [@ EXCEPT !.pc = "row"] ELSE Idle]
    /\ UNCHANGED <<row, flying, keys, create, event, crashed>>

\* What is stored, or will be, in a folder that this removal did not know.
DeleteRow(o) ==
    /\ remove[o].pc = "row"
    /\ row' = IF There THEN "gone" ELSE row
    /\ excused' = excused \union (IF create \in {"announce", "done"} THEN Files \ remove[o].folder ELSE {})
    /\ remove' = [remove EXCEPT ![o] = Idle]
    /\ UNCHANGED <<objects, flying, keys, create, event, crashed, taken>>

Crash ==
    /\ create \notin {"form", "done", "failed"} /\ ~crashed /\ crashed' = TRUE
    /\ create' = "failed" /\ flying' = {} /\ keys' = {}
    /\ remove' = [o \in Removers |-> Idle]
    /\ UNCHANGED <<row, objects, event, excused, taken>>

Next ==
    \/ CreateRow \/ SaveFiles \/ CleanupEnds \/ DropRow \/ Announce \/ Crash
    \/ \E f \in Files : Land(f) \/ Fail(f) \/ CleanKey(f)
    \/ \E o \in Removers :
          \/ \E bulk \in BOOLEAN : RemoveBegins(o, bulk)
          \/ DeleteFolder(o) \/ DeleteRow(o)

Spec == Init /\ [][Next]_vars

-----------------------------------------------------------------------------
(* Properties.                                                             *)

\* Every variable keeps its type.
TypeOK ==
    /\ row \in {"none", "empty", "full", "gone"} /\ event \in BOOLEAN
    /\ objects \union flying \union keys \union excused \union taken \subseteq Files
    /\ create \in {"form", "upload", "cleanup", "dropRow", "failed", "announce", "done"}

\* When all is over, a stored file without its row is one of these: it came in
\* after the cleanup had read its keys, the store failed over it, or a removal
\* began before the row named its files.
NothingLeftOver ==
    /\ create \in {"done", "failed"} /\ flying = {} /\ ~crashed
    /\ \A o \in Removers : remove[o].pc = "idle"
    => (row # "full" => objects \subseteq excused)

\* A row that names its files has them in the store, until a removal has begun.
FilesStored == row = "full" => Files \subseteq objects \union taken

\* Nobody is told of a form that failed.
AnnouncedIsSaved == event => create = "done" /\ row \in {"full", "gone"}

ClientIntakeSound ==
    /\ NothingLeftOver
    /\ FilesStored
    /\ AnnouncedIsSaved
=============================================================================

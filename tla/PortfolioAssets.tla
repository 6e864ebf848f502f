----------------------------- MODULE PortfolioAssets -----------------------------
(***************************************************************************)
(* PortfolioService: the cover and the gallery of one portfolio item, each  *)
(* asset an object in the store and a row.  An upload stores first and      *)
(* writes after; a new cover retires the one that its upload had read.      *)
(***************************************************************************)
EXTENDS Integers, FiniteSets

CONSTANTS Requests,
          MaxRequests,   \* bound of the requests that begin; one asset for each
          MaxGallery     \* the setting for the size of a gallery

VARIABLES item,      \* the item exists
          cover,     \* its coverAssetId, 0 for none
          rows,      \* assets that have a row, with their kinds
          objects,   \* assets that have an object in the store
          req,       \* the requests at work
          begun,     \* requests so far
          excused,   \* history: assets of which one half may be left over
          raced,     \* history: limits and covers read before another's write
          crashed

vars == <<item, cover, rows, objects, req, begun, excused, raced, crashed>>

Ids == 1..MaxRequests
Idle == [pc |-> "idle"]
KindOf(i) == {k \in {"COVER", "IMAGE"} : [id |-> i, kind |-> k] \in rows}
HasRow(i) == KindOf(i) # {}
RowsOf(kind) == {i \in Ids : [id |-> i, kind |-> kind] \in rows}
Without(i) == {x \in rows : x.id # i}

Init ==
    /\ item = TRUE /\ cover = 0 /\ rows = {} /\ objects = {}
    /\ req = [r \in Requests |-> Idle] /\ begun = 0 /\ excused = {} /\ raced = {} /\ crashed = FALSE

Goto(r, rec) == req' = [req EXCEPT ![r] = rec]
To(r, pc) == req' = [req EXCEPT ![r].pc = pc]
Fresh(r) == req[r].pc = "idle" /\ begun < MaxRequests /\ begun' = begun + 1

-----------------------------------------------------------------------------
(* uploadAsset.                                                            *)

\* assertUploadWithinLimits: covers are never counted.
\* Mutant: a full gallery takes one more.
FitsOneMore(kind) == kind = "COVER" \/ Cardinality(RowsOf("IMAGE")) <= MaxGallery
Fits(kind) == kind = "COVER" \/ Cardinality(RowsOf("IMAGE")) + 1 <= MaxGallery

UploadBegins(r, kind) ==
    /\ item /\ Fresh(r)
    /\ Goto(r, IF Fits(kind)
               THEN [pc |-> "store", id |-> begun + 1, kind |-> kind, old |-> cover, stale |-> FALSE]
               ELSE Idle)
    /\ UNCHANGED <<item, cover, rows, objects, excused, raced, crashed>>

\* An object may be stored and its answer lost: then nobody takes it back.
Store(r) ==
    /\ req[r].pc = "store"
    /\ \/ objects' = objects \union {req[r].id} /\ To(r, "row") /\ UNCHANGED excused
       \/ UNCHANGED <<objects, excused>> /\ Goto(r, Idle)
       \/ /\ objects' = objects \union {req[r].id} /\ Goto(r, Idle)
          /\ excused' = excused \union {req[r].id}
    /\ UNCHANGED <<item, cover, rows, begun, raced, crashed>>

\* A write puts the other uploads of the kind, which have read the gallery or the
\* cover before it, behind; a write that is behind itself is noted.
Overtaken(q, kind) ==
    IF q.pc \in {"store", "row", "point"} /\ q.kind = kind THEN [q EXCEPT !.stale = TRUE] ELSE q
Overtake(r, rec) == req' = [q \in Requests |-> IF q = r THEN rec ELSE Overtaken(req[q], req[r].kind)]
Note(r) == raced' = raced \union (IF req[r].stale THEN {req[r].kind} ELSE {})

\* A row whose answer is lost stays, though the cleanup takes its object.
CreateRow(r) ==
    /\ req[r].pc = "row"
    /\ \/ /\ item
          /\ rows' = rows \union {[id |-> req[r].id, kind |-> req[r].kind]}
          /\ \/ /\ UNCHANGED excused
                /\ IF req[r].kind = "COVER"
                   THEN To(r, "point") /\ UNCHANGED raced
                   ELSE Overtake(r, Idle) /\ Note(r)
             \/ /\ excused' = excused \union {req[r].id}
                /\ IF req[r].kind = "COVER"
                   THEN To(r, "cleanup") /\ UNCHANGED raced
                   ELSE Overtake(r, [req[r] EXCEPT !.pc = "cleanup"]) /\ Note(r)
       \/ To(r, "cleanup") /\ UNCHANGED <<rows, raced, excused>>
    /\ UNCHANGED <<item, cover, objects, begun, crashed>>

\* The item shows its new cover, whose row the foreign key wants; when that fails
\* the cleanup takes the object but leaves the row of it, and when only the answer
\* is lost the item shows a cover without an object and the old one is not retired.
PointCover(r) ==
    /\ req[r].pc = "point"
    /\ \/ /\ item /\ HasRow(req[r].id)
          /\ cover' = req[r].id /\ Note(r) /\ UNCHANGED excused
          /\ Overtake(r, IF req[r].old = 0 THEN Idle ELSE [req[r] EXCEPT !.pc = "retire"])
       \/ /\ item /\ HasRow(req[r].id)
          /\ cover' = req[r].id /\ Note(r) /\ Overtake(r, [req[r] EXCEPT !.pc = "cleanup"])
          /\ excused' = excused \union {req[r].id} \union ({req[r].old} \ {0})
       \/ To(r, "cleanup") /\ excused' = excused \union {req[r].id} /\ UNCHANGED <<cover, raced>>
    /\ UNCHANGED <<item, rows, objects, begun, crashed>>

\* A delete of an object, which may fail and is then only logged.
DeleteObject(i) ==
    \/ objects' = objects \ {i} /\ UNCHANGED excused
    \/ excused' = excused \union {i} /\ UNCHANGED objects

Cleanup(r) ==
    /\ req[r].pc = "cleanup" /\ DeleteObject(req[r].id) /\ Goto(r, Idle)
    /\ UNCHANGED <<item, cover, rows, begun, raced, crashed>>

RetireObject(r) ==
    /\ req[r].pc = "retire" /\ DeleteObject(req[r].old) /\ To(r, "retireRow")
    /\ UNCHANGED <<item, cover, rows, begun, raced, crashed>>
\* A row that is deleted while it is the cover leaves the item without one.
RetireRow(r) ==
    /\ req[r].pc = "retireRow"
    /\ \/ /\ rows' = Without(req[r].old) /\ cover' = (IF cover = req[r].old THEN 0 ELSE cover)
          /\ UNCHANGED excused
       \/ excused' = excused \union {req[r].old} /\ UNCHANGED <<rows, cover>>
    /\ Goto(r, Idle)
    /\ UNCHANGED <<item, objects, begun, raced, crashed>>

-----------------------------------------------------------------------------
(* removeAsset and remove.                                                 *)

RemoveAssetBegins(r, i) ==
    /\ HasRow(i) /\ Fresh(r)
    /\ Goto(r, [pc |-> "drop", id |-> i])
    /\ UNCHANGED <<item, cover, rows, objects, excused, raced, crashed>>
DropObject(r) ==
    /\ req[r].pc = "drop" /\ DeleteObject(req[r].id) /\ To(r, "dropRow")
    /\ UNCHANGED <<item, cover, rows, begun, raced, crashed>>
DropRow(r) ==
    /\ req[r].pc = "dropRow"
    /\ \/ /\ rows' = Without(req[r].id) /\ cover' = (IF cover = req[r].id THEN 0 ELSE cover)
          /\ UNCHANGED excused
       \/ excused' = excused \union {req[r].id} /\ UNCHANGED <<rows, cover>>
    /\ Goto(r, Idle)
    /\ UNCHANGED <<item, objects, begun, raced, crashed>>

\* The objects of the assets that were read, and then the item with all its rows:
\* an asset that was added meanwhile loses its row only.
RemoveItemBegins(r) ==
    /\ item /\ Fresh(r)
    /\ Goto(r, [pc |-> "sweep", read |-> {i \in Ids : HasRow(i)}, todo |-> {i \in Ids : HasRow(i)}])
    /\ UNCHANGED <<item, cover, rows, objects, excused, raced, crashed>>
Sweep(r, i) ==
    /\ req[r].pc = "sweep" /\ i \in req[r].todo
    /\ DeleteObject(i) /\ req' = [req EXCEPT ![r].todo = @ \ {i}]
    /\ UNCHANGED <<item, cover, rows, begun, raced, crashed>>
RemoveItem(r) ==
    /\ req[r].pc = "sweep" /\ req[r].todo = {}
    /\ item' = FALSE /\ cover' = 0 /\ rows' = {}
    /\ excused' = excused \union {i \in Ids \ req[r].read : HasRow(i)}
    /\ Goto(r, Idle)
    /\ UNCHANGED <<objects, begun, raced, crashed>>

Crash ==
    /\ \E r \in Requests : req[r].pc # "idle"
    /\ ~crashed /\ crashed' = TRUE /\ req' = [r \in Requests |-> Idle]
    /\ UNCHANGED <<item, cover, rows, objects, begun, excused, raced>>

Next ==
    \/ Crash
    \/ \E r \in Requests :
          \/ \E k \in {"COVER", "IMAGE"} : UploadBegins(r, k)
          \/ Store(r) \/ CreateRow(r) \/ PointCover(r) \/ Cleanup(r)
          \/ RetireObject(r) \/ RetireRow(r)
          \/ \E i \in Ids : RemoveAssetBegins(r, i) \/ Sweep(r, i)
          \/ DropObject(r) \/ DropRow(r) \/ RemoveItemBegins(r) \/ RemoveItem(r)

Spec == Init /\ [][Next]_vars

-----------------------------------------------------------------------------
(* Properties.                                                             *)

\* Every variable keeps its type.
TypeOK ==
    /\ item \in BOOLEAN /\ cover \in 0..MaxRequests
    /\ rows \subseteq [id : Ids, kind : {"COVER", "IMAGE"}]
    /\ objects \union excused \subseteq Ids /\ raced \subseteq {"COVER", "IMAGE"}

Removing == \E r \in Requests : req[r].pc \in {"drop", "dropRow", "sweep"}

\* The cover that an item shows is stored, and replacing it never takes away a
\* working one first: it is missing only under a removal, after one that could not
\* drop the row, after a lost answer, or after a restart.
CoverIsStored ==
    cover \notin excused \union {0} /\ ~Removing /\ ~crashed => HasRow(cover) /\ cover \in objects

\* At rest an asset has both its halves, unless a delete failed, the item was
\* removed under an upload, the item could not be pointed to its new cover, or a
\* write went through without its answer.
HalvesTogether ==
    ~crashed /\ (\A r \in Requests : req[r].pc = "idle") =>
        \A i \in Ids \ excused : HasRow(i) <=> i \in objects

\* A gallery keeps to its limit unless two uploads counted before either wrote.
GalleryFits == "IMAGE" \notin raced => Cardinality(RowsOf("IMAGE")) <= MaxGallery

\* At rest one cover has a row, unless two were uploaded at once or the old one
\* could not be retired.
OneCover ==
    ~crashed /\ "COVER" \notin raced /\ (\A r \in Requests : req[r].pc = "idle") =>
        RowsOf("COVER") \ excused \subseteq {cover}

PortfolioSound ==
    /\ CoverIsStored
    /\ HalvesTogether
    /\ GalleryFits
    /\ OneCover
=============================================================================

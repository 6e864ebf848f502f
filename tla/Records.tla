------------------------------- MODULE Records -------------------------------
(***************************************************************************)
(* The records that operators keep and that requests served side by side   *)
(* must not spoil: the sales funnel, the requests of the site, portfolios  *)
(* and their items, settings, roles, attachments, the seeds, the move of   *)
(* the store, restores, credentials and prompts, each with the proof of    *)
(* what it promises.                                                       *)
(***************************************************************************)
EXTENDS Integers, Sequences, FiniteSets, FiniteSetTheorems, TLAPS

CONSTANTS AttachedRequests, Callers, CutoverFaults, CutoverRuns,
          CutoverWrites, EvalRows, FirstOwners, IntakeFiles, ItemForms,
          ItemRequests, ItemWords, MaxGallery, Perms, PortfolioRequests,
          Preset, ProfileNames, PromptFaults, PromptReaders, PromptReads,
          PromptRequests, RestoreChanges, RestoreFaults, RestoreStarts,
          RoleKeys, RoleRequests, RoleUsers, SalesForms, SalesRequests,
          ScratchTargets, SecretForms, SeedMaxCuts, SeedMaxEdits,
          SeedMaxRuns, SettingFaults, SettingPatches, SettingRequests,
          Shipped, SlugTries, StoredKeys, Unhashed, VaultRequests,
          VaultRestarts

\* The variables of the components, by their names there.
VARIABLES objects, crossed, faults, late, shown, row, value, cache, req,
          raised, skipped, begun, idea, raced, dropped, flying, keys, create,
          remove, event, excused, taken, crashed, item, cover, rows, roleOf,
          team, form, mixed, demoted, owners, files, placeOf, left, lost,
          coded, catalogue, owner, manager, staff, entries, assigning,
          prompt, demo, run, runs, edits, cuts, saved, mine, touched,
          unlogged, complete, src, dst, mode, todo, phase, exit, writes,
          blind, overwritten, held, eval, reads, changes, profile, versions,
          restarts, past, trampled, failed, bucket, env, job, scratch, audit,
          code, key, unheard, slug, status, tags, rule, used, last

\* What the components take their constants to be: the first users own, a form has the columns
\* of its table.
ASSUME RecordsAssumption ==
    /\ FirstOwners \subseteq RoleUsers /\ FirstOwners # {}
    /\ AttachedRequests \in Nat /\ Shipped \subseteq Perms
    /\ PortfolioRequests \in Nat /\ MaxGallery \in Nat
    /\ ItemRequests \in Nat
    /\ \A f \in ItemForms :
          f.slug \in Seq(Nat) /\ f.tags \in Seq([word : ItemWords, caps : BOOLEAN, blank : BOOLEAN])
    /\ RestoreStarts \in Nat /\ EvalRows \in Nat /\ EvalRows >= 2
    /\ \A f \in SalesForms["proposal"] :
          /\ "status" \in DOMAIN f => f["status"] \in {"Draft", "Sent", "Viewed", "Replied"}
          /\ "type" \in DOMAIN f => f["type"] \in {"Bid", "Invite", "DirectMessage"}
          /\ "boosted" \in DOMAIN f => f["boosted"] \in BOOLEAN
          /\ "connects" \in DOMAIN f => f["connects"] \in Nat
          /\ "extra" \in DOMAIN f => f["extra"] \in Nat
    /\ \A f \in SalesForms["lead"] : "status" \in DOMAIN f =>
          f["status"] \in {"NEW", "CONTACTED", "IN_CONVERSATION", "ON_HOLD", "WON", "LOST", "CLIENT"}
    /\ \A f \in SalesForms["enquiry"] : "status" \in DOMAIN f =>
          f["status"] \in {"NEW", "CONTACTED", "IN_CONVERSATION", "ON_HOLD", "WON", "LOST", "CLIENT"}
    /\ \A f \in SalesForms["post"] :
          /\ "status" \in DOMAIN f => f["status"] \in {"DRAFT", "READY", "SCHEDULED", "PUBLISHED", "ARCHIVED"}
          /\ "scheduledAt" \in DOMAIN f => f["scheduledAt"] \in BOOLEAN
          /\ "publishedAt" \in DOMAIN f => f["publishedAt"] \in BOOLEAN

-----------------------------------------------------------------------------
(* Portfolios.                                                             *)

Portfolio == INSTANCE PortfolioAssets WITH
    Requests <- Callers, MaxRequests <- PortfolioRequests

PortLimits == PortfolioRequests \in Nat /\ MaxGallery \in Nat

PortPoints == {"store", "row", "point", "cleanup", "retire", "retireRow"}
PortUploads == [pc : PortPoints, id : Portfolio!Ids, kind : {"COVER", "IMAGE"}, old : 0..PortfolioRequests, stale : BOOLEAN]
PortDrops == [pc : {"drop", "dropRow"}, id : Portfolio!Ids]
PortSweeps == [pc : {"sweep"}, read : SUBSET Portfolio!Ids, todo : SUBSET Portfolio!Ids]
PortReqs == {Portfolio!Idle} \union PortUploads \union PortDrops \union PortSweeps

PortTyped ==
    /\ cover \in 0..PortfolioRequests /\ begun \in 0..PortfolioRequests
    /\ rows \subseteq [id : Portfolio!Ids, kind : {"COVER", "IMAGE"}]
    /\ objects \subseteq Portfolio!Ids /\ excused \subseteq Portfolio!Ids
    /\ req \in [Callers -> PortReqs]

\* What a request has to do with an asset: it uploads, replaces or removes it; it has
\* deleted the object and comes to the row; it has stored the object and comes to the row
\* or takes it back; it points the item to it, or has pointed it away from it.
PortTouches(q, i) ==
    \/ q.pc \in PortPoints /\ i \in {q.id, q.old}
    \/ q.pc \in {"drop", "dropRow"} /\ q.id = i
    \/ q.pc = "sweep" /\ i \in q.read
PortTakes(q, i) ==
    \/ q.pc = "dropRow" /\ q.id = i
    \/ q.pc = "retireRow" /\ q.old = i
    \/ q.pc = "sweep" /\ i \in q.read /\ i \notin q.todo
PortBrings(q, i) == q.pc \in {"row", "cleanup"} /\ q.id = i
PortMoves(q, i) == (q.pc = "point" /\ q.id = i) \/ (q.pc \in {"retire", "retireRow"} /\ q.old = i)
PortNew(q) == q.pc \in {"store", "row"}
PortShows(q) == q.pc \in {"store", "row", "point"}

\* What a request knows: an asset without a row is its own; nobody replaces a cover that
\* is not shown yet; a cover that it replaces is not shown any more.  While nobody has
\* overtaken it the cover and the gallery are those that it has read.
PortKnows(r) ==
    /\ \A i \in Portfolio!Ids : PortTouches(req[r], i) => i <= begun
    /\ req[r].pc \in PortPoints => req[r].id # req[r].old
    /\ req[r].pc = "sweep" => req[r].todo \subseteq req[r].read
    /\ PortNew(req[r]) =>
          /\ ~Portfolio!HasRow(req[r].id) /\ (req[r].pc = "row" => req[r].id \in objects)
          /\ \A p \in Callers : p # r => ~PortTouches(req[p], req[r].id)
    /\ PortShows(req[r]) =>
          /\ cover # req[r].id
          /\ \A p \in Callers : p # r /\ req[p].pc \in PortPoints => req[r].id \notin {req[p].id, req[p].old}
    /\ \A i \in objects : PortTakes(req[r], i) => i \in excused
    /\ req[r].pc \in {"retire", "retireRow"} => req[r].old # 0 /\ cover # req[r].old
    /\ PortShows(req[r]) /\ req[r].kind = "COVER" /\ ~req[r].stale => cover \in {0, req[r].old}
    /\ PortNew(req[r]) /\ req[r].kind = "IMAGE" /\ ~req[r].stale => Cardinality(Portfolio!RowsOf("IMAGE")) + 1 <= MaxGallery
    /\ req[r].pc \in {"point", "retire", "retireRow"} => req[r].kind = "COVER"
    /\ req[r].pc = "cleanup" /\ Portfolio!HasRow(req[r].id) => req[r].id \in excused

PortLater == \A i \in Portfolio!Ids : i > begun => ~Portfolio!HasRow(i) /\ i \notin objects /\ cover # i
PortCover == \A i \in Portfolio!Ids : cover = i => Portfolio!HasRow(i)
PortHalves == ~crashed => \A i \in Portfolio!Ids \ excused : Portfolio!HasRow(i) => i \in objects \/ \E r \in Callers : PortTakes(req[r], i)
PortStored == ~crashed => \A i \in objects \ excused : Portfolio!HasRow(i) \/ \E r \in Callers : PortBrings(req[r], i)
PortOne ==
    ~crashed /\ "COVER" \notin raced =>
        \A i \in Portfolio!RowsOf("COVER") \ excused : i = cover \/ \E r \in Callers : PortMoves(req[r], i)

PortInv ==
    /\ PortTyped
    /\ \A r \in Callers : PortKnows(r)
    /\ PortLater /\ PortCover /\ PortHalves /\ PortStored /\ PortOne /\ Portfolio!GalleryFits

\* An asset has a row as a cover or as a picture.
LEMMA PortRows ==
  ASSUME PortTyped
  PROVE  /\ \A i \in Portfolio!Ids : Portfolio!HasRow(i) <=> (i \in Portfolio!RowsOf("COVER") \/ i \in Portfolio!RowsOf("IMAGE"))
         /\ \A i : Portfolio!HasRow(i) => i \in Portfolio!Ids
         /\ \A kind : Portfolio!RowsOf(kind) \subseteq Portfolio!Ids
  BY DEF PortTyped, Portfolio!HasRow, Portfolio!KindOf, Portfolio!RowsOf

LEMMA PortSizes ==
  ASSUME PortLimits, NEW S, S \subseteq Portfolio!Ids
  PROVE  IsFiniteSet(S) /\ Cardinality(S) \in Nat /\ \A X \in SUBSET S : Cardinality(X) <= Cardinality(S)
<1>1. IsFiniteSet(Portfolio!Ids)
  BY FS_Interval DEF PortLimits, Portfolio!Ids
<1>2. IsFiniteSet(S)
  BY <1>1, FS_Subset
<1> QED BY <1>2, FS_CardinalityType, FS_Subset

LEMMA PortInit == ASSUME PortLimits PROVE Portfolio!Init => PortInv
<1> SUFFICES ASSUME Portfolio!Init PROVE PortInv
  OBVIOUS
<1>1. PortTyped /\ \A r \in Callers : req[r].pc = "idle"
  BY DEF Portfolio!Init, Portfolio!Idle, PortTyped, PortReqs, PortLimits
<1>2. \A i : ~Portfolio!HasRow(i)
  BY DEF Portfolio!Init, Portfolio!HasRow, Portfolio!KindOf
<1>3. \A r \in Callers : PortKnows(r)
  BY <1>1 DEF PortKnows, PortPoints, PortTouches, PortTakes, PortNew, PortShows
<1>4. PortLater /\ PortCover /\ PortHalves /\ PortStored
  BY <1>2 DEF Portfolio!Init, PortLater, PortCover, PortHalves, PortStored, Portfolio!Ids
<1>5. \A kind : Portfolio!RowsOf(kind) = {}
  BY DEF Portfolio!Init, Portfolio!RowsOf
<1>6. Cardinality(Portfolio!RowsOf("IMAGE")) = 0
  BY <1>5, FS_EmptySet
<1>7. PortOne /\ Portfolio!GalleryFits
  BY <1>5, <1>6 DEF PortOne, Portfolio!GalleryFits, PortLimits, Portfolio!Cardinality, Cardinality
<1> QED BY <1>1, <1>3, <1>4, <1>7 DEF PortInv

-----------------------------------------------------------------------------
(* How the rows change.                                                    *)

LEMMA PortWithout ==
  ASSUME PortTyped, NEW j, rows' = Portfolio!Without(j)
  PROVE  /\ \A i : Portfolio!HasRow(i)' <=> Portfolio!HasRow(i) /\ i # j
         /\ \A kind : Portfolio!RowsOf(kind)' = Portfolio!RowsOf(kind) \ {j}
         /\ rows' \subseteq rows
  BY DEF PortTyped, Portfolio!Without, Portfolio!HasRow, Portfolio!KindOf, Portfolio!RowsOf

LEMMA PortAdded ==
  ASSUME PortTyped, NEW j \in Portfolio!Ids, NEW k \in {"COVER", "IMAGE"}, rows' = rows \union {[id |-> j, kind |-> k]}
  PROVE  /\ \A i : Portfolio!HasRow(i)' <=> Portfolio!HasRow(i) \/ i = j
         /\ Portfolio!RowsOf(k)' = Portfolio!RowsOf(k) \union {j}
         /\ \A kind : kind # k => Portfolio!RowsOf(kind)' = Portfolio!RowsOf(kind)
         /\ rows' \subseteq [id : Portfolio!Ids, kind : {"COVER", "IMAGE"}]
<1>1. \A i : Portfolio!KindOf(i)' = IF i = j THEN Portfolio!KindOf(i) \union {k} ELSE Portfolio!KindOf(i)
  BY DEF Portfolio!KindOf
<1> QED BY <1>1 DEF PortTyped, Portfolio!HasRow, Portfolio!RowsOf

LEMMA PortSameRows ==
  ASSUME UNCHANGED rows
  PROVE  (\A i : Portfolio!HasRow(i)' <=> Portfolio!HasRow(i)) /\ \A kind : Portfolio!RowsOf(kind)' = Portfolio!RowsOf(kind)
  BY DEF Portfolio!HasRow, Portfolio!KindOf, Portfolio!RowsOf

-----------------------------------------------------------------------------
(* What one request does leaves the others what they know.                 *)

\* The request is where it was, though it may have been overtaken.
PortLike(a, b) ==
    /\ a.pc = b.pc
    /\ b.pc \in PortPoints => a.id = b.id /\ a.old = b.old /\ a.kind = b.kind /\ (b.stale => a.stale)
    /\ b.pc \notin PortPoints => a = b

LEMMA PortAlike ==
  ASSUME NEW a, NEW b, PortLike(a, b), NEW i
  PROVE  /\ PortTouches(a, i) <=> PortTouches(b, i)
         /\ PortTakes(a, i) <=> PortTakes(b, i)
         /\ PortBrings(a, i) <=> PortBrings(b, i)
         /\ PortMoves(a, i) <=> PortMoves(b, i)
         /\ PortNew(a) <=> PortNew(b)
         /\ PortShows(a) <=> PortShows(b)
  BY DEF PortLike, PortTouches, PortTakes, PortBrings, PortMoves, PortNew, PortShows, PortPoints

\* A step of r: what it takes up is new, listed or the cover, what it writes is its own,
\* and whom it overtakes is told.
PortTakesUp(r) ==
    /\ \A i \in Portfolio!Ids : PortTouches(req'[r], i) => PortTouches(req[r], i) \/ Portfolio!HasRow(i) \/ i > begun \/ cover = i
    /\ req'[r].pc \in PortPoints =>
          \/ req[r].pc \in PortPoints /\ req'[r].id = req[r].id /\ req'[r].old = req[r].old
          \/ req'[r].id > begun /\ req'[r].old = cover
PortWritesOwn(r) ==
    /\ begun <= begun' /\ begun' \in Int /\ excused \subseteq excused'
    /\ \A i \in Portfolio!Ids : Portfolio!HasRow(i)' => Portfolio!HasRow(i) \/ (PortNew(req[r]) /\ req[r].id = i)
    /\ \A i \in objects : i \in objects' \/ PortTouches(req[r], i)
    /\ \A i \in objects' : i \in objects \/ (PortNew(req[r]) /\ req[r].id = i)
PortTells(r) ==
    /\ \/ cover' \in {cover, 0}
       \/ /\ req[r].pc = "point" /\ cover' = req[r].id
          /\ \A q \in Callers : q # r /\ PortShows(req[q]) /\ req[q].kind = "COVER" => req'[q].stale
    /\ \/ Portfolio!RowsOf("IMAGE")' \subseteq Portfolio!RowsOf("IMAGE")
       \/ \A q \in Callers : q # r /\ PortNew(req[q]) /\ req[q].kind = "IMAGE" => req'[q].stale

LEMMA PortOthers ==
  ASSUME PortLimits, PortInv, NEW r \in Callers, PortTyped', PortTakesUp(r), PortWritesOwn(r), PortTells(r),
         NEW q \in Callers, q # r, \A p \in Callers : p # r => PortLike(req'[p], req[p])
  PROVE  PortKnows(q)'
<1>1. PortLike(req'[q], req[q]) /\ PortKnows(q) /\ PortKnows(r) /\ PortTyped
  BY DEF PortInv
<1>2. /\ \A i : PortTouches(req'[q], i) <=> PortTouches(req[q], i)
      /\ \A i : PortTakes(req'[q], i) <=> PortTakes(req[q], i)
      /\ PortNew(req'[q]) <=> PortNew(req[q])
      /\ PortShows(req'[q]) <=> PortShows(req[q])
      /\ req'[q].pc = req[q].pc
  BY <1>1, PortAlike DEF PortLike
<1>3. req[q].pc \in PortPoints =>
         req'[q].id = req[q].id /\ req'[q].old = req[q].old /\ req'[q].kind = req[q].kind /\ (req[q].stale => req'[q].stale)
  BY <1>1 DEF PortLike
<1>4. req[q].pc \in PortPoints => req[q].id \in Portfolio!Ids /\ req[q].old \in 0..PortfolioRequests /\ PortTouches(req[q], req[q].id)
  <2>1. req[q].pc \in PortPoints => req[q] \in PortUploads
    BY <1>1 DEF PortTyped, PortReqs, Portfolio!Idle, PortDrops, PortSweeps, PortPoints
  <2> QED BY <2>1 DEF PortUploads, PortTouches
<1>5. \A p \in Callers : p # r => req'[p].pc = req[p].pc /\ (req[p].pc \in PortPoints => req'[p].id = req[p].id /\ req'[p].old = req[p].old)
  BY DEF PortLike
<1>6. PortNew(req[q]) => PortShows(req[q])
  BY DEF PortNew, PortShows
<1>7. PortShows(req[q]) => req[q].pc \in PortPoints
  BY DEF PortShows, PortPoints
<1>8. req[q].pc \in PortPoints => ~(req[q].id > begun) /\ req[q].id <= begun
  <2>1. begun \in 0..PortfolioRequests
    BY <1>1 DEF PortTyped
  <2>2. req[q].pc \in PortPoints => req[q].id <= begun
    BY <1>1, <1>4 DEF PortKnows
  <2> QED BY <1>4, <2>1, <2>2 DEF Portfolio!Ids
<1>9. PortNew(req[r]) => (req[q].pc \in PortPoints => req[r].id # req[q].id) /\ ~PortTouches(req[q], req[r].id)
  BY <1>1, <1>4 DEF PortKnows
<1>10. \A i \in Portfolio!Ids : PortTouches(req'[q], i) => i <= begun'
  <2>1. SUFFICES ASSUME NEW i \in Portfolio!Ids, i <= begun PROVE i <= begun'
    BY <1>1, <1>2 DEF PortKnows
  <2>2. begun \in Int /\ begun' \in Int /\ begun <= begun'
    BY <1>1 DEF PortWritesOwn, PortTyped
  <2> QED BY <2>1, <2>2 DEF Portfolio!Ids
<1>11. req'[q].pc \in PortPoints => req'[q].id # req'[q].old
  BY <1>1, <1>2, <1>3 DEF PortKnows
<1>12. req'[q].pc = "sweep" => req'[q].todo \subseteq req'[q].read
  BY <1>1 DEF PortKnows, PortLike, PortPoints
<1>13. ASSUME PortNew(req'[q])
       PROVE  /\ (~Portfolio!HasRow(req[q].id))' /\ (req'[q].pc = "row" => req'[q].id \in objects')
              /\ \A p \in Callers : p # q => ~PortTouches(req'[p], req'[q].id)
  <2>1. PICK i \in Portfolio!Ids : i = req[q].id /\ i = req'[q].id
    BY <1>2, <1>3, <1>4, <1>6, <1>7, <1>13
  <2>2. ~Portfolio!HasRow(i) /\ (req[q].pc = "row" => i \in objects) /\ cover # i /\ \A p \in Callers : p # q => ~PortTouches(req[p], i)
    BY <1>1, <1>2, <1>6, <1>13, <2>1 DEF PortKnows
  <2>3. ~Portfolio!HasRow(i)'
    BY <1>2, <1>6, <1>7, <1>9, <1>13, <2>1, <2>2 DEF PortWritesOwn
  <2>4. req'[q].pc = "row" => i \in objects'
    BY <1>2, <2>2 DEF PortWritesOwn
  <2>5. ~PortTouches(req'[r], i)
    BY <1>2, <1>6, <1>7, <1>8, <1>13, <2>1, <2>2 DEF PortTakesUp
  <2>6. ASSUME NEW p \in Callers, p # q, p # r PROVE ~PortTouches(req'[p], i)
    BY <2>2, <2>6, PortAlike
  <2>7. (~Portfolio!HasRow(req[q].id))'
    BY <2>1, <2>3 DEF Portfolio!HasRow, Portfolio!KindOf
  <2> QED BY <2>1, <2>4, <2>5, <2>6, <2>7
<1>14. ASSUME PortShows(req'[q])
       PROVE  /\ cover' # req'[q].id
              /\ \A p \in Callers : p # q /\ req'[p].pc \in PortPoints => req'[q].id \notin {req'[p].id, req'[p].old}
  <2>1. PICK i \in Portfolio!Ids : i = req[q].id /\ i = req'[q].id
    BY <1>2, <1>3, <1>4, <1>7, <1>14
  <2>2. cover # i /\ \A p \in Callers : p # q /\ req[p].pc \in PortPoints => i \notin {req[p].id, req[p].old}
    BY <1>1, <1>2, <1>14, <2>1 DEF PortKnows
  <2>3. i # 0 /\ ~(i > begun)
    BY <1>2, <1>7, <1>8, <1>14, <2>1 DEF Portfolio!Ids
  <2>4. cover' # i
    BY <2>2, <2>3 DEF PortTells, PortPoints
  <2>5. req'[r].pc \in PortPoints => i \notin {req'[r].id, req'[r].old}
    BY <2>2, <2>3 DEF PortTakesUp
  <2> QED BY <1>5, <2>1, <2>2, <2>4, <2>5
<1>15. \A i \in objects' : PortTakes(req'[q], i) => i \in excused'
  <2>1. SUFFICES ASSUME NEW i \in objects', PortTakes(req[q], i) PROVE i \in excused'
    BY <1>2
  <2>2. i \in objects => i \in excused'
    BY <1>1, <2>1 DEF PortKnows, PortWritesOwn
  <2>3. PortTouches(req[q], i)
    BY <2>1 DEF PortTakes, PortTouches, PortPoints
  <2> QED BY <1>9, <2>1, <2>2, <2>3 DEF PortWritesOwn
<1>16. ASSUME req'[q].pc \in {"retire", "retireRow"} PROVE req'[q].old # 0 /\ cover' # req'[q].old
  <2>1. req[q].pc \in PortPoints /\ req'[q].old = req[q].old /\ req[q].old # 0 /\ cover # req[q].old
    BY <1>1, <1>2, <1>3, <1>16 DEF PortKnows, PortPoints
  <2>2. req[r].pc = "point" => req[r].id # req[q].old
    BY <1>1, <2>1 DEF PortKnows, PortShows
  <2> QED BY <2>1, <2>2 DEF PortTells
<1>17. ASSUME PortShows(req'[q]), req'[q].kind = "COVER", ~req'[q].stale PROVE cover' \in {0, req'[q].old}
  <2>1. req'[q].old = req[q].old /\ req[q].kind = "COVER" /\ ~req[q].stale /\ PortShows(req[q])
    BY <1>2, <1>3, <1>7, <1>17
  <2> QED BY <1>1, <1>17, <2>1 DEF PortKnows, PortTells
<1>18. ASSUME PortNew(req'[q]), req'[q].kind = "IMAGE", ~req'[q].stale PROVE Cardinality(Portfolio!RowsOf("IMAGE")') + 1 <= MaxGallery
  <2>1. req[q].kind = "IMAGE" /\ ~req[q].stale /\ PortNew(req[q])
    BY <1>2, <1>3, <1>6, <1>7, <1>18
  <2>2. Cardinality(Portfolio!RowsOf("IMAGE")) + 1 <= MaxGallery
    BY <1>1, <2>1 DEF PortKnows
  <2>3. Portfolio!RowsOf("IMAGE")' \subseteq Portfolio!RowsOf("IMAGE")
    BY <1>18, <2>1 DEF PortTells
  <2>4. Portfolio!RowsOf("IMAGE") \subseteq Portfolio!Ids
    BY <1>1, PortRows
  <2>5. Cardinality(Portfolio!RowsOf("IMAGE")') <= Cardinality(Portfolio!RowsOf("IMAGE")) /\ Cardinality(Portfolio!RowsOf("IMAGE")) \in Nat
    BY <2>3, <2>4, PortSizes
  <2>6. Cardinality(Portfolio!RowsOf("IMAGE")') \in Nat
    BY <2>3, <2>4, PortSizes
  <2> QED BY <2>2, <2>5, <2>6 DEF PortLimits
<1>19. req'[q].pc \in {"point", "retire", "retireRow"} => req'[q].kind = "COVER"
  BY <1>1, <1>2, <1>3 DEF PortKnows, PortPoints
<1>20. ASSUME req'[q].pc = "cleanup", (Portfolio!HasRow(req[q].id))' PROVE req'[q].id \in excused'
  <2>1. PICK i \in Portfolio!Ids : i = req[q].id /\ i = req'[q].id /\ req[q].pc = "cleanup"
    BY <1>2, <1>3, <1>4, <1>20 DEF PortPoints
  <2>3. Portfolio!HasRow(i)'
    BY <1>20, <2>1 DEF Portfolio!HasRow, Portfolio!KindOf
  <2>2. Portfolio!HasRow(i)
    BY <1>9, <2>1, <2>3 DEF PortWritesOwn, PortPoints
  <2> QED BY <1>1, <2>1, <2>2 DEF PortKnows, PortWritesOwn
<1> QED BY <1>10, <1>11, <1>12, <1>13, <1>14, <1>15, <1>16, <1>17, <1>18, <1>19, <1>20 DEF PortKnows

\* What the step of r takes from the rows, the objects and the cover it answers for.
PortHolds(r) ==
    /\ crashed' = crashed /\ raced \subseteq raced'
    /\ \A i \in Portfolio!Ids : PortTakes(req[r], i) \/ (i \in objects /\ i \notin objects') =>
          PortTakes(req'[r], i) \/ i \in excused' \/ ~Portfolio!HasRow(i)'
    /\ \A i \in Portfolio!Ids : Portfolio!HasRow(i)' => Portfolio!HasRow(i) \/ i \in objects'
    /\ \A i \in objects' : PortBrings(req[r], i) \/ i \notin objects \/ (Portfolio!HasRow(i) /\ ~Portfolio!HasRow(i)') =>
          PortBrings(req'[r], i) \/ Portfolio!HasRow(i)' \/ i \in excused'
    /\ "COVER" \notin raced' =>
          \A i \in Portfolio!RowsOf("COVER")' : PortMoves(req[r], i) \/ i = cover \/ i \notin Portfolio!RowsOf("COVER") =>
             PortMoves(req'[r], i) \/ i = cover' \/ i \in excused'

LEMMA PortWhole ==
  ASSUME PortLimits, PortInv, NEW r \in Callers, PortTyped', PortTakesUp(r), PortWritesOwn(r), PortTells(r), PortHolds(r),
         \A p \in Callers : p # r => PortLike(req'[p], req[p]), PortKnows(r)', PortCover', Portfolio!GalleryFits'
  PROVE  PortInv'
<1>1. \A q \in Callers : PortKnows(q)'
  BY PortOthers
<1>2. PortTyped /\ PortKnows(r)
  BY DEF PortInv
<1>3. ASSUME NEW p \in Callers, p # r, NEW i
      PROVE  /\ PortTakes(req[p], i) => PortTakes(req'[p], i)
             /\ PortBrings(req[p], i) => PortBrings(req'[p], i)
             /\ PortMoves(req[p], i) => PortMoves(req'[p], i)
  BY <1>3, PortAlike
<1>4. excused \subseteq excused'
  BY DEF PortWritesOwn
<1>5. PortLater'
  <2>1. SUFFICES ASSUME NEW i \in Portfolio!Ids, i > begun' PROVE ~Portfolio!HasRow(i)' /\ i \notin objects' /\ cover' # i
    BY DEF PortLater
  <2>2. i > begun /\ i # 0
    <3>1. begun \in Int /\ begun' \in Int /\ begun <= begun'
      BY <1>2 DEF PortWritesOwn, PortTyped
    <3> QED BY <2>1, <3>1 DEF Portfolio!Ids
  <2>3. req[r].pc \in PortPoints => req[r].id # i
    <3>1. PortTouches(req[r], i) => i <= begun
      BY <1>2 DEF PortKnows
    <3>2. ~(i <= begun)
      BY <2>2, <1>2 DEF Portfolio!Ids, PortTyped
    <3> QED BY <3>1, <3>2 DEF PortTouches
  <2>4. ~Portfolio!HasRow(i) /\ i \notin objects /\ cover # i
    BY <2>2 DEF PortInv, PortLater
  <2> QED BY <2>2, <2>3, <2>4 DEF PortWritesOwn, PortTells, PortNew, PortPoints
<1>6. PortHalves'
  <2>1. SUFFICES ASSUME ~crashed, NEW i \in Portfolio!Ids, i \notin excused', Portfolio!HasRow(i)'
                 PROVE  i \in objects' \/ \E p \in Callers : PortTakes(req'[p], i)
    BY DEF PortHalves, PortHolds
  <2>2. Portfolio!HasRow(i) => i \in objects \/ \E p \in Callers : PortTakes(req[p], i)
    BY <1>4, <2>1 DEF PortInv, PortHalves
  <2> QED BY <1>3, <2>1, <2>2 DEF PortHolds
<1>7. PortStored'
  <2>1. SUFFICES ASSUME ~crashed, NEW i \in objects', i \notin excused', ~Portfolio!HasRow(i)'
                 PROVE  \E p \in Callers : PortBrings(req'[p], i)
    BY DEF PortStored, PortHolds
  <2>2. i \in objects => Portfolio!HasRow(i) \/ \E p \in Callers : PortBrings(req[p], i)
    BY <1>4, <2>1 DEF PortInv, PortStored
  <2> QED BY <1>3, <2>1, <2>2 DEF PortHolds
<1>8. PortOne'
  <2>1. SUFFICES ASSUME ~crashed, "COVER" \notin raced', NEW i \in Portfolio!RowsOf("COVER")', i \notin excused', i # cover'
                 PROVE  \E p \in Callers : PortMoves(req'[p], i)
    BY DEF PortOne, PortHolds
  <2>2. i \in Portfolio!RowsOf("COVER") => i = cover \/ \E p \in Callers : PortMoves(req[p], i)
    BY <1>4, <2>1 DEF PortInv, PortOne, PortHolds
  <2> QED BY <1>3, <2>1, <2>2 DEF PortHolds
<1> QED BY <1>1, <1>5, <1>6, <1>7, <1>8 DEF PortInv

\* Rows that only go keep the gallery to its limit.
LEMMA PortFewer ==
  ASSUME PortLimits, PortInv, Portfolio!RowsOf("IMAGE")' \subseteq Portfolio!RowsOf("IMAGE"), raced \subseteq raced'
  PROVE  Portfolio!GalleryFits'
<1>1. Portfolio!RowsOf("IMAGE") \subseteq Portfolio!Ids
  BY PortRows DEF PortInv
<1>2. Cardinality(Portfolio!RowsOf("IMAGE")') \in Nat /\ Cardinality(Portfolio!RowsOf("IMAGE")) \in Nat
      /\ Cardinality(Portfolio!RowsOf("IMAGE")') <= Cardinality(Portfolio!RowsOf("IMAGE"))
  BY <1>1, PortSizes
<1>3. "IMAGE" \notin raced' => Cardinality(Portfolio!RowsOf("IMAGE")) <= MaxGallery
  BY DEF PortInv, Portfolio!GalleryFits, Portfolio!Cardinality, Cardinality
<1> QED BY <1>2, <1>3 DEF PortLimits, Portfolio!GalleryFits, Portfolio!Cardinality, Cardinality

-----------------------------------------------------------------------------
(* How a request goes on.                                                  *)

LEMMA PortGoes ==
  ASSUME PortTyped, NEW r \in Callers, NEW rec \in PortReqs, req' = [req EXCEPT ![r] = rec]
  PROVE  /\ req' \in [Callers -> PortReqs] /\ req'[r] = rec
         /\ \A p \in Callers : p # r => req'[p] = req[p] /\ PortLike(req'[p], req[p])
  BY DEF PortTyped, PortLike

\* One that ends, or that begins and is refused.
LEMMA PortRests ==
  ASSUME PortTyped, NEW r \in Callers, Portfolio!Goto(r, Portfolio!Idle)
  PROVE  /\ req' \in [Callers -> PortReqs] /\ req'[r] = Portfolio!Idle
         /\ \A p \in Callers : p # r => req'[p] = req[p] /\ PortLike(req'[p], req[p])
  BY PortGoes DEF Portfolio!Goto, PortReqs

LEMMA PortAtRest ==
  ASSUME NEW r \in Callers, req'[r] = Portfolio!Idle
  PROVE  PortKnows(r)' /\ PortTakesUp(r)
  BY DEF Portfolio!Idle, PortKnows, PortTakesUp, PortTouches, PortTakes, PortNew, PortShows, PortPoints

LEMMA PortUpload ==
  ASSUME PortTyped, NEW r \in Callers, req[r].pc \in PortPoints
  PROVE  req[r] \in PortUploads
  BY DEF PortTyped, PortReqs, Portfolio!Idle, PortDrops, PortSweeps, PortPoints

LEMMA PortTo ==
  ASSUME PortTyped, NEW r \in Callers, req[r].pc \in PortPoints, NEW pc \in PortPoints,
         req' = [req EXCEPT ![r] = [req[r] EXCEPT !.pc = pc]]
  PROVE  /\ req' \in [Callers -> PortReqs]
         /\ req'[r] = [pc |-> pc, id |-> req[r].id, kind |-> req[r].kind, old |-> req[r].old, stale |-> req[r].stale]
         /\ \A p \in Callers : p # r => req'[p] = req[p] /\ PortLike(req'[p], req[p])
<1>1. req[r] \in PortUploads
  BY PortUpload
<1>2. [req[r] EXCEPT !.pc = pc] = [pc |-> pc, id |-> req[r].id, kind |-> req[r].kind, old |-> req[r].old, stale |-> req[r].stale]
  BY <1>1 DEF PortUploads
<1>3. [pc |-> pc, id |-> req[r].id, kind |-> req[r].kind, old |-> req[r].old, stale |-> req[r].stale] \in PortReqs
  BY <1>1 DEF PortUploads, PortReqs
<1> QED BY <1>2, <1>3, PortGoes

LEMMA PortDeletes ==
  ASSUME PortTyped, NEW i \in Portfolio!Ids, Portfolio!DeleteObject(i)
  PROVE  /\ objects' \subseteq objects /\ excused \subseteq excused' /\ excused' \subseteq Portfolio!Ids
         /\ \A j \in objects : j # i => j \in objects'
         /\ i \in objects' => i \in excused'
  BY DEF PortTyped, Portfolio!DeleteObject

-----------------------------------------------------------------------------
(* The steps of an upload.                                                 *)

LEMMA PortUploads1 ==
  ASSUME PortLimits, PortInv, NEW r \in Callers, NEW k \in {"COVER", "IMAGE"}, Portfolio!UploadBegins(r, k)
  PROVE  PortInv'
<1>1. PortTyped /\ req[r].pc = "idle" /\ begun < PortfolioRequests /\ begun' = begun + 1
      /\ UNCHANGED <<cover, rows, objects, excused, raced, crashed>>
  BY DEF PortInv, Portfolio!UploadBegins, Portfolio!Fresh
<1>2. PICK i \in Portfolio!Ids : i = begun + 1 /\ i = begun' /\ i > begun /\ begun <= begun' /\ begun' \in 0..PortfolioRequests
  BY <1>1 DEF PortTyped, Portfolio!Ids, PortLimits
<1>3. (\A j : Portfolio!HasRow(j)' <=> Portfolio!HasRow(j)) /\ \A kind : Portfolio!RowsOf(kind)' = Portfolio!RowsOf(kind)
  BY <1>1, PortSameRows
<1>4. Portfolio!GalleryFits' /\ PortCover'
  BY <1>1, <1>3, PortFewer DEF PortInv, PortCover
<1>5. \A j : ~PortTakes(req[r], j) /\ ~PortBrings(req[r], j) /\ ~PortMoves(req[r], j)
  BY <1>1 DEF PortTakes, PortBrings, PortMoves
<1>6. begun \in 0..PortfolioRequests
  BY <1>1 DEF PortTyped
<1>7. PortWritesOwn(r) /\ PortTells(r) /\ PortHolds(r)
  BY <1>1, <1>2, <1>3, <1>5 DEF PortWritesOwn, PortTells, PortHolds
<1>8. CASE ~Portfolio!Fits(k)
  <2>1. Portfolio!Goto(r, Portfolio!Idle)
    BY <1>8 DEF Portfolio!UploadBegins
  <2>2. /\ req' \in [Callers -> PortReqs] /\ req'[r] = Portfolio!Idle
        /\ \A p \in Callers : p # r => req'[p] = req[p] /\ PortLike(req'[p], req[p])
    BY <1>1, <2>1, PortRests
  <2>3. PortTyped'
    BY <1>1, <1>2, <2>2 DEF PortTyped
  <2> QED BY <1>4, <1>7, <2>2, <2>3, PortAtRest, PortWhole
<1>9. CASE Portfolio!Fits(k)
  <2> DEFINE rec == [pc |-> "store", id |-> i, kind |-> k, old |-> cover, stale |-> FALSE]
  <2>1. req' = [req EXCEPT ![r] = rec] /\ rec \in PortReqs
    BY <1>1, <1>2, <1>9 DEF Portfolio!UploadBegins, Portfolio!Goto, PortReqs, PortUploads, PortPoints, PortTyped
  <2>2. /\ req' \in [Callers -> PortReqs] /\ req'[r] = rec
        /\ \A p \in Callers : p # r => req'[p] = req[p] /\ PortLike(req'[p], req[p])
    BY <1>1, <2>1, PortGoes
  <2>3. PortTyped'
    BY <1>1, <1>2, <2>2 DEF PortTyped
  <2>4. PortTakesUp(r)
    BY <1>2, <2>2 DEF PortTakesUp, PortTouches
  <2>5. ~Portfolio!HasRow(i) /\ i \notin objects /\ cover # i
    BY <1>2 DEF PortInv, PortLater
  <2>6. ASSUME NEW p \in Callers PROVE ~PortTouches(req[p], i)
    <3>1. PortTouches(req[p], i) => i <= begun
      BY DEF PortInv, PortKnows
    <3> QED BY <1>2, <1>6, <3>1 DEF Portfolio!Ids
  <2>7. \A j \in Portfolio!Ids : PortTouches(req'[r], j) => j <= begun'
    <3>1. SUFFICES ASSUME NEW j \in Portfolio!Ids, j = i \/ j = cover PROVE j <= begun'
      BY <2>2 DEF PortTouches
    <3>2. j = cover => ~(j > begun)
      BY <3>1 DEF PortInv, PortLater
    <3> QED BY <1>2, <1>6, <3>1, <3>2 DEF Portfolio!Ids
  <2>8. ASSUME NEW p \in Callers, p # r, req'[p].pc \in PortPoints PROVE i \notin {req'[p].id, req'[p].old}
    BY <2>2, <2>6, <2>8 DEF PortTouches
  <2>9. k = "IMAGE" => Cardinality(Portfolio!RowsOf("IMAGE")') + 1 <= MaxGallery
    BY <1>3, <1>9 DEF Portfolio!Fits, Portfolio!Cardinality, Cardinality
  <2>10. (~Portfolio!HasRow(req[r].id))'
    <3>1. req'[r].id = i /\ ~Portfolio!HasRow(i)'
      BY <1>3, <2>2, <2>5
    <3> QED BY <3>1 DEF Portfolio!HasRow, Portfolio!KindOf
  <2>13. /\ req'[r].pc = "store" /\ req'[r].id = i /\ req'[r].old = cover /\ req'[r].kind = k /\ i # cover
         /\ cover' = cover
    BY <1>1, <2>2, <2>5
  <2>11. \A p \in Callers : p # r => ~PortTouches(req'[p], i)
    BY <2>2, <2>6
  <2>12. PortKnows(r)'
    BY <2>7, <2>8, <2>9, <2>10, <2>11, <2>13 DEF PortKnows, PortNew, PortShows, PortTakes
  <2> QED BY <1>4, <1>7, <2>2, <2>3, <2>4, <2>12, PortWhole
<1> QED BY <1>8, <1>9

LEMMA PortUploads2 ==
  ASSUME PortLimits, PortInv, NEW r \in Callers, Portfolio!Store(r)
  PROVE  PortInv'
<1>1. PortTyped /\ PortKnows(r) /\ req[r].pc = "store" /\ UNCHANGED <<cover, rows, begun, raced, crashed>>
  BY DEF PortInv, Portfolio!Store
<1>2. req[r] \in PortUploads
  BY <1>1, PortUpload DEF PortPoints
<1>3. PICK i \in Portfolio!Ids : i = req[r].id
  BY <1>2 DEF PortUploads
<1>4. (\A j : Portfolio!HasRow(j)' <=> Portfolio!HasRow(j)) /\ \A kind : Portfolio!RowsOf(kind)' = Portfolio!RowsOf(kind)
  BY <1>1, PortSameRows
<1>5. Portfolio!GalleryFits' /\ PortCover'
  BY <1>1, <1>4, PortFewer DEF PortInv, PortCover
<1>6. \A j : ~PortTakes(req[r], j) /\ ~PortBrings(req[r], j) /\ ~PortMoves(req[r], j)
  BY <1>1 DEF PortTakes, PortBrings, PortMoves
<1>7. begun <= begun' /\ begun' \in Int
  BY <1>1 DEF PortTyped
<1>8. CASE /\ Portfolio!Goto(r, Portfolio!Idle)
           /\ \/ objects' = objects /\ excused' = excused
              \/ objects' = objects \union {i} /\ excused' = excused \union {i}
  <2>1. /\ req' \in [Callers -> PortReqs] /\ req'[r] = Portfolio!Idle
        /\ \A p \in Callers : p # r => req'[p] = req[p] /\ PortLike(req'[p], req[p])
    BY <1>1, <1>8, PortRests
  <2>2. PortTyped'
    BY <1>1, <1>8, <2>1 DEF PortTyped
  <2>3. PortWritesOwn(r) /\ PortTells(r) /\ PortHolds(r)
    BY <1>1, <1>3, <1>4, <1>6, <1>7, <1>8 DEF PortWritesOwn, PortTells, PortHolds, PortNew
  <2> QED BY <1>5, <2>1, <2>2, <2>3, PortAtRest, PortWhole
<1>9. CASE objects' = objects \union {i} /\ Portfolio!To(r, "row") /\ excused' = excused
  <2>1. req' = [req EXCEPT ![r] = [req[r] EXCEPT !.pc = "row"]] /\ req[r].pc \in PortPoints /\ "row" \in PortPoints
    BY <1>1, <1>9 DEF Portfolio!To, PortPoints
  <2>2. /\ req' \in [Callers -> PortReqs]
        /\ req'[r] = [pc |-> "row", id |-> req[r].id, kind |-> req[r].kind, old |-> req[r].old, stale |-> req[r].stale]
        /\ \A p \in Callers : p # r => req'[p] = req[p] /\ PortLike(req'[p], req[p])
    BY <1>1, <2>1, PortTo
  <2>3. PortTyped'
    BY <1>1, <1>9, <2>2 DEF PortTyped
  <2>4. PortTakesUp(r)
    BY <2>1, <2>2 DEF PortTakesUp, PortTouches
  <2>5. PortWritesOwn(r) /\ PortTells(r)
    BY <1>1, <1>3, <1>4, <1>7, <1>9 DEF PortWritesOwn, PortTells, PortNew
  <2>6. PortHolds(r)
    BY <1>1, <1>3, <1>4, <1>6, <1>9, <2>2 DEF PortHolds, PortBrings
  <2>7. (~Portfolio!HasRow(req[r].id))'
    <3>1. req'[r].id = i /\ ~Portfolio!HasRow(i)'
      BY <1>1, <1>3, <1>4, <2>2 DEF PortKnows, PortNew
    <3> QED BY <3>1 DEF Portfolio!HasRow, Portfolio!KindOf
  <2>8. PortKnows(r)'
    BY <1>1, <1>3, <1>4, <1>9, <2>1, <2>2, <2>7 DEF PortKnows, PortNew, PortShows, PortTakes, PortTouches
  <2> QED BY <1>5, <2>2, <2>3, <2>4, <2>5, <2>6, <2>8, PortWhole
<1> QED BY <1>3, <1>8, <1>9 DEF Portfolio!Store

LEMMA PortCleans ==
  ASSUME PortLimits, PortInv, NEW r \in Callers, Portfolio!Cleanup(r)
  PROVE  PortInv'
<1>1. PortTyped /\ PortKnows(r) /\ req[r].pc = "cleanup" /\ UNCHANGED <<cover, rows, begun, raced, crashed>> /\ Portfolio!Goto(r, Portfolio!Idle)
  BY DEF PortInv, Portfolio!Cleanup
<1>2. req[r] \in PortUploads
  BY <1>1, PortUpload DEF PortPoints
<1>3. PICK i \in Portfolio!Ids : i = req[r].id /\ Portfolio!DeleteObject(i)
  BY <1>2 DEF PortUploads, Portfolio!Cleanup
<1>4. (\A j : Portfolio!HasRow(j)' <=> Portfolio!HasRow(j)) /\ \A kind : Portfolio!RowsOf(kind)' = Portfolio!RowsOf(kind)
  BY <1>1, PortSameRows
<1>5. Portfolio!GalleryFits' /\ PortCover'
  BY <1>1, <1>4, PortFewer DEF PortInv, PortCover
<1>6. /\ objects' \subseteq objects /\ excused \subseteq excused' /\ excused' \subseteq Portfolio!Ids
      /\ \A j \in objects : j # i => j \in objects'
      /\ i \in objects' => i \in excused'
  BY <1>1, <1>3, PortDeletes
<1>7. begun <= begun' /\ begun' \in Int /\ (Portfolio!HasRow(i) => i \in excused)
  BY <1>1, <1>3 DEF PortTyped, PortKnows
<1>8. /\ req' \in [Callers -> PortReqs] /\ req'[r] = Portfolio!Idle
      /\ \A p \in Callers : p # r => req'[p] = req[p] /\ PortLike(req'[p], req[p])
  BY <1>1, PortRests
<1>9. PortTyped'
  BY <1>1, <1>6, <1>8 DEF PortTyped
<1>10. PortWritesOwn(r) /\ PortTells(r)
  BY <1>1, <1>3, <1>4, <1>6, <1>7 DEF PortWritesOwn, PortTells, PortTouches, PortPoints
<1>11. PortHolds(r)
  BY <1>1, <1>3, <1>4, <1>6, <1>7 DEF PortHolds, PortTakes, PortBrings, PortMoves
<1> QED BY <1>5, <1>8, <1>9, <1>10, <1>11, PortAtRest, PortWhole

\* A write puts the others of its kind behind.
LEMMA PortOvertakes ==
  ASSUME PortTyped, NEW r \in Callers, NEW rec \in PortReqs, Portfolio!Overtake(r, rec)
  PROVE  /\ req' \in [Callers -> PortReqs] /\ req'[r] = rec
         /\ \A p \in Callers : p # r => PortLike(req'[p], req[p])
         /\ \A p \in Callers : p # r /\ PortShows(req[p]) /\ req[p].kind = req[r].kind => req'[p].stale
<1>1. req' = [q \in Callers |-> IF q = r THEN rec ELSE Portfolio!Overtaken(req[q], req[r].kind)]
  BY DEF Portfolio!Overtake
<1>2. ASSUME NEW q \in Callers
      PROVE  /\ Portfolio!Overtaken(req[q], req[r].kind) \in PortReqs
             /\ PortLike(Portfolio!Overtaken(req[q], req[r].kind), req[q])
             /\ PortShows(req[q]) /\ req[q].kind = req[r].kind => Portfolio!Overtaken(req[q], req[r].kind).stale
  <2>1. CASE req[q].pc \in {"store", "row", "point"} /\ req[q].kind = req[r].kind
    <3>1. req[q] \in PortUploads
      BY <2>1, PortUpload DEF PortPoints
    <3>2. /\ [req[q] EXCEPT !.stale = TRUE].pc = req[q].pc /\ [req[q] EXCEPT !.stale = TRUE].id = req[q].id
          /\ [req[q] EXCEPT !.stale = TRUE].kind = req[q].kind /\ [req[q] EXCEPT !.stale = TRUE].old = req[q].old
          /\ [req[q] EXCEPT !.stale = TRUE].stale
      BY <3>1 DEF PortUploads
    <3>3. [req[q] EXCEPT !.stale = TRUE] \in PortUploads
      BY <3>1, Zenon DEF PortUploads
    <3>4. Portfolio!Overtaken(req[q], req[r].kind) = [req[q] EXCEPT !.stale = TRUE]
      BY <2>1 DEF Portfolio!Overtaken
    <3>5. req[q].pc \in PortPoints
      BY <2>1 DEF PortPoints
    <3> QED BY <3>2, <3>3, <3>4, <3>5 DEF PortReqs, PortLike
  <2>2. CASE ~(req[q].pc \in {"store", "row", "point"} /\ req[q].kind = req[r].kind)
    BY <2>2 DEF Portfolio!Overtaken, PortLike, PortShows, PortTyped
  <2> QED BY <2>1, <2>2
<1> QED BY <1>1, <1>2

LEMMA PortCreates ==
  ASSUME PortLimits, PortInv, NEW r \in Callers, Portfolio!CreateRow(r)
  PROVE  PortInv'
<1>1. PortTyped /\ PortKnows(r) /\ req[r].pc = "row" /\ req[r].pc \in PortPoints /\ UNCHANGED <<cover, objects, begun, crashed>>
  BY DEF PortInv, Portfolio!CreateRow, PortPoints
<1>2. req[r] \in PortUploads
  BY <1>1, PortUpload
<1>3. PICK i \in Portfolio!Ids, k \in {"COVER", "IMAGE"} : i = req[r].id /\ k = req[r].kind
  BY <1>2 DEF PortUploads
<1>4. i # req[r].old /\ ~Portfolio!HasRow(i) /\ i \in objects /\ cover # i /\ PortTouches(req[r], i)
      /\ (\A p \in Callers : p # r => ~PortTouches(req[p], i))
      /\ (\A p \in Callers : p # r /\ req[p].pc \in PortPoints => i \notin {req[p].id, req[p].old})
      /\ (k = "COVER" /\ ~req[r].stale => cover \in {0, req[r].old})
      /\ (k = "IMAGE" /\ ~req[r].stale => Cardinality(Portfolio!RowsOf("IMAGE")) + 1 <= MaxGallery)
  BY <1>1, <1>3 DEF PortKnows, PortNew, PortShows, PortTouches
<1>5. begun <= begun' /\ begun' \in Int
  BY <1>1 DEF PortTyped
<1>6. CASE Portfolio!To(r, "cleanup") /\ UNCHANGED <<rows, raced, excused>>
  <2>1. "cleanup" \in PortPoints /\ req' = [req EXCEPT ![r] = [req[r] EXCEPT !.pc = "cleanup"]]
    BY <1>6 DEF Portfolio!To, PortPoints
  <2>2. /\ req' \in [Callers -> PortReqs]
        /\ req'[r] = [pc |-> "cleanup", id |-> req[r].id, kind |-> req[r].kind, old |-> req[r].old, stale |-> req[r].stale]
        /\ \A p \in Callers : p # r => req'[p] = req[p] /\ PortLike(req'[p], req[p])
    BY <1>1, <2>1, PortTo
  <2>3. (\A j : Portfolio!HasRow(j)' <=> Portfolio!HasRow(j)) /\ \A kind : Portfolio!RowsOf(kind)' = Portfolio!RowsOf(kind)
    BY <1>6, PortSameRows
  <2>4. Portfolio!GalleryFits' /\ PortCover' /\ PortTyped'
    BY <1>1, <1>6, <2>2, <2>3, PortFewer DEF PortInv, PortCover, PortTyped
  <2>5. PortTakesUp(r)
    BY <1>1, <2>2 DEF PortTakesUp, PortTouches
  <2>6. PortWritesOwn(r) /\ PortTells(r)
    BY <1>1, <1>5, <1>6, <2>3 DEF PortWritesOwn, PortTells
  <2>7. PortHolds(r)
    BY <1>1, <1>3, <1>6, <2>2, <2>3 DEF PortHolds, PortBrings, PortTakes, PortMoves
  <2>8. (~Portfolio!HasRow(req[r].id))'
    <3>1. req'[r].id = i /\ ~Portfolio!HasRow(i)'
      BY <1>3, <1>4, <2>2, <2>3
    <3> QED BY <3>1 DEF Portfolio!HasRow, Portfolio!KindOf
  <2>9. PortKnows(r)'
    BY <1>1, <1>3, <1>4, <2>2, <2>8 DEF PortKnows, PortNew, PortShows, PortTakes, PortTouches
  <2> QED BY <2>2, <2>4, <2>5, <2>6, <2>7, <2>9, PortWhole
<1>7. ASSUME rows' = rows \union {[id |-> i, kind |-> k]}
      PROVE  /\ \A j : Portfolio!HasRow(j)' <=> Portfolio!HasRow(j) \/ j = i
             /\ Portfolio!RowsOf(k)' = Portfolio!RowsOf(k) \union {i}
             /\ \A kind : kind # k => Portfolio!RowsOf(kind)' = Portfolio!RowsOf(kind)
             /\ rows' \subseteq [id : Portfolio!Ids, kind : {"COVER", "IMAGE"}]
             /\ PortCover'
  <2>1. /\ \A j : Portfolio!HasRow(j)' <=> Portfolio!HasRow(j) \/ j = i
        /\ Portfolio!RowsOf(k)' = Portfolio!RowsOf(k) \union {i}
        /\ \A kind : kind # k => Portfolio!RowsOf(kind)' = Portfolio!RowsOf(kind)
        /\ rows' \subseteq [id : Portfolio!Ids, kind : {"COVER", "IMAGE"}]
    BY <1>1, <1>7, PortAdded
  <2> QED BY <1>1, <2>1 DEF PortInv, PortCover
<1>8. CASE k = "COVER" /\ rows' = rows \union {[id |-> i, kind |-> k]} /\ Portfolio!To(r, "point") /\ UNCHANGED <<raced, excused>>
  <2>1. "point" \in PortPoints /\ req' = [req EXCEPT ![r] = [req[r] EXCEPT !.pc = "point"]]
    BY <1>8 DEF Portfolio!To, PortPoints
  <2>2. /\ req' \in [Callers -> PortReqs]
        /\ req'[r] = [pc |-> "point", id |-> req[r].id, kind |-> req[r].kind, old |-> req[r].old, stale |-> req[r].stale]
        /\ \A p \in Callers : p # r => req'[p] = req[p] /\ PortLike(req'[p], req[p])
    BY <1>1, <2>1, PortTo
  <2>3. Portfolio!GalleryFits'
    BY <1>7, <1>8, PortFewer
  <2>4. PortTyped'
    BY <1>1, <1>7, <1>8, <2>2 DEF PortTyped
  <2>5. PortTakesUp(r)
    BY <1>1, <2>2 DEF PortTakesUp, PortTouches
  <2>6. PortWritesOwn(r) /\ PortTells(r)
    BY <1>1, <1>3, <1>5, <1>7, <1>8 DEF PortWritesOwn, PortTells, PortNew
  <2>7. PortHolds(r)
    BY <1>1, <1>3, <1>4, <1>7, <1>8, <2>2 DEF PortHolds, PortBrings, PortTakes, PortMoves
  <2>8. PortKnows(r)'
    BY <1>1, <1>3, <1>4, <1>8, <2>1, <2>2 DEF PortKnows, PortNew, PortShows, PortTakes, PortTouches
  <2> QED BY <1>7, <1>8, <2>2, <2>3, <2>4, <2>5, <2>6, <2>7, <2>8, PortWhole
<1>10. CASE k = "COVER" /\ rows' = rows \union {[id |-> i, kind |-> k]} /\ Portfolio!To(r, "cleanup") /\ UNCHANGED raced
            /\ excused' = excused \union {i}
  <2>1. "cleanup" \in PortPoints /\ req' = [req EXCEPT ![r] = [req[r] EXCEPT !.pc = "cleanup"]]
    BY <1>10 DEF Portfolio!To, PortPoints
  <2>2. /\ req' \in [Callers -> PortReqs]
        /\ req'[r] = [pc |-> "cleanup", id |-> req[r].id, kind |-> req[r].kind, old |-> req[r].old, stale |-> req[r].stale]
        /\ \A p \in Callers : p # r => req'[p] = req[p] /\ PortLike(req'[p], req[p])
    BY <1>1, <2>1, PortTo
  <2>3. Portfolio!GalleryFits'
    BY <1>7, <1>10, PortFewer
  <2>4. PortTyped'
    BY <1>1, <1>7, <1>10, <2>2 DEF PortTyped
  <2>5. PortTakesUp(r)
    BY <1>1, <2>2 DEF PortTakesUp, PortTouches
  <2>6. PortWritesOwn(r) /\ PortTells(r)
    BY <1>1, <1>3, <1>5, <1>7, <1>10 DEF PortWritesOwn, PortTells, PortNew
  <2>7. PortHolds(r)
    BY <1>1, <1>3, <1>4, <1>7, <1>10, <2>2 DEF PortHolds, PortBrings, PortTakes, PortMoves
  <2>8. PortKnows(r)'
    BY <1>1, <1>3, <1>4, <1>10, <2>1, <2>2 DEF PortKnows, PortNew, PortShows, PortTakes, PortTouches
  <2> QED BY <1>7, <1>10, <2>2, <2>3, <2>4, <2>5, <2>6, <2>7, <2>8, PortWhole
<1>9. ASSUME k = "IMAGE", rows' = rows \union {[id |-> i, kind |-> k]}, Portfolio!Note(r), NEW rec \in PortReqs, Portfolio!Overtake(r, rec),
             \/ rec = Portfolio!Idle /\ UNCHANGED excused
             \/ /\ rec = [pc |-> "cleanup", id |-> i, kind |-> "IMAGE", old |-> req[r].old, stale |-> req[r].stale]
                /\ excused' = excused \union {i}
      PROVE  PortInv'
  <2>1. /\ req' \in [Callers -> PortReqs] /\ req'[r] = rec
        /\ \A p \in Callers : p # r => PortLike(req'[p], req[p])
        /\ \A p \in Callers : p # r /\ PortShows(req[p]) /\ req[p].kind = "IMAGE" => req'[p].stale
    <3> QED BY <1>1, <1>3, <1>9, PortOvertakes
  <2>2. raced \subseteq raced' /\ (req[r].stale => "IMAGE" \in raced')
    BY <1>3, <1>9 DEF Portfolio!Note
  <2>3. Portfolio!GalleryFits'
    <3>1. SUFFICES ASSUME "IMAGE" \notin raced' PROVE Cardinality(Portfolio!RowsOf("IMAGE")') <= MaxGallery
      BY DEF Portfolio!GalleryFits, Portfolio!Cardinality, Cardinality
    <3>2. Portfolio!RowsOf("IMAGE") \subseteq Portfolio!Ids /\ Portfolio!RowsOf("IMAGE")' = Portfolio!RowsOf("IMAGE") \union {i} /\ i \notin Portfolio!RowsOf("IMAGE")
      BY <1>1, <1>4, <1>7, <1>9, PortRows
    <3>3. IsFiniteSet(Portfolio!RowsOf("IMAGE")) /\ Cardinality(Portfolio!RowsOf("IMAGE")) \in Nat
      BY <3>2, PortSizes
    <3>4. Cardinality(Portfolio!RowsOf("IMAGE") \union {i}) = Cardinality(Portfolio!RowsOf("IMAGE")) + 1
      BY <3>2, <3>3, FS_AddElement
    <3> QED BY <1>4, <1>9, <2>2, <3>1, <3>2, <3>4
  <2>4. PortTyped'
    BY <1>1, <1>7, <1>9, <2>1 DEF PortTyped
  <2>5. PortWritesOwn(r)
    BY <1>1, <1>3, <1>5, <1>7, <1>9 DEF PortWritesOwn, PortNew
  <2>6. PortTells(r)
    BY <1>1, <2>1 DEF PortTells, PortNew, PortShows
  <2>7. PortHolds(r)
    BY <1>1, <1>3, <1>4, <1>7, <1>9, <2>1, <2>2 DEF PortHolds, PortBrings, PortTakes, PortMoves, Portfolio!Idle
  <2>8. CASE rec = Portfolio!Idle
    BY <1>7, <1>9, <2>1, <2>3, <2>4, <2>5, <2>6, <2>7, <2>8, PortAtRest, PortWhole
  <2>9. CASE rec # Portfolio!Idle
    <3>1. req'[r].pc = "cleanup" /\ req'[r].id = i /\ req'[r].kind = "IMAGE" /\ req'[r].old = req[r].old
          /\ "cleanup" \in PortPoints /\ excused' = excused \union {i}
      BY <1>9, <2>1, <2>9 DEF PortPoints
    <3>2. PortTakesUp(r)
      BY <1>1, <1>3, <3>1 DEF PortTakesUp, PortTouches
    <3>3. PortKnows(r)'
      <4>1. req'[r] = [pc |-> "cleanup", id |-> i, kind |-> "IMAGE", old |-> req[r].old, stale |-> req[r].stale]
        BY <1>9, <2>1, <2>9
      <4>2. i \in excused' /\ req[r].id = i
        BY <1>3, <3>1
      <4> QED BY <1>1, <1>3, <1>4, <4>1, <4>2 DEF PortKnows, PortNew, PortShows, PortTakes, PortTouches
    <3> QED BY <1>7, <1>9, <2>1, <2>3, <2>4, <2>5, <2>6, <2>7, <3>2, <3>3, PortWhole
  <2> QED BY <2>8, <2>9
<1>11. CASE k = "IMAGE" /\ rows' = rows \union {[id |-> i, kind |-> k]} /\ Portfolio!Note(r)
            /\ \/ Portfolio!Overtake(r, Portfolio!Idle) /\ UNCHANGED excused
               \/ Portfolio!Overtake(r, [req[r] EXCEPT !.pc = "cleanup"]) /\ excused' = excused \union {i}
  <2>1. Portfolio!Idle \in PortReqs
    BY DEF PortReqs
  <2>2. [req[r] EXCEPT !.pc = "cleanup"] = [pc |-> "cleanup", id |-> i, kind |-> k, old |-> req[r].old, stale |-> req[r].stale]
    BY <1>2, <1>3 DEF PortUploads
  <2>3. [pc |-> "cleanup", id |-> i, kind |-> k, old |-> req[r].old, stale |-> req[r].stale] \in PortReqs
    BY <1>2 DEF PortUploads, PortReqs, PortPoints
  <2> QED BY <1>9, <1>11, <2>1, <2>2, <2>3
<1> QED BY <1>3, <1>6, <1>8, <1>10, <1>11 DEF Portfolio!CreateRow

LEMMA PortPoints1 ==
  ASSUME PortLimits, PortInv, NEW r \in Callers, Portfolio!PointCover(r)
  PROVE  PortInv'
<1>1. PortTyped /\ PortKnows(r) /\ req[r].pc = "point" /\ req[r].pc \in PortPoints /\ UNCHANGED <<rows, objects, begun, crashed>>
  BY DEF PortInv, Portfolio!PointCover, PortPoints
<1>2. req[r] \in PortUploads
  BY <1>1, PortUpload
<1>3. PICK i \in Portfolio!Ids : i = req[r].id
  BY <1>2 DEF PortUploads
<1>4. i # req[r].old /\ cover # i /\ PortTouches(req[r], i) /\ req[r].kind = "COVER"
      /\ (\A p \in Callers : p # r /\ req[p].pc \in PortPoints => i \notin {req[p].id, req[p].old})
      /\ (~req[r].stale => cover \in {0, req[r].old})
  BY <1>1, <1>3 DEF PortKnows, PortShows, PortTouches
<1>5. begun <= begun' /\ begun' \in Int
  BY <1>1 DEF PortTyped
<1>6. (\A j : Portfolio!HasRow(j)' <=> Portfolio!HasRow(j)) /\ \A kind : Portfolio!RowsOf(kind)' = Portfolio!RowsOf(kind)
  BY <1>1, PortSameRows
<1>7. CASE Portfolio!To(r, "cleanup") /\ excused' = excused \union {i} /\ UNCHANGED <<cover, raced>>
  <2>1. "cleanup" \in PortPoints /\ req' = [req EXCEPT ![r] = [req[r] EXCEPT !.pc = "cleanup"]]
    BY <1>7 DEF Portfolio!To, PortPoints
  <2>2. /\ req' \in [Callers -> PortReqs]
        /\ req'[r] = [pc |-> "cleanup", id |-> req[r].id, kind |-> req[r].kind, old |-> req[r].old, stale |-> req[r].stale]
        /\ \A p \in Callers : p # r => req'[p] = req[p] /\ PortLike(req'[p], req[p])
    BY <1>1, <2>1, PortTo
  <2>3. Portfolio!GalleryFits' /\ PortCover' /\ PortTyped'
    BY <1>1, <1>6, <1>7, <2>2, PortFewer DEF PortInv, PortCover, PortTyped
  <2>4. PortTakesUp(r)
    BY <1>1, <2>2 DEF PortTakesUp, PortTouches
  <2>5. PortWritesOwn(r) /\ PortTells(r)
    BY <1>1, <1>5, <1>6, <1>7 DEF PortWritesOwn, PortTells
  <2>6. PortHolds(r)
    BY <1>1, <1>3, <1>6, <1>7, <2>2 DEF PortHolds, PortBrings, PortTakes, PortMoves
  <2>7. PortKnows(r)'
    BY <1>1, <1>3, <1>4, <1>7, <2>1, <2>2 DEF PortKnows, PortNew, PortShows, PortTakes, PortTouches
  <2> QED BY <2>2, <2>3, <2>4, <2>5, <2>6, <2>7, PortWhole
<1>8. ASSUME Portfolio!HasRow(i), cover' = i, Portfolio!Note(r), NEW rec \in PortReqs, Portfolio!Overtake(r, rec),
             \/ (rec = Portfolio!Idle /\ req[r].old = 0 /\ excused' = excused)
             \/ (rec = [pc |-> "retire", id |-> i, kind |-> "COVER", old |-> req[r].old, stale |-> req[r].stale] /\ req[r].old # 0
                 /\ excused' = excused)
             \/ (rec = [pc |-> "cleanup", id |-> i, kind |-> "COVER", old |-> req[r].old, stale |-> req[r].stale]
                 /\ excused' = excused \union {i} \union ({req[r].old} \ {0}))
      PROVE  PortInv'
  <2>1. /\ req' \in [Callers -> PortReqs] /\ req'[r] = rec
        /\ \A p \in Callers : p # r => PortLike(req'[p], req[p])
        /\ \A p \in Callers : p # r /\ PortShows(req[p]) /\ req[p].kind = "COVER" => req'[p].stale
    BY <1>1, <1>4, <1>8, PortOvertakes
  <2>2. raced \subseteq raced' /\ (req[r].stale => "COVER" \in raced')
    BY <1>4, <1>8 DEF Portfolio!Note
  <2>3. Portfolio!GalleryFits'
    BY <1>6, <2>2, PortFewer
  <2>4. PortCover'
    BY <1>6, <1>8 DEF PortCover
  <2>5. PortTyped'
    <3>1. {req[r].old} \ {0} \subseteq Portfolio!Ids
      BY <1>2 DEF PortUploads, Portfolio!Ids
    <3>2. excused' \subseteq Portfolio!Ids
      BY <1>1, <1>8, <3>1 DEF PortTyped
    <3> QED BY <1>1, <1>8, <2>1, <3>2 DEF PortTyped, Portfolio!Ids
  <2>6. PortWritesOwn(r)
    BY <1>1, <1>5, <1>6, <1>8 DEF PortWritesOwn
  <2>7. PortTells(r)
    BY <1>1, <1>3, <1>6, <1>8, <2>1 DEF PortTells
  <2>8. Portfolio!RowsOf("COVER") \subseteq Portfolio!Ids /\ 0 \notin Portfolio!Ids
    BY <1>1, PortRows DEF Portfolio!Ids
  <2>9. PortHolds(r)
    BY <1>1, <1>3, <1>4, <1>6, <1>8, <2>1, <2>2, <2>8 DEF PortHolds, PortBrings, PortTakes, PortMoves, Portfolio!Idle
  <2>10. CASE rec = Portfolio!Idle
    BY <2>1, <2>3, <2>4, <2>5, <2>6, <2>7, <2>9, <2>10, PortAtRest, PortWhole
  <2>12. CASE rec.pc = "cleanup" /\ rec # Portfolio!Idle
    <3>1. req'[r].pc = "cleanup" /\ req'[r].id = i /\ req'[r].kind = "COVER" /\ req'[r].old = req[r].old
          /\ "cleanup" \in PortPoints /\ i \in excused'
      BY <1>8, <2>1, <2>12 DEF PortPoints
    <3>2. PortTakesUp(r)
      BY <1>1, <1>3, <3>1 DEF PortTakesUp, PortTouches
    <3>3. PortKnows(r)'
      BY <1>1, <1>3, <1>4, <1>8, <3>1 DEF PortKnows, PortNew, PortShows, PortTakes, PortTouches
    <3> QED BY <2>1, <2>3, <2>4, <2>5, <2>6, <2>7, <2>9, <3>2, <3>3, PortWhole
  <2>11. CASE rec.pc = "retire" /\ rec # Portfolio!Idle
    <3>1. req'[r].pc = "retire" /\ req'[r].id = i /\ req'[r].kind = "COVER" /\ req'[r].old = req[r].old /\ req[r].old # 0
          /\ "retire" \in PortPoints
      BY <1>8, <2>1, <2>11 DEF PortPoints
    <3>2. PortTakesUp(r)
      BY <1>1, <1>3, <3>1 DEF PortTakesUp, PortTouches
    <3>3. PortKnows(r)'
      BY <1>1, <1>3, <1>4, <1>8, <3>1 DEF PortKnows, PortNew, PortShows, PortTakes, PortTouches
    <3> QED BY <2>1, <2>3, <2>4, <2>5, <2>6, <2>7, <2>9, <3>2, <3>3, PortWhole
  <2> QED BY <1>8, <2>10, <2>11, <2>12
<1>10. ASSUME Portfolio!HasRow(i), cover' = i, Portfolio!Note(r), Portfolio!Overtake(r, [req[r] EXCEPT !.pc = "cleanup"]),
              excused' = excused \union {i} \union ({req[r].old} \ {0})
       PROVE  PortInv'
  <2>1. [req[r] EXCEPT !.pc = "cleanup"] = [pc |-> "cleanup", id |-> i, kind |-> "COVER", old |-> req[r].old, stale |-> req[r].stale]
    BY <1>2, <1>3, <1>4 DEF PortUploads
  <2>2. [pc |-> "cleanup", id |-> i, kind |-> "COVER", old |-> req[r].old, stale |-> req[r].stale] \in PortReqs
    BY <1>2 DEF PortUploads, PortReqs, PortPoints
  <2> QED BY <1>8, <1>10, <2>1, <2>2
<1>9. ASSUME Portfolio!HasRow(i), cover' = i, Portfolio!Note(r), UNCHANGED excused, Portfolio!Overtake(r, IF req[r].old = 0 THEN Portfolio!Idle ELSE [req[r] EXCEPT !.pc = "retire"])
      PROVE  PortInv'
  <2>1. CASE req[r].old = 0
    BY <1>8, <1>9, <2>1 DEF PortReqs
  <2>2. CASE req[r].old # 0
    <3>1. [req[r] EXCEPT !.pc = "retire"] = [pc |-> "retire", id |-> i, kind |-> "COVER", old |-> req[r].old, stale |-> req[r].stale]
      BY <1>2, <1>3, <1>4 DEF PortUploads
    <3>2. [pc |-> "retire", id |-> i, kind |-> "COVER", old |-> req[r].old, stale |-> req[r].stale] \in PortReqs
      BY <1>2 DEF PortUploads, PortReqs, PortPoints
    <3> QED BY <1>8, <1>9, <2>2, <3>1, <3>2
  <2> QED BY <2>1, <2>2
<1> QED BY <1>3, <1>7, <1>9, <1>10 DEF Portfolio!PointCover

LEMMA PortRetires ==
  ASSUME PortLimits, PortInv, NEW r \in Callers, Portfolio!RetireObject(r)
  PROVE  PortInv'
<1>1. PortTyped /\ PortKnows(r) /\ req[r].pc = "retire" /\ req[r].pc \in PortPoints /\ UNCHANGED <<cover, rows, begun, raced, crashed>>
  BY DEF PortInv, Portfolio!RetireObject, PortPoints
<1>2. req[r] \in PortUploads /\ req[r].old # 0
  BY <1>1, PortUpload DEF PortKnows
<1>3. PICK i \in Portfolio!Ids : i = req[r].old /\ Portfolio!DeleteObject(i)
  BY <1>2 DEF PortUploads, Portfolio!RetireObject, Portfolio!Ids
<1>4. (\A j : Portfolio!HasRow(j)' <=> Portfolio!HasRow(j)) /\ \A kind : Portfolio!RowsOf(kind)' = Portfolio!RowsOf(kind)
  BY <1>1, PortSameRows
<1>5. Portfolio!GalleryFits' /\ PortCover'
  BY <1>1, <1>4, PortFewer DEF PortInv, PortCover
<1>6. /\ objects' \subseteq objects /\ excused \subseteq excused' /\ excused' \subseteq Portfolio!Ids
      /\ \A j \in objects : j # i => j \in objects'
      /\ i \in objects' => i \in excused'
  BY <1>1, <1>3, PortDeletes
<1>7. begun <= begun' /\ begun' \in Int
  BY <1>1 DEF PortTyped
<1>8. /\ req' \in [Callers -> PortReqs]
      /\ req'[r] = [pc |-> "retireRow", id |-> req[r].id, kind |-> req[r].kind, old |-> req[r].old, stale |-> req[r].stale]
      /\ \A p \in Callers : p # r => req'[p] = req[p] /\ PortLike(req'[p], req[p])
  <2>1. "retireRow" \in PortPoints /\ req' = [req EXCEPT ![r] = [req[r] EXCEPT !.pc = "retireRow"]]
    BY DEF Portfolio!RetireObject, Portfolio!To, PortPoints
  <2> QED BY <1>1, <2>1, PortTo
<1>9. PortTyped'
  BY <1>1, <1>6, <1>8 DEF PortTyped
<1>10. PortTakesUp(r)
  BY <1>1, <1>8 DEF PortTakesUp, PortTouches
<1>11. PortWritesOwn(r) /\ PortTells(r)
  BY <1>1, <1>3, <1>4, <1>6, <1>7 DEF PortWritesOwn, PortTells, PortTouches
<1>12. PortHolds(r)
  BY <1>1, <1>3, <1>4, <1>6, <1>8 DEF PortHolds, PortTakes, PortBrings, PortMoves
<1>13. PortKnows(r)'
  BY <1>1, <1>3, <1>6, <1>8 DEF PortKnows, PortNew, PortShows, PortTakes, PortTouches, PortPoints
<1> QED BY <1>5, <1>8, <1>9, <1>10, <1>11, <1>12, <1>13, PortWhole

\* A row goes whose object is gone, or a deletion is given up.
LEMMA PortRowGoes ==
  ASSUME PortLimits, PortInv, NEW r \in Callers, NEW i \in Portfolio!Ids, PortTakes(req[r], i), Portfolio!Goto(r, Portfolio!Idle),
         req[r].pc \in {"dropRow", "retireRow"}, UNCHANGED <<objects, begun, raced, crashed>>,
         \/ rows' = Portfolio!Without(i) /\ cover' = (IF cover = i THEN 0 ELSE cover) /\ UNCHANGED excused
         \/ excused' = excused \union {i} /\ UNCHANGED <<rows, cover>>
  PROVE  PortInv'
<1>1. PortTyped /\ PortKnows(r)
  BY DEF PortInv
<1>2. i \in objects => i \in excused
  BY <1>1 DEF PortKnows
<1>3. (\A j : PortTakes(req[r], j) => j = i) /\ (\A j : ~PortBrings(req[r], j)) /\ (\A j : PortMoves(req[r], j) => j = i)
  BY DEF PortTakes, PortBrings, PortMoves
<1>4. /\ req' \in [Callers -> PortReqs] /\ req'[r] = Portfolio!Idle
      /\ \A p \in Callers : p # r => req'[p] = req[p] /\ PortLike(req'[p], req[p])
  BY <1>1, PortRests
<1>5. begun <= begun' /\ begun' \in Int
  BY <1>1 DEF PortTyped
<1>6. CASE rows' = Portfolio!Without(i) /\ cover' = (IF cover = i THEN 0 ELSE cover) /\ UNCHANGED excused
  <2>1. (\A j : Portfolio!HasRow(j)' <=> Portfolio!HasRow(j) /\ j # i) /\ (\A kind : Portfolio!RowsOf(kind)' = Portfolio!RowsOf(kind) \ {i}) /\ rows' \subseteq rows
    BY <1>1, <1>6, PortWithout
  <2>2. Portfolio!GalleryFits'
    BY <2>1, PortFewer
  <2>3. PortCover'
    BY <1>6, <2>1 DEF PortInv, PortCover, Portfolio!Ids
  <2>4. PortTyped'
    <3>1. cover' \in 0..PortfolioRequests
      BY <1>1, <1>6 DEF PortTyped, PortLimits
    <3> QED BY <1>1, <1>4, <1>6, <2>1, <3>1 DEF PortTyped
  <2>5. PortWritesOwn(r) /\ PortTells(r)
    BY <1>5, <1>6, <2>1 DEF PortWritesOwn, PortTells
  <2>6. PortHolds(r)
    BY <1>2, <1>3, <1>6, <2>1 DEF PortHolds
  <2> QED BY <1>4, <2>2, <2>3, <2>4, <2>5, <2>6, PortAtRest, PortWhole
<1>7. CASE excused' = excused \union {i} /\ UNCHANGED <<rows, cover>>
  <2>1. (\A j : Portfolio!HasRow(j)' <=> Portfolio!HasRow(j)) /\ \A kind : Portfolio!RowsOf(kind)' = Portfolio!RowsOf(kind)
    BY <1>7, PortSameRows
  <2>2. Portfolio!GalleryFits' /\ PortCover'
    BY <1>7, <2>1, PortFewer DEF PortInv, PortCover
  <2>4. PortTyped'
    BY <1>1, <1>4, <1>7 DEF PortTyped
  <2>5. PortWritesOwn(r) /\ PortTells(r)
    BY <1>5, <1>7, <2>1 DEF PortWritesOwn, PortTells
  <2>6. PortHolds(r)
    BY <1>3, <1>7, <2>1 DEF PortHolds
  <2> QED BY <1>4, <2>2, <2>4, <2>5, <2>6, PortAtRest, PortWhole
<1> QED BY <1>6, <1>7

LEMMA PortRetiresRow ==
  ASSUME PortLimits, PortInv, NEW r \in Callers, Portfolio!RetireRow(r)
  PROVE  PortInv'
<1>1. PortTyped /\ PortKnows(r) /\ req[r].pc = "retireRow" /\ req[r].pc \in PortPoints
  BY DEF PortInv, Portfolio!RetireRow, PortPoints
<1>2. req[r] \in PortUploads /\ req[r].old # 0
  BY <1>1, PortUpload DEF PortKnows
<1>3. PICK i \in Portfolio!Ids : i = req[r].old
  BY <1>2 DEF PortUploads, Portfolio!Ids
<1>4. PortTakes(req[r], i) /\ req[r].pc \in {"dropRow", "retireRow"}
  BY <1>1, <1>3 DEF PortTakes
<1>5. /\ Portfolio!Goto(r, Portfolio!Idle) /\ UNCHANGED <<objects, begun, raced, crashed>>
      /\ \/ rows' = Portfolio!Without(i) /\ cover' = (IF cover = i THEN 0 ELSE cover) /\ UNCHANGED excused
         \/ excused' = excused \union {i} /\ UNCHANGED <<rows, cover>>
  BY <1>3 DEF Portfolio!RetireRow
<1> QED BY <1>4, <1>5, PortRowGoes

-----------------------------------------------------------------------------
(* The steps of a removal.                                                 *)

LEMMA PortDrop ==
  ASSUME PortTyped, NEW r \in Callers, req[r].pc \in {"drop", "dropRow"}
  PROVE  req[r] \in PortDrops
  BY DEF PortTyped, PortReqs, Portfolio!Idle, PortUploads, PortSweeps, PortPoints

LEMMA PortSweep ==
  ASSUME PortTyped, NEW r \in Callers, req[r].pc = "sweep"
  PROVE  req[r] \in PortSweeps
  BY DEF PortTyped, PortReqs, Portfolio!Idle, PortUploads, PortDrops, PortPoints

LEMMA PortDropsRow ==
  ASSUME PortLimits, PortInv, NEW r \in Callers, Portfolio!DropRow(r)
  PROVE  PortInv'
<1>1. PortTyped /\ req[r].pc = "dropRow"
  BY DEF PortInv, Portfolio!DropRow
<1>2. PICK i \in Portfolio!Ids : i = req[r].id
  BY <1>1, PortDrop DEF PortDrops
<1>4. PortTakes(req[r], i) /\ req[r].pc \in {"dropRow", "retireRow"}
  BY <1>1, <1>2 DEF PortTakes
<1>5. /\ Portfolio!Goto(r, Portfolio!Idle) /\ UNCHANGED <<objects, begun, raced, crashed>>
      /\ \/ rows' = Portfolio!Without(i) /\ cover' = (IF cover = i THEN 0 ELSE cover) /\ UNCHANGED excused
         \/ excused' = excused \union {i} /\ UNCHANGED <<rows, cover>>
  BY <1>2 DEF Portfolio!DropRow
<1> QED BY <1>4, <1>5, PortRowGoes

\* A removal begins with assets that are listed.
LEMMA PortListed ==
  ASSUME PortLimits, PortInv, NEW r \in Callers, NEW rec \in PortDrops \union PortSweeps,
         req[r].pc = "idle", begun < PortfolioRequests, begun' = begun + 1, req' = [req EXCEPT ![r] = rec],
         \A i \in Portfolio!Ids : PortTouches(rec, i) => Portfolio!HasRow(i), \A i \in Portfolio!Ids : ~PortTakes(rec, i),
         rec.pc = "sweep" => rec.todo \subseteq rec.read,
         UNCHANGED <<cover, rows, objects, excused, raced, crashed>>
  PROVE  PortInv'
<1>1. PortTyped /\ begun <= begun' /\ begun' \in 0..PortfolioRequests /\ begun' \in Int
  BY DEF PortInv, PortTyped, PortLimits
<1>2. (\A j : Portfolio!HasRow(j)' <=> Portfolio!HasRow(j)) /\ \A kind : Portfolio!RowsOf(kind)' = Portfolio!RowsOf(kind)
  BY PortSameRows
<1>3. Portfolio!GalleryFits' /\ PortCover'
  BY <1>2, PortFewer DEF PortInv, PortCover
<1>4. \A j : ~PortTakes(req[r], j) /\ ~PortBrings(req[r], j) /\ ~PortMoves(req[r], j)
  BY DEF PortTakes, PortBrings, PortMoves
<1>5. /\ req' \in [Callers -> PortReqs] /\ req'[r] = rec
      /\ \A p \in Callers : p # r => req'[p] = req[p] /\ PortLike(req'[p], req[p])
  BY <1>1, PortGoes DEF PortReqs
<1>6. rec.pc \notin PortPoints
  BY DEF PortDrops, PortSweeps, PortPoints
<1>7. PortTyped'
  BY <1>1, <1>5 DEF PortTyped
<1>8. PortWritesOwn(r) /\ PortTells(r) /\ PortHolds(r)
  BY <1>1, <1>2, <1>4 DEF PortWritesOwn, PortTells, PortHolds
<1>9. PortTakesUp(r)
  BY <1>5, <1>6 DEF PortTakesUp
<1>10. \A i \in Portfolio!Ids : PortTouches(req'[r], i) => i <= begun'
  <2>1. SUFFICES ASSUME NEW i \in Portfolio!Ids, Portfolio!HasRow(i) PROVE i <= begun'
    BY <1>5
  <2>2. ~(i > begun)
    BY <2>1 DEF PortInv, PortLater
  <2> QED BY <1>1, <2>2 DEF Portfolio!Ids, PortTyped
<1>11. \A i \in objects' : ~PortTakes(req'[r], i)
  BY <1>1, <1>5 DEF PortTyped
<1>12. PortKnows(r)'
  BY <1>5, <1>6, <1>10, <1>11 DEF PortKnows, PortNew, PortShows, PortPoints
<1> QED BY <1>3, <1>5, <1>7, <1>8, <1>9, <1>12, PortWhole

LEMMA PortRemovals ==
  ASSUME PortLimits, PortInv, NEW r \in Callers
  PROVE  /\ \A i \in Portfolio!Ids : Portfolio!RemoveAssetBegins(r, i) => PortInv'
         /\ Portfolio!RemoveItemBegins(r) => PortInv'
<1>1. ASSUME NEW i \in Portfolio!Ids, Portfolio!RemoveAssetBegins(r, i) PROVE PortInv'
  <2> DEFINE rec == [pc |-> "drop", id |-> i]
  <2>1. /\ req[r].pc = "idle" /\ begun < PortfolioRequests /\ begun' = begun + 1 /\ req' = [req EXCEPT ![r] = rec]
        /\ Portfolio!HasRow(i) /\ UNCHANGED <<cover, rows, objects, excused, raced, crashed>>
    BY <1>1 DEF Portfolio!RemoveAssetBegins, Portfolio!Fresh, Portfolio!Goto
  <2>2. rec \in PortDrops \union PortSweeps /\ (\A j \in Portfolio!Ids : ~PortTakes(rec, j)) /\ rec.pc # "sweep"
    BY DEF PortDrops, PortTakes
  <2>3. \A j \in Portfolio!Ids : PortTouches(rec, j) => Portfolio!HasRow(j)
    BY <2>1 DEF PortTouches, PortPoints
  <2> HIDE DEF rec
  <2> QED BY <2>1, <2>2, <2>3, PortListed
<1>2. ASSUME Portfolio!RemoveItemBegins(r) PROVE PortInv'
  <2>1. PICK listed \in SUBSET Portfolio!Ids : listed = {i \in Portfolio!Ids : Portfolio!HasRow(i)}
    OBVIOUS
  <2> DEFINE rec == [pc |-> "sweep", read |-> listed, todo |-> listed]
  <2>2. /\ req[r].pc = "idle" /\ begun < PortfolioRequests /\ begun' = begun + 1 /\ req' = [req EXCEPT ![r] = rec]
        /\ UNCHANGED <<cover, rows, objects, excused, raced, crashed>>
    BY <1>2, <2>1 DEF Portfolio!RemoveItemBegins, Portfolio!Fresh, Portfolio!Goto
  <2>3. rec \in PortDrops \union PortSweeps /\ (\A j \in Portfolio!Ids : ~PortTakes(rec, j)) /\ rec.todo \subseteq rec.read
    BY DEF PortSweeps, PortTakes
  <2>4. \A j \in Portfolio!Ids : PortTouches(rec, j) => Portfolio!HasRow(j)
    BY <2>1 DEF PortTouches, PortPoints
  <2> HIDE DEF rec
  <2> QED BY <2>2, <2>3, <2>4, PortListed
<1> QED BY <1>1, <1>2

\* A removal comes to the row of an asset whose object it has deleted.
LEMMA PortObjectGoes ==
  ASSUME PortLimits, PortInv, NEW r \in Callers, NEW i \in Portfolio!Ids, NEW rec \in PortDrops \union PortSweeps,
         Portfolio!DeleteObject(i), req' = [req EXCEPT ![r] = rec], req[r].pc \in {"drop", "sweep"}, PortTouches(req[r], i),
         \A j \in Portfolio!Ids : PortTouches(rec, j) <=> PortTouches(req[r], j),
         \A j \in Portfolio!Ids : PortTakes(rec, j) <=> PortTakes(req[r], j) \/ j = i,
         rec.pc = "sweep" => rec.todo \subseteq rec.read,
         UNCHANGED <<cover, rows, begun, raced, crashed>>
  PROVE  PortInv'
<1>1. PortTyped /\ PortKnows(r) /\ begun <= begun' /\ begun' \in Int
  BY DEF PortInv, PortTyped
<1>2. (\A j : Portfolio!HasRow(j)' <=> Portfolio!HasRow(j)) /\ \A kind : Portfolio!RowsOf(kind)' = Portfolio!RowsOf(kind)
  BY PortSameRows
<1>3. Portfolio!GalleryFits' /\ PortCover'
  BY <1>2, PortFewer DEF PortInv, PortCover
<1>4. \A j : ~PortBrings(req[r], j) /\ ~PortMoves(req[r], j)
  BY DEF PortBrings, PortMoves
<1>5. /\ objects' \subseteq objects /\ excused \subseteq excused' /\ excused' \subseteq Portfolio!Ids
      /\ \A j \in objects : j # i => j \in objects'
      /\ i \in objects' => i \in excused'
  BY <1>1, PortDeletes
<1>6. /\ req' \in [Callers -> PortReqs] /\ req'[r] = rec
      /\ \A p \in Callers : p # r => req'[p] = req[p] /\ PortLike(req'[p], req[p])
  BY <1>1, PortGoes DEF PortReqs
<1>7. rec.pc \notin PortPoints /\ objects' \subseteq Portfolio!Ids
  BY <1>1, <1>5 DEF PortDrops, PortSweeps, PortPoints, PortTyped
<1>8. PortTyped'
  BY <1>1, <1>5, <1>6, <1>7 DEF PortTyped
<1>9. PortWritesOwn(r) /\ PortTells(r)
  BY <1>1, <1>2, <1>5 DEF PortWritesOwn, PortTells
<1>10. PortHolds(r)
  BY <1>2, <1>4, <1>5, <1>6, <1>7 DEF PortHolds
<1>11. PortTakesUp(r)
  BY <1>6, <1>7 DEF PortTakesUp
<1>12. /\ \A j \in Portfolio!Ids : PortTouches(req'[r], j) => j <= begun'
       /\ \A j \in objects' : PortTakes(req'[r], j) => j \in excused'
  BY <1>1, <1>5, <1>6, <1>7 DEF PortKnows
<1>13. PortKnows(r)'
  BY <1>6, <1>7, <1>12 DEF PortKnows, PortNew, PortShows, PortPoints
<1> QED BY <1>3, <1>6, <1>8, <1>9, <1>10, <1>11, <1>13, PortWhole

LEMMA PortObjects ==
  ASSUME PortLimits, PortInv, NEW r \in Callers
  PROVE  /\ Portfolio!DropObject(r) => PortInv'
         /\ \A i \in Portfolio!Ids : Portfolio!Sweep(r, i) => PortInv'
<1>1. ASSUME Portfolio!DropObject(r) PROVE PortInv'
  <2>1. req[r].pc = "drop" /\ UNCHANGED <<cover, rows, begun, raced, crashed>>
    BY <1>1 DEF Portfolio!DropObject
  <2>2. req[r] \in PortDrops
    BY <2>1, PortDrop DEF PortInv
  <2>3. PICK i \in Portfolio!Ids : i = req[r].id /\ Portfolio!DeleteObject(i)
    BY <1>1, <2>2 DEF PortDrops, Portfolio!DropObject
  <2>4. PICK rec \in PortDrops : rec = [pc |-> "dropRow", id |-> i]
    BY DEF PortDrops
  <2>5. req' = [req EXCEPT ![r] = rec]
    <3>1. [req[r] EXCEPT !.pc = "dropRow"] = rec
      BY <2>2, <2>3, <2>4 DEF PortDrops
    <3> QED BY <1>1, <3>1 DEF Portfolio!DropObject, Portfolio!To
  <2>6. /\ PortTouches(req[r], i) /\ \A j \in Portfolio!Ids : PortTouches(rec, j) <=> PortTouches(req[r], j)
        /\ \A j \in Portfolio!Ids : PortTakes(rec, j) <=> PortTakes(req[r], j) \/ j = i
    BY <2>1, <2>3, <2>4 DEF PortTouches, PortTakes, PortPoints
  <2>7. req[r].pc \in {"drop", "sweep"} /\ rec \in PortDrops \union PortSweeps
    BY <2>1
  <2>8. rec.pc = "sweep" => rec.todo \subseteq rec.read
    BY <2>4
  <2>9. Portfolio!DeleteObject(i) /\ UNCHANGED <<cover, rows, begun, raced, crashed>>
    BY <2>1, <2>3
  <2> QED BY <2>5, <2>6, <2>7, <2>8, <2>9, PortObjectGoes
<1>2. ASSUME NEW i \in Portfolio!Ids, Portfolio!Sweep(r, i) PROVE PortInv'
  <2>1. req[r].pc = "sweep" /\ i \in req[r].todo /\ Portfolio!DeleteObject(i) /\ UNCHANGED <<cover, rows, begun, raced, crashed>>
    BY <1>2 DEF Portfolio!Sweep
  <2>2. req[r] \in PortSweeps /\ req[r].todo \subseteq req[r].read
    BY <2>1, PortSweep DEF PortInv, PortKnows
  <2>3. PICK rec \in PortSweeps : rec = [pc |-> "sweep", read |-> req[r].read, todo |-> req[r].todo \ {i}]
    BY <2>2 DEF PortSweeps
  <2>4. req' = [req EXCEPT ![r] = rec]
    <3>1. [req[r] EXCEPT !.todo = req[r].todo \ {i}] = rec
      BY <2>2, <2>3 DEF PortSweeps
    <3>2. req' = [req EXCEPT ![r] = [req[r] EXCEPT !.todo = req[r].todo \ {i}]]
      BY <1>2 DEF Portfolio!Sweep
    <3> QED BY <3>1, <3>2
  <2>5. /\ PortTouches(req[r], i) /\ \A j \in Portfolio!Ids : PortTouches(rec, j) <=> PortTouches(req[r], j)
        /\ \A j \in Portfolio!Ids : PortTakes(rec, j) <=> PortTakes(req[r], j) \/ j = i
        /\ rec.todo \subseteq rec.read /\ req[r].pc \in {"drop", "sweep"} /\ rec \in PortDrops \union PortSweeps
    BY <2>1, <2>2, <2>3 DEF PortTouches, PortTakes, PortPoints
  <2> QED BY <2>1, <2>4, <2>5, PortObjectGoes
<1> QED BY <1>1, <1>2

LEMMA PortItemGoes ==
  ASSUME PortLimits, PortInv, NEW r \in Callers, Portfolio!RemoveItem(r)
  PROVE  PortInv'
<1>1. /\ PortTyped /\ PortKnows(r) /\ req[r].pc = "sweep" /\ req[r].todo = {} /\ cover' = 0 /\ rows' = {}
      /\ excused' = excused \union {i \in Portfolio!Ids \ req[r].read : Portfolio!HasRow(i)} /\ Portfolio!Goto(r, Portfolio!Idle)
      /\ UNCHANGED <<objects, begun, raced, crashed>>
  BY DEF PortInv, Portfolio!RemoveItem
<1>2. (\A j : ~Portfolio!HasRow(j)') /\ \A kind : Portfolio!RowsOf(kind)' = {}
  BY <1>1 DEF Portfolio!HasRow, Portfolio!KindOf, Portfolio!RowsOf
<1>3. Portfolio!GalleryFits'
  BY <1>1, <1>2, PortFewer
<1>4. PortCover'
  BY <1>1 DEF PortCover, Portfolio!Ids
<1>5. /\ req' \in [Callers -> PortReqs] /\ req'[r] = Portfolio!Idle
      /\ \A p \in Callers : p # r => req'[p] = req[p] /\ PortLike(req'[p], req[p])
  BY <1>1, PortRests
<1>6. PortTyped'
  BY <1>1, <1>5 DEF PortTyped, PortLimits
<1>7. PortWritesOwn(r) /\ PortTells(r)
  BY <1>1, <1>2 DEF PortWritesOwn, PortTells, PortTyped
<1>8. ASSUME NEW i \in objects, Portfolio!HasRow(i) PROVE i \in excused'
  <2>1. i \in Portfolio!Ids
    BY <1>1 DEF PortTyped
  <2>2. i \in req[r].read => PortTakes(req[r], i)
    BY <1>1 DEF PortTakes
  <2>3. PortTakes(req[r], i) => i \in excused
    BY <1>1 DEF PortKnows
  <2> QED BY <1>1, <1>8, <2>1, <2>2, <2>3
<1>9. PortHolds(r)
  BY <1>1, <1>2, <1>8 DEF PortHolds, PortBrings
<1> QED BY <1>3, <1>4, <1>5, <1>6, <1>7, <1>9, PortAtRest, PortWhole

LEMMA PortCrash == ASSUME PortLimits, PortInv, Portfolio!Crash PROVE PortInv'
<1>1. /\ PortTyped /\ crashed' = TRUE /\ req' = [r \in Callers |-> Portfolio!Idle]
      /\ UNCHANGED <<item, cover, rows, objects, begun, excused, raced>>
  BY DEF PortInv, Portfolio!Crash
<1>2. (\A j : Portfolio!HasRow(j)' <=> Portfolio!HasRow(j)) /\ \A kind : Portfolio!RowsOf(kind)' = Portfolio!RowsOf(kind)
  BY <1>1, PortSameRows
<1>3. PortTyped' /\ \A r \in Callers : PortKnows(r)'
  <2>1. \A r \in Callers : req'[r] = Portfolio!Idle
    BY <1>1
  <2>2. PortTyped'
    BY <1>1 DEF PortTyped, PortReqs
  <2> QED BY <2>1, <2>2, PortAtRest
<1>4. Portfolio!GalleryFits' /\ PortCover' /\ PortLater'
  BY <1>1, <1>2, PortFewer DEF PortInv, PortCover, PortLater
<1> QED BY <1>1, <1>3, <1>4 DEF PortInv, PortHalves, PortStored, PortOne

-----------------------------------------------------------------------------
LEMMA PortStep == ASSUME PortLimits PROVE PortInv /\ [Portfolio!Next]_(Portfolio!vars) => PortInv'
<1> SUFFICES ASSUME PortInv, [Portfolio!Next]_(Portfolio!vars) PROVE PortInv'
  OBVIOUS
<1>1. CASE Portfolio!Crash
  BY <1>1, PortCrash
<1>2. ASSUME NEW r \in Callers, NEW k \in {"COVER", "IMAGE"}, Portfolio!UploadBegins(r, k) PROVE PortInv'
  BY <1>2, PortUploads1
<1>3. ASSUME NEW r \in Callers, Portfolio!Store(r) \/ Portfolio!CreateRow(r) \/ Portfolio!PointCover(r) \/ Portfolio!Cleanup(r) PROVE PortInv'
  BY <1>3, PortUploads2, PortCreates, PortPoints1, PortCleans
<1>4. ASSUME NEW r \in Callers, Portfolio!RetireObject(r) \/ Portfolio!RetireRow(r) PROVE PortInv'
  BY <1>4, PortRetires, PortRetiresRow
<1>5. ASSUME NEW r \in Callers, NEW i \in Portfolio!Ids, Portfolio!RemoveAssetBegins(r, i) \/ Portfolio!Sweep(r, i) PROVE PortInv'
  BY <1>5, PortRemovals, PortObjects
<1>6. ASSUME NEW r \in Callers, Portfolio!DropObject(r) \/ Portfolio!DropRow(r) \/ Portfolio!RemoveItemBegins(r) \/ Portfolio!RemoveItem(r) PROVE PortInv'
  BY <1>6, PortObjects, PortDropsRow, PortRemovals, PortItemGoes
<1>7. CASE UNCHANGED Portfolio!vars
  <2>1. UNCHANGED <<item, cover, rows, objects, req, begun, excused, raced, crashed>>
    BY <1>7 DEF Portfolio!vars
  <2>2. (\A j : Portfolio!HasRow(j)' <=> Portfolio!HasRow(j)) /\ \A kind : Portfolio!RowsOf(kind)' = Portfolio!RowsOf(kind)
    BY <2>1, PortSameRows
  <2>3. PortTyped' /\ PortLater' /\ PortCover' /\ PortHalves' /\ PortStored' /\ PortOne' /\ Portfolio!GalleryFits'
    BY <2>1, <2>2 DEF PortInv, PortTyped, PortLater, PortCover, PortHalves, PortStored, PortOne, Portfolio!GalleryFits, Portfolio!Cardinality, Cardinality
  <2>4. ASSUME NEW r \in Callers PROVE PortKnows(r)'
    <3>1. PortKnows(r)
      BY DEF PortInv
    <3>2. (~Portfolio!HasRow(req[r].id))' <=> ~Portfolio!HasRow(req[r].id)
      BY <2>1 DEF Portfolio!HasRow, Portfolio!KindOf
    <3> QED BY <2>1, <2>2, <3>1 DEF PortKnows, Portfolio!HasRow, Portfolio!KindOf
  <2> QED BY <2>3, <2>4 DEF PortInv
<1> QED BY <1>1, <1>2, <1>3, <1>4, <1>5, <1>6, <1>7 DEF Portfolio!Next

\* PortfolioSound of every behaviour: covers are stored, halves stay together, the
\* gallery keeps to its limit and there is one cover.
LEMMA PortIsSound == ASSUME PortLimits PROVE PortInv => Portfolio!PortfolioSound
<1> SUFFICES ASSUME PortInv PROVE Portfolio!PortfolioSound
  OBVIOUS
<1>1. PortTyped /\ PortCover /\ PortHalves /\ PortStored /\ PortOne /\ Portfolio!GalleryFits /\ \A r \in Callers : PortKnows(r)
  BY DEF PortInv
<1>2. Portfolio!CoverIsStored
  <2>1. SUFFICES ASSUME cover \notin excused \union {0}, ~Portfolio!Removing, ~crashed PROVE Portfolio!HasRow(cover) /\ cover \in objects
    BY DEF Portfolio!CoverIsStored
  <2>2. cover \in Portfolio!Ids
    BY <1>1, <2>1 DEF PortTyped, Portfolio!Ids
  <2>3. Portfolio!HasRow(cover)
    BY <1>1, <2>2 DEF PortCover
  <2>4. ASSUME NEW r \in Callers PROVE ~PortTakes(req[r], cover)
    BY <1>1, <2>1 DEF PortKnows, PortTakes, Portfolio!Removing
  <2> QED BY <1>1, <2>1, <2>2, <2>3, <2>4 DEF PortHalves
<1>3. Portfolio!HalvesTogether /\ Portfolio!OneCover
  <2>1. ASSUME \A r \in Callers : req[r].pc = "idle", NEW i, NEW r \in Callers
        PROVE  ~PortTakes(req[r], i) /\ ~PortBrings(req[r], i) /\ ~PortMoves(req[r], i)
    BY <2>1 DEF PortTakes, PortBrings, PortMoves
  <2>2. Portfolio!HalvesTogether
    BY <1>1, <2>1 DEF Portfolio!HalvesTogether, PortHalves, PortStored
  <2>3. Portfolio!OneCover
    BY <1>1, <2>1 DEF Portfolio!OneCover, PortOne
  <2> QED BY <2>2, <2>3
<1> QED BY <1>1, <1>2, <1>3 DEF Portfolio!PortfolioSound

-----------------------------------------------------------------------------
(* Slugs and tags of portfolio items.                                      *)

Items == INSTANCE PortfolioItems WITH
    Requests <- Callers, MaxRequests <- ItemRequests, MaxTries <- SlugTries,
    Words <- ItemWords, Forms <- ItemForms

\* Spellings of the words.
ItemSpellings == [word : ItemWords, caps : BOOLEAN, blank : BOOLEAN]
\* A form has a slug of numbers and tags of the words there are.
ItemLimits ==
    /\ ItemRequests \in Nat
    /\ \A f \in ItemForms : f.slug \in Seq(Nat) /\ f.tags \in Seq(ItemSpellings)

\* A word whose tag has a row shows a spelling of itself.
ItemShown(w) == shown[w] = [word |-> w, caps |-> shown[w].caps, blank |-> FALSE]
ItemTag(t) == t = [word |-> t.word, caps |-> FALSE, blank |-> FALSE] /\ t.word \in ItemWords /\ ItemShown(t.word)

\* The tags of the form that are behind the request have their rows.
ItemUpTo(s, ahead, k) ==
    /\ Len(ahead) = Len(s) - k /\ ahead \in Seq(ItemSpellings)
    /\ \A m \in 1..Len(ahead) : ahead[m] = s[k + m]
    /\ \A m \in 1..k : ItemShown(s[m].word)
ItemDone(q) == \E k \in 0..Len(q.form.tags) : ItemUpTo(q.form.tags, q.todo, k)

\* What a request at work knows: every candidate before its own is another item's, and
\* unless somebody wrote since, its slug is free.
ItemKnows(q) ==
    /\ q = [pc |-> q.pc, item |-> q.item, form |-> q.form, base |-> q.base, n |-> q.n, new |-> q.new,
            todo |-> q.todo, saw |-> q.saw, behind |-> q.behind]
    /\ q.pc \in {"slug", "tags", "save"} /\ q.item \in Items!Items /\ q.form \in ItemForms
    /\ q.base \in Seq(Nat) /\ q.n \in Nat /\ q.n >= 1 /\ q.behind \in BOOLEAN
    /\ \A m \in 1..(q.n - 1) : \E j \in Items!Items \ {q.item} : Items!Candidate(q.base, m) \in used[j]
    /\ q.pc = "slug" => q.base # Items!NoSlug
    /\ q.pc # "slug" => q.new # Items!NoSlug \/ used[q.item] # {}
    /\ q.pc # "slug" /\ q.new # Items!NoSlug /\ q.behind = FALSE => Items!HeldBy(q.new) \subseteq {q.item}
    /\ q.pc = "save" => q.todo = << >>
    /\ ItemDone(q)

ItemTyped ==
    /\ slug = [i \in Items!Items |-> slug[i]] /\ status = [i \in Items!Items |-> status[i]]
    /\ tags = [i \in Items!Items |-> tags[i]] /\ used = [i \in Items!Items |-> used[i]]
    /\ last = [i \in Items!Items |-> last[i]] /\ shown = [w \in ItemWords |-> shown[w]]
    /\ \A i \in Items!Items : last[i] = [tags |-> last[i].tags, status |-> last[i].status, base |-> last[i].base, n |-> last[i].n]
    /\ begun \in Nat

\* What the properties ask of each item.
ItemSlug(i) ==
    slug[i] # Items!NoSlug =>
        /\ slug[i] \in used[i]
        /\ Items!HeldBy(slug[i]) \subseteq {i}
        /\ \A m \in 1..(last[i].n - 1) : \E j \in Items!Items \ {i} : Items!Candidate(last[i].base, m) \in used[j]
ItemTags(i) ==
    /\ slug[i] # Items!NoSlug => IF i \in raced THEN last[i].tags \subseteq tags[i] ELSE tags[i] = last[i].tags
    /\ \A t \in tags[i] : ItemTag(t)
ItemKept ==
    /\ \A i \in Items!Items : ItemSlug(i) /\ ItemTags(i) /\ status[i] = last[i].status
    /\ \A b \in failed : b = TRUE

ItemInv ==
    /\ ItemTyped /\ ItemKept
    /\ req = [r \in Callers |-> req[r]]
    /\ \A r \in Callers : req[r] = Items!Idle \/ ItemKnows(req[r])

\* A slug that is tried for a slug is never the mark for none.
LEMMA ItemReal ==
  ASSUME NEW base \in Seq(Nat), NEW n \in Nat, n >= 1, base # Items!NoSlug
  PROVE  Items!Candidate(base, n) # Items!NoSlug
<1>1. CASE n = 1
  BY <1>1 DEF Items!Candidate
<1>2. CASE n # 1
  <2>1. Append(base, n) \in Seq(Nat) /\ Len(Append(base, n)) = Len(base) + 1 /\ Append(base, n)[Len(base) + 1] = n
    OBVIOUS
  <2>2. Len(Items!NoSlug) = 1 /\ Items!NoSlug[1] = 0
    BY DEF Items!NoSlug
  <2>3. ASSUME Append(base, n) = Items!NoSlug PROVE FALSE
    <3>1. Len(base) = 0 /\ Len(base) \in Nat
      BY <2>1, <2>2, <2>3
    <3>2. n = 0
      BY <2>1, <2>2, <2>3, <3>1
    <3> QED BY <3>2
  <2> QED BY <1>2, <2>3 DEF Items!Candidate
<1> QED BY <1>1, <1>2

LEMMA ItemInit == ASSUME ItemLimits PROVE Items!Init => ItemInv
<1> SUFFICES ASSUME Items!Init PROVE ItemInv
  OBVIOUS
<1>1. /\ slug = [i \in Items!Items |-> IF i = 0 THEN Items!Title ELSE Items!NoSlug] /\ tags = [i \in Items!Items |-> {}]
      /\ used = [i \in Items!Items |-> IF i = 0 THEN {Items!Title} ELSE {}] /\ status = [i \in Items!Items |-> "DRAFT"]
      /\ shown = [w \in ItemWords |-> Items!None] /\ failed = {} /\ raced = {} /\ begun = 0
      /\ req = [r \in Callers |-> Items!Idle]
  BY DEF Items!Init
<1>2. PICK first : first = [tags |-> {}, status |-> "DRAFT", base |-> Items!Title, n |-> 1]
  OBVIOUS
<1>3. last = [i \in Items!Items |-> first]
  BY <1>2 DEF Items!Init
<1>4. ItemTyped
  BY <1>1, <1>2, <1>3 DEF ItemTyped
<1>5. ASSUME NEW i \in Items!Items PROVE ItemSlug(i) /\ ItemTags(i) /\ status[i] = last[i].status
  <2>1. slug[i] # Items!NoSlug => i = 0
    BY <1>1
  <2>2. last[i].n - 1 = 0 /\ last[i].tags = {} /\ last[i].status = "DRAFT"
    BY <1>2, <1>3
  <2>3. 1..(last[i].n - 1) = {}
    BY <2>2
  <2>4. i = 0 => slug[i] \in used[i]
    BY <1>1
  <2>5. Items!HeldBy(slug[i]) \subseteq {i} \/ slug[i] = Items!NoSlug
    BY <1>1 DEF Items!HeldBy
  <2> QED BY <1>1, <2>1, <2>2, <2>3, <2>4, <2>5 DEF ItemSlug, ItemTags
<1> QED BY <1>1, <1>4, <1>5 DEF ItemInv, ItemKept

\* What a request knows outlasts a step in which rows are only added, and no slug changes.
LEMMA ItemSame ==
  ASSUME UNCHANGED slug, NEW q, ItemKnows(q), q.form \in ItemForms => q.form.tags \in Seq(ItemSpellings),
         \A j \in Items!Items : used[j] \subseteq used'[j], \A w \in ItemWords : ItemShown(w) => ItemShown(w)'
  PROVE  ItemKnows(q)'
<1>1. ItemDone(q)'
  <2>1. PICK k \in 0..Len(q.form.tags) :
           /\ Len(q.todo) = Len(q.form.tags) - k
           /\ q.todo \in Seq(ItemSpellings)
           /\ \A m \in 1..Len(q.todo) : q.todo[m] = q.form.tags[k + m]
           /\ \A m \in 1..k : ItemShown(q.form.tags[m].word)
    BY DEF ItemKnows, ItemDone, ItemUpTo
  <2>2. ASSUME NEW m \in 1..k PROVE q.form.tags[m].word \in ItemWords
    <3>1. PICK s : s = q.form.tags
      OBVIOUS
    <3>2. s \in Seq(ItemSpellings)
      BY <3>1 DEF ItemKnows
    <3>3. Len(s) \in Nat /\ k \in 0..Len(s) /\ m \in 1..k
      BY <3>1, <3>2
    <3>4. m \in 1..Len(s)
      BY <3>3
    <3>5. s[m] \in ItemSpellings
      BY <3>2, <3>4
    <3> QED BY <3>1, <3>5 DEF ItemSpellings
  <2>3. \A m \in 1..k : ItemShown(q.form.tags[m].word)'
    BY <2>1, <2>2
  <2> QED BY <2>1, <2>3 DEF ItemDone, ItemUpTo
<1>2. \A m \in 1..(q.n - 1) : \E j \in Items!Items \ {q.item} : Items!Candidate(q.base, m) \in used'[j]
  BY DEF ItemKnows
<1>3. Items!HeldBy(q.new)' = Items!HeldBy(q.new)
  BY DEF Items!HeldBy
<1> QED BY <1>1, <1>2, <1>3 DEF ItemKnows

\* So it does for one that was overtaken, whatever was written.
LEMMA ItemBehind ==
  ASSUME NEW q, ItemKnows(q), q.form \in ItemForms => q.form.tags \in Seq(ItemSpellings),
         \A j \in Items!Items : used[j] \subseteq used'[j], UNCHANGED shown, NEW q1, q1 = [q EXCEPT !.behind = TRUE]
  PROVE  ItemKnows(q1)'
<1>1. /\ q1 = [pc |-> q1.pc, item |-> q1.item, form |-> q1.form, base |-> q1.base, n |-> q1.n, new |-> q1.new,
               todo |-> q1.todo, saw |-> q1.saw, behind |-> q1.behind]
      /\ q1.pc = q.pc /\ q1.item = q.item /\ q1.form = q.form /\ q1.base = q.base /\ q1.n = q.n /\ q1.new = q.new
      /\ q1.todo = q.todo /\ q1.behind = TRUE
  BY DEF ItemKnows
<1>2. ItemDone(q1)'
  <2>1. ItemDone(q)
    BY DEF ItemKnows
  <2> QED BY <1>1, <2>1 DEF ItemDone, ItemUpTo, ItemShown
<1>3. \A m \in 1..(q.n - 1) : \E j \in Items!Items \ {q.item} : Items!Candidate(q.base, m) \in used'[j]
  BY DEF ItemKnows
<1> QED BY <1>1, <1>2, <1>3 DEF ItemKnows

\* A request moves on and no row but of a word changes.
LEMMA ItemMoves ==
  ASSUME ItemLimits, ItemInv, UNCHANGED <<slug, status, tags, failed, used, last, raced>>, begun' \in Nat,
         shown' = [w \in ItemWords |-> shown'[w]], \A w \in ItemWords : ItemShown(w) => ItemShown(w)',
         NEW r \in Callers, NEW rec, Items!Goto(r, rec), rec = Items!Idle \/ ItemKnows(rec)'
  PROVE  ItemInv'
<1>1. ItemTyped'
  BY DEF ItemInv, ItemTyped
<1>2. ASSUME NEW i \in Items!Items PROVE (ItemSlug(i) /\ ItemTags(i) /\ status[i] = last[i].status)'
  <2>1. ItemSlug(i) /\ ItemTags(i) /\ status[i] = last[i].status
    BY DEF ItemInv, ItemKept
  <2>2. ItemSlug(i)'
    BY <2>1 DEF ItemSlug, Items!HeldBy
  <2>3. \A t : ItemTag(t) => ItemTag(t)'
    BY DEF ItemTag
  <2>4. ItemTags(i)'
    BY <2>1, <2>3 DEF ItemTags
  <2> QED BY <2>1, <2>2, <2>4
<1>3. ItemKept'
  BY <1>2 DEF ItemInv, ItemKept
<1>4. req' = [p \in Callers |-> req'[p]] /\ \A p \in Callers : req'[p] = rec \/ req'[p] = req[p]
  BY DEF Items!Goto, ItemInv
<1>5. ASSUME NEW p \in Callers PROVE req'[p] = Items!Idle \/ ItemKnows(req[p])'
  <2>1. PICK q : q = req'[p]
    OBVIOUS
  <2>2. q = Items!Idle \/ ItemKnows(q)'
    <3>1. CASE q = rec
      BY <3>1
    <3>2. CASE q = req[p]
      <4>1. q = Items!Idle \/ ItemKnows(q)
        BY <3>2 DEF ItemInv
      <4> QED BY <4>1, ItemSame, ItemLimits DEF ItemLimits
    <3> QED BY <1>4, <2>1, <3>1, <3>2
  <2> QED BY <2>1, <2>2 DEF ItemKnows, ItemDone, ItemUpTo
<1> QED BY <1>1, <1>3, <1>4, <1>5 DEF ItemInv

\* A request is over, and those at work are behind what it wrote.
LEMMA ItemCommits ==
  ASSUME ItemLimits, ItemInv, ItemTyped', ItemKept', UNCHANGED shown, \A j \in Items!Items : used[j] \subseteq used'[j],
         NEW r \in Callers, NEW rec, Items!Others(r, rec), rec = Items!Idle
  PROVE  ItemInv'
<1>1. req' = [p \in Callers |-> req'[p]]
  BY DEF Items!Others
<1>2. ASSUME NEW p \in Callers PROVE req'[p] = Items!Idle \/ ItemKnows(req[p])'
  <2>1. PICK q, q1 : q = req[p] /\ q1 = req'[p]
    OBVIOUS
  <2>2. q1 = Items!Idle \/ (q1 = [q EXCEPT !.behind = TRUE] /\ q.pc # "idle")
    BY <2>1 DEF Items!Others
  <2>3. q = Items!Idle \/ ItemKnows(q)
    BY <2>1 DEF ItemInv
  <2>4. q = Items!Idle => q.pc = "idle"
    BY DEF Items!Idle
  <2>5. q1 = Items!Idle \/ ItemKnows(q1)'
    BY <2>2, <2>3, <2>4, ItemBehind, ItemLimits DEF ItemLimits
  <2> QED BY <2>1, <2>5 DEF ItemKnows, ItemDone, ItemUpTo
<1> QED BY <1>1, <1>2 DEF ItemInv

\* The slug of an item is written, which nobody else has.
LEMMA ItemWrites ==
  ASSUME ItemInv, NEW i \in Items!Items, NEW x, x # Items!NoSlug, Items!HeldBy(x) \subseteq {i},
         slug' = [slug EXCEPT ![i] = x], used' = [used EXCEPT ![i] = @ \union {x}],
         NEW l, last' = [last EXCEPT ![i] = l],
         \A m \in 1..(l.n - 1) : \E j \in Items!Items \ {i} : Items!Candidate(l.base, m) \in used[j]
  PROVE  \A j \in Items!Items : ItemSlug(j)' /\ used[j] \subseteq used'[j]
<1>1. /\ \A j \in Items!Items : slug'[j] = IF j = i THEN x ELSE slug[j]
      /\ \A j \in Items!Items : used'[j] = IF j = i THEN used[j] \union {x} ELSE used[j]
      /\ \A j \in Items!Items : last'[j] = IF j = i THEN l ELSE last[j]
  BY DEF ItemInv, ItemTyped
<1>2. ASSUME NEW j \in Items!Items PROVE ItemSlug(j)'
  <2>1. ItemSlug(j)
    BY DEF ItemInv, ItemKept
  <2>2. CASE j = i
    <3>1. Items!HeldBy(x)' \subseteq {i}
      BY <1>1 DEF Items!HeldBy
    <3>2. \A m \in 1..(l.n - 1) : \E z \in Items!Items \ {i} : Items!Candidate(l.base, m) \in used'[z]
      BY <1>1
    <3>3. slug'[j] = x /\ last'[j] = l /\ x \in used'[j]
      BY <1>1, <2>2
    <3> QED BY <2>2, <3>1, <3>2, <3>3 DEF ItemSlug, Items!HeldBy
  <2>3. CASE j # i
    <3>1. slug'[j] = slug[j] /\ last'[j] = last[j] /\ used'[j] = used[j]
      BY <1>1, <2>3
    <3>2. slug[j] # Items!NoSlug => slug[j] # x
      BY <2>3 DEF Items!HeldBy
    <3>3. slug[j] # Items!NoSlug => Items!HeldBy(slug[j])' \subseteq {j}
      BY <1>1, <2>1, <3>1, <3>2 DEF ItemSlug, Items!HeldBy
    <3>4. PICK l1 : l1 = last[j]
      OBVIOUS
    <3>5. slug[j] # Items!NoSlug => \A m \in 1..(l1.n - 1) : \E z \in Items!Items \ {j} : Items!Candidate(l1.base, m) \in used'[z]
      BY <1>1, <2>1, <3>4 DEF ItemSlug
    <3> QED BY <2>1, <3>1, <3>3, <3>4, <3>5 DEF ItemSlug, Items!HeldBy
  <2> QED BY <2>2, <2>3
<1> QED BY <1>1, <1>2

\* The names of a form whose tags are behind have their rows.
LEMMA ItemNames ==
  ASSUME ItemLimits, NEW q, ItemKnows(q), q.todo = << >>
  PROVE  \A t \in Items!Names(q.form.tags) : ItemTag(t)
<1>1. PICK s : s = q.form.tags
  OBVIOUS
<1>2. s \in Seq(ItemSpellings)
  BY <1>1, ItemLimits DEF ItemKnows, ItemLimits
<1>3. \A m \in 1..Len(s) : ItemShown(s[m].word)
  <2>1. PICK k \in 0..Len(s) : Len(q.todo) = Len(s) - k /\ \A m \in 1..k : ItemShown(s[m].word)
    BY <1>1 DEF ItemKnows, ItemDone, ItemUpTo
  <2>2. Len(q.todo) = 0 /\ Len(s) \in Nat /\ k \in Int
    BY <1>2
  <2>3. k = Len(s)
    BY <2>1, <2>2
  <2> QED BY <2>1, <2>3
<1>4. DOMAIN s = 1..Len(s)
  BY <1>2
<1>5. ASSUME NEW m \in 1..Len(s) PROVE ItemTag(Items!Normalized(s[m]))
  <2>1. PICK t : t = s[m]
    OBVIOUS
  <2>2. t \in ItemSpellings
    BY <1>2, <2>1
  <2>3. Items!Normalized(t) = [word |-> t.word, caps |-> FALSE, blank |-> FALSE]
    <3>1. t = [word |-> t.word, caps |-> t.caps, blank |-> t.blank]
      BY <2>2 DEF ItemSpellings
    <3>2. PICK t1 : t1 = [t EXCEPT !.blank = FALSE]
      OBVIOUS
    <3>3. t1 = [word |-> t1.word, caps |-> t1.caps, blank |-> t1.blank] /\ t1.word = t.word /\ t1.blank = FALSE
      BY <3>1, <3>2
    <3>4. PICK t2 : t2 = [t1 EXCEPT !.caps = FALSE]
      OBVIOUS
    <3>5. /\ t2 = [word |-> t2.word, caps |-> t2.caps, blank |-> t2.blank]
          /\ t2.word = t.word /\ t2.blank = FALSE /\ t2.caps = FALSE
      BY <3>3, <3>4
    <3>6. Items!Normalized(t) = t2
      BY <3>2, <3>4 DEF Items!Normalized, Items!Lower, Items!Trimmed
    <3> QED BY <3>5, <3>6
  <2>4. ItemShown(t.word) /\ t.word \in ItemWords
    BY <1>3, <2>1, <2>2 DEF ItemSpellings
  <2> QED BY <2>1, <2>3, <2>4 DEF ItemTag
<1>6. Items!Names(q.form.tags) = {Items!Normalized(s[n]) : n \in 1..Len(s)}
  BY <1>1, <1>4 DEF Items!Names
<1>7. ASSUME NEW t \in Items!Names(q.form.tags) PROVE ItemTag(t)
  <2>1. PICK n \in 1..Len(s) : t = Items!Normalized(s[n])
    BY <1>6
  <2> QED BY <1>5, <2>1
<1> QED BY <1>7

\* What a write refuses was overtaken, and a write that is not refused has a slug.
LEMMA ItemFits ==
  ASSUME ItemInv, NEW q, ItemKnows(q), q.pc # "slug",
         slug[q.item] # Items!NoSlug \/ used[q.item] = {}
  PROVE  Items!Wanted(q) # Items!NoSlug /\ (Items!Fits(q) \/ q.behind = TRUE)
<1>1. q.item \in Items!Items /\ q.behind \in BOOLEAN
  BY DEF ItemKnows
<1>2. CASE q.new = Items!NoSlug
  <2>1. slug[q.item] # Items!NoSlug
    BY <1>2 DEF ItemKnows
  <2>2. Items!HeldBy(slug[q.item]) \subseteq {q.item}
    BY <1>1, <2>1 DEF ItemInv, ItemKept, ItemSlug
  <2> QED BY <1>2, <2>1, <2>2 DEF Items!Wanted, Items!Fits
<1>3. CASE q.new # Items!NoSlug
  <2>1. Items!Wanted(q) = q.new
    BY <1>3 DEF Items!Wanted
  <2>2. q.behind = FALSE => Items!HeldBy(q.new) \subseteq {q.item}
    BY <1>3 DEF ItemKnows
  <2> QED BY <1>1, <1>3, <2>1, <2>2 DEF Items!Fits
<1> QED BY <1>2, <1>3

LEMMA ItemRefused ==
  ASSUME ItemLimits, ItemInv, NEW r \in Callers, Items!Refused(r), req[r].behind = TRUE,
         UNCHANGED <<shown, begun>>, UNCHANGED <<slug, status, tags>>
  PROVE  ItemInv'
<1>1. ItemTyped'
  BY DEF Items!Refused, ItemInv, ItemTyped, Items!past, Items!rows
<1>2. UNCHANGED <<used, last, raced>> /\ failed' = failed \union {TRUE} /\ req' = [req EXCEPT ![r] = Items!Idle]
  BY DEF Items!Refused, Items!Goto
<1>3. ASSUME NEW i \in Items!Items PROVE (ItemSlug(i) /\ ItemTags(i) /\ status[i] = last[i].status)'
  <2>1. ItemSlug(i) /\ ItemTags(i) /\ status[i] = last[i].status
    BY DEF ItemInv, ItemKept
  <2> QED BY <1>2, <2>1 DEF ItemSlug, Items!HeldBy, ItemTags, ItemTag, ItemShown
<1>4. ItemKept'
  BY <1>2, <1>3 DEF ItemInv, ItemKept
<1>5. req' = [p \in Callers |-> req'[p]] /\ \A p \in Callers : req'[p] = Items!Idle \/ req'[p] = req[p]
  BY <1>2 DEF ItemInv
<1>6. ASSUME NEW p \in Callers PROVE req'[p] = Items!Idle \/ ItemKnows(req[p])'
  <2>1. PICK q : q = req'[p]
    OBVIOUS
  <2>2. q = Items!Idle \/ ItemKnows(q)
    BY <1>5, <2>1 DEF ItemInv
  <2>3. q = Items!Idle \/ ItemKnows(q)'
    BY <1>2, <2>2, ItemSame, ItemLimits DEF ItemLimits, ItemShown
  <2>4. ItemKnows(q)' => ItemKnows(req[p])'
    BY <2>1 DEF ItemKnows, ItemDone, ItemUpTo
  <2> QED BY <2>1, <2>3, <2>4
<1> QED BY <1>1, <1>4, <1>5, <1>6 DEF ItemInv

\* A request that begins to look for a slug, or keeps the one of its item.
LEMMA ItemFresh ==
  ASSUME ItemLimits, NEW i \in Items!Items, NEW f \in ItemForms, NEW base \in Seq(Nat), base # Items!NoSlug \/ used[i] # {}
  PROVE  ItemKnows(Items!Fresh(i, f, base))
<1>1. PICK q : q = Items!Fresh(i, f, base)
  OBVIOUS
<1>2. /\ q = [pc |-> q.pc, item |-> q.item, form |-> q.form, base |-> q.base, n |-> q.n, new |-> q.new,
              todo |-> q.todo, saw |-> q.saw, behind |-> q.behind]
      /\ q.pc = IF base = Items!NoSlug THEN "tags" ELSE "slug"
      /\ q.item = i /\ q.form = f /\ q.base = base /\ q.n = 1 /\ q.new = Items!NoSlug /\ q.todo = f.tags
      /\ q.behind = FALSE
  BY <1>1 DEF Items!Fresh
<1>3. PICK s : s = f.tags
  OBVIOUS
<1>4. s \in Seq(ItemSpellings)
  BY <1>3, ItemLimits DEF ItemLimits
<1>5. ItemDone(q)
  <2>1. /\ 0 \in 0..Len(s) /\ Len(s) = Len(s) - 0 /\ \A m \in 1..Len(s) : s[m] = s[0 + m] /\ 1..0 = {}
    BY <1>4
  <2>2. ItemUpTo(s, s, 0)
    BY <1>4, <2>1 DEF ItemUpTo
  <2>3. q.form.tags = s /\ q.todo = s
    BY <1>2, <1>3
  <2> QED BY <2>1, <2>2, <2>3 DEF ItemDone
<1>6. 1..(q.n - 1) = {} /\ q.n \in Nat /\ q.n >= 1
  BY <1>2
<1>7. ItemKnows(q)
  BY <1>2, <1>5, <1>6 DEF ItemKnows
<1> QED BY <1>1, <1>7

\* A candidate is free, or another item has it.
LEMMA ItemTries ==
  ASSUME ItemLimits, ItemInv, NEW r \in Callers, Items!TrySlug(r)
  PROVE  ItemInv'
<1>1. PICK q, x : q = req[r] /\ x = Items!Candidate(q.base, q.n)
  OBVIOUS
<1>2. /\ q.pc = "slug" /\ UNCHANGED <<slug, status, tags, failed, used, last, raced, shown, begun>>
      /\ Items!Goto(r, IF Items!FreeFor(x, q.item) THEN [q EXCEPT !.pc = "tags", !.new = x]
                 ELSE IF q.n < SlugTries THEN [q EXCEPT !.n = @ + 1] ELSE Items!Idle)
  BY <1>1 DEF Items!TrySlug, Items!rows, Items!past
<1>3. ItemKnows(q)
  BY <1>1, <1>2 DEF ItemInv, Items!Idle
<1>4. x # Items!NoSlug
  BY <1>1, <1>2, <1>3, ItemReal DEF ItemKnows
<1>5. PICK rec : rec = IF Items!FreeFor(x, q.item) THEN [q EXCEPT !.pc = "tags", !.new = x]
                       ELSE IF q.n < SlugTries THEN [q EXCEPT !.n = @ + 1] ELSE Items!Idle
  OBVIOUS
<1>6. rec = Items!Idle \/ ItemKnows(rec)
  <2>1. CASE Items!FreeFor(x, q.item)
    <3>1. rec = [q EXCEPT !.pc = "tags", !.new = x]
      BY <1>5, <2>1
    <3>2. /\ rec = [pc |-> rec.pc, item |-> rec.item, form |-> rec.form, base |-> rec.base, n |-> rec.n,
                    new |-> rec.new, todo |-> rec.todo, saw |-> rec.saw, behind |-> rec.behind]
          /\ rec.pc = "tags" /\ rec.item = q.item /\ rec.form = q.form /\ rec.base = q.base /\ rec.n = q.n
          /\ rec.new = x /\ rec.todo = q.todo /\ rec.behind = q.behind
      BY <1>3, <3>1 DEF ItemKnows
    <3>3. ItemDone(rec)
      BY <1>3, <3>2 DEF ItemKnows, ItemDone, ItemUpTo
    <3>4. Items!HeldBy(x) \subseteq {q.item}
      BY <2>1 DEF Items!FreeFor
    <3> QED BY <1>3, <1>4, <3>2, <3>3, <3>4 DEF ItemKnows
  <2>2. CASE ~Items!FreeFor(x, q.item) /\ q.n < SlugTries
    <3>1. rec = [q EXCEPT !.n = @ + 1]
      BY <1>5, <2>2
    <3>2. /\ rec = [pc |-> rec.pc, item |-> rec.item, form |-> rec.form, base |-> rec.base, n |-> rec.n,
                    new |-> rec.new, todo |-> rec.todo, saw |-> rec.saw, behind |-> rec.behind]
          /\ rec.pc = "slug" /\ rec.item = q.item /\ rec.form = q.form /\ rec.base = q.base /\ rec.n = q.n + 1
          /\ rec.new = q.new /\ rec.todo = q.todo /\ rec.behind = q.behind
      BY <1>2, <1>3, <3>1 DEF ItemKnows
    <3>3. ItemDone(rec)
      BY <1>3, <3>2 DEF ItemKnows, ItemDone, ItemUpTo
    <3>4. PICK j \in Items!Items \ {q.item} : slug[j] = x
      BY <2>2 DEF Items!FreeFor, Items!HeldBy
    <3>5. x \in used[j]
      BY <1>4, <3>4 DEF ItemInv, ItemKept, ItemSlug
    <3>6. q.n \in Nat /\ q.n >= 1
      BY <1>3 DEF ItemKnows
    <3>7. \A m \in 1..(rec.n - 1) : m = q.n \/ m \in 1..(q.n - 1)
      BY <3>2, <3>6
    <3>8. \A m \in 1..(q.n - 1) : \E z \in Items!Items \ {q.item} : Items!Candidate(q.base, m) \in used[z]
      BY <1>3 DEF ItemKnows
    <3>9. \A m \in 1..(rec.n - 1) : \E z \in Items!Items \ {rec.item} : Items!Candidate(rec.base, m) \in used[z]
      BY <1>1, <3>2, <3>4, <3>5, <3>7, <3>8
    <3>10. rec.n \in Nat /\ rec.n >= 1
      BY <3>2, <3>6
    <3> QED BY <1>2, <1>3, <3>2, <3>3, <3>9, <3>10 DEF ItemKnows
  <2>3. CASE ~Items!FreeFor(x, q.item) /\ ~(q.n < SlugTries)
    BY <1>5, <2>3
  <2> QED BY <2>1, <2>2, <2>3
<1>7. rec = Items!Idle \/ ItemKnows(rec)'
  BY <1>2, <1>6, ItemSame, ItemLimits DEF ItemLimits, ItemShown
<1>8. Items!Goto(r, rec)
  BY <1>2, <1>5
<1>9. begun' \in Nat /\ shown' = [w \in ItemWords |-> shown'[w]] /\ \A w \in ItemWords : ItemShown(w) => ItemShown(w)'
  BY <1>2 DEF ItemInv, ItemTyped, ItemShown
<1> QED BY <1>2, <1>7, <1>8, <1>9, ItemMoves

\* The row of a word is written, or was for an earlier spelling.
LEMMA ItemUpserts ==
  ASSUME ItemLimits, ItemInv, NEW r \in Callers, Items!Upsert(r)
  PROVE  ItemInv'
<1>1. PICK q, t, n, s : q = req[r] /\ t = Head(q.todo) /\ n = Len(q.form.tags) - Len(q.todo) + 1 /\ s = q.form.tags
  OBVIOUS
<1>2. /\ q.pc = "tags" /\ q.todo # << >> /\ UNCHANGED <<slug, status, tags, failed, used, last, raced, begun>>
      /\ shown' = IF Items!Counts(s, n) THEN [shown EXCEPT ![Items!Normalized(t).word] = Items!Trimmed(t)] ELSE shown
      /\ Items!Goto(r, [q EXCEPT !.todo = Tail(@)])
  BY <1>1 DEF Items!Upsert, Items!rows, Items!past
<1>3. ItemKnows(q)
  BY <1>1, <1>2 DEF ItemInv, Items!Idle
<1>4. s \in Seq(ItemSpellings)
  BY <1>1, <1>3, ItemLimits DEF ItemKnows, ItemLimits
<1>5. PICK k \in 0..Len(s) :
         /\ Len(q.todo) = Len(s) - k /\ q.todo \in Seq(ItemSpellings)
         /\ \A m \in 1..Len(q.todo) : q.todo[m] = s[k + m]
         /\ \A m \in 1..k : ItemShown(s[m].word)
  BY <1>1, <1>3 DEF ItemKnows, ItemDone, ItemUpTo
<1>6. /\ Len(q.todo) \in Nat /\ Len(q.todo) >= 1 /\ Len(s) \in Nat /\ k \in Nat
      /\ t = q.todo[1] /\ t \in ItemSpellings
  <2>1. Len(q.todo) \in Nat /\ Len(s) \in Nat /\ k \in Nat
    BY <1>4, <1>5
  <2>2. Len(q.todo) # 0
    BY <1>2, <1>5
  <2>3. t = q.todo[1] /\ 1 \in 1..Len(q.todo)
    BY <1>1, <1>2, <1>5, <2>1, <2>2
  <2>4. t \in ItemSpellings
    BY <1>5, <2>3
  <2> QED BY <2>1, <2>2, <2>3, <2>4
<1>7. n = k + 1 /\ k + 1 \in 1..Len(s) /\ t = s[k + 1]
  <2>1. n = k + 1 /\ k + 1 \in 1..Len(s) /\ 1 \in 1..Len(q.todo)
    BY <1>1, <1>5, <1>6
  <2> QED BY <1>5, <1>6, <2>1
<1>8. t = [word |-> t.word, caps |-> t.caps, blank |-> t.blank] /\ t.word \in ItemWords
  BY <1>6 DEF ItemSpellings
<1>9. PICK t1 : t1 = Items!Trimmed(t)
  OBVIOUS
<1>10. t1 = [word |-> t.word, caps |-> t1.caps, blank |-> FALSE] /\ Items!Normalized(t).word = t.word
  BY <1>8, <1>9 DEF Items!Trimmed, Items!Normalized, Items!Lower
<1>11. shown = [w \in ItemWords |-> shown[w]]
  BY DEF ItemInv, ItemTyped
<1>12. shown' = [w \in ItemWords |-> shown'[w]] /\ \A w \in ItemWords : ItemShown(w) => ItemShown(w)'
  <2>1. CASE Items!Counts(s, n)
    <3>1. shown' = [shown EXCEPT ![t.word] = t1]
      BY <1>2, <1>9, <1>10, <2>1
    <3>2. shown'[t.word] = t1 /\ \A w \in ItemWords \ {t.word} : shown'[w] = shown[w]
      BY <1>8, <1>11, <3>1
    <3>3. ItemShown(t.word)'
      BY <1>10, <3>2 DEF ItemShown
    <3>4. \A w \in ItemWords \ {t.word} : ItemShown(w) => ItemShown(w)'
      BY <3>2 DEF ItemShown
    <3> QED BY <1>11, <3>1, <3>3, <3>4
  <2>2. CASE ~Items!Counts(s, n)
    BY <1>2, <1>11, <2>2 DEF ItemShown
  <2> QED BY <2>1, <2>2
<1>13. ItemShown(t.word)'
  <2>1. CASE Items!Counts(s, n)
    <3>1. shown' = [shown EXCEPT ![t.word] = t1]
      BY <1>2, <1>9, <1>10, <2>1
    <3>2. shown'[t.word] = t1
      BY <1>8, <1>11, <3>1
    <3> QED BY <1>10, <3>2 DEF ItemShown
  <2>2. CASE ~Items!Counts(s, n)
    <3>1. PICK m \in 1..(n - 1) : Items!Normalized(s[m]) = Items!Normalized(s[n])
      BY <2>2 DEF Items!Counts
    <3>2. m \in 1..k /\ m \in 1..Len(s)
      BY <1>5, <1>6, <1>7, <3>1
    <3>3. PICK u : u = s[m]
      OBVIOUS
    <3>4. u \in ItemSpellings
      BY <1>4, <3>2, <3>3
    <3>5. u = [word |-> u.word, caps |-> u.caps, blank |-> u.blank]
      BY <3>4 DEF ItemSpellings
    <3>6. Items!Normalized(u).word = u.word
      BY <3>5 DEF Items!Trimmed, Items!Normalized, Items!Lower
    <3>7. u.word = t.word
      BY <1>7, <1>10, <3>1, <3>3, <3>6
    <3>8. ItemShown(u.word)
      BY <1>5, <3>2, <3>3
    <3> QED BY <1>8, <1>12, <3>7, <3>8
  <2> QED BY <2>1, <2>2
<1>14. PICK rec : rec = [q EXCEPT !.todo = Tail(@)]
  OBVIOUS
<1>15. /\ rec = [pc |-> rec.pc, item |-> rec.item, form |-> rec.form, base |-> rec.base, n |-> rec.n,
                 new |-> rec.new, todo |-> rec.todo, saw |-> rec.saw, behind |-> rec.behind]
       /\ rec.pc = "tags" /\ rec.item = q.item /\ rec.form = q.form /\ rec.base = q.base /\ rec.n = q.n
       /\ rec.new = q.new /\ rec.todo = Tail(q.todo) /\ rec.behind = q.behind
  BY <1>2, <1>3, <1>14 DEF ItemKnows
<1>16. ItemKnows(q)'
  BY <1>2, <1>3, <1>4, <1>1, <1>12, ItemSame
<1>17. ItemDone(rec)'
  <2>1. PICK rest : rest = Tail(q.todo)
    OBVIOUS
  <2>2. /\ rest \in Seq(ItemSpellings) /\ Len(rest) = Len(q.todo) - 1
        /\ \A m \in 1..Len(rest) : rest[m] = q.todo[m + 1]
    BY <1>2, <1>5, <2>1
  <2>3. Len(rest) = Len(s) - (k + 1) /\ k + 1 \in 0..Len(s)
    BY <1>5, <1>6, <1>7, <2>2
  <2>4. ASSUME NEW m \in 1..Len(rest) PROVE rest[m] = s[k + 1 + m]
    <3>1. m + 1 \in 1..Len(q.todo) /\ k + (m + 1) = k + 1 + m
      BY <1>6, <2>2
    <3> QED BY <1>5, <2>2, <3>1
  <2>5. ASSUME NEW m \in 1..(k + 1) PROVE ItemShown(s[m].word)'
    <3>1. CASE m = k + 1
      BY <1>7, <1>13, <3>1
    <3>2. CASE m # k + 1
      <4>1. m \in 1..k /\ m \in 1..Len(s)
        BY <1>6, <1>7, <3>2
      <4>2. s[m] \in ItemSpellings /\ ItemShown(s[m].word)
        BY <1>4, <1>5, <4>1
      <4>3. s[m].word \in ItemWords
        BY <4>2 DEF ItemSpellings
      <4> QED BY <1>12, <4>2, <4>3
    <3> QED BY <3>1, <3>2
  <2>6. ItemUpTo(s, rest, k + 1)'
    BY <2>2, <2>3, <2>4, <2>5 DEF ItemUpTo
  <2>7. rec.form.tags = s /\ rec.todo = rest
    BY <1>1, <1>15, <2>1
  <2> QED BY <2>3, <2>6, <2>7 DEF ItemDone
<1>18. ItemKnows(rec)'
  BY <1>2, <1>15, <1>16, <1>17 DEF ItemKnows
<1>19. Items!Goto(r, rec) /\ begun' \in Nat
  BY <1>2, <1>14 DEF ItemInv, ItemTyped
<1> QED BY <1>2, <1>12, <1>18, <1>19, ItemMoves

\* An item is written with its slug, its status and its tags.
LEMMA ItemStores ==
  ASSUME ItemLimits, ItemInv, NEW r \in Callers, Items!Others(r, Items!Idle), UNCHANGED <<failed, shown, begun>>,
         NEW i \in Items!Items, NEW x, x # Items!NoSlug, Items!HeldBy(x) \subseteq {i},
         slug' = [slug EXCEPT ![i] = x], used' = [used EXCEPT ![i] = @ \union {x}],
         NEW st, status' = [status EXCEPT ![i] = st], NEW g, tags' = [tags EXCEPT ![i] = g],
         NEW l, l = [tags |-> l.tags, status |-> l.status, base |-> l.base, n |-> l.n],
         last' = [last EXCEPT ![i] = l], l.status = st,
         raced \subseteq raced', raced' \subseteq raced \union {i},
         IF i \in raced' THEN l.tags \subseteq g ELSE g = l.tags, \A t \in g : ItemTag(t),
         \A m \in 1..(l.n - 1) : \E j \in Items!Items \ {i} : Items!Candidate(l.base, m) \in used[j]
  PROVE  ItemInv'
<1>1. \A j \in Items!Items : ItemSlug(j)' /\ used[j] \subseteq used'[j]
  BY ItemWrites
<1>2. /\ \A j \in Items!Items : status'[j] = IF j = i THEN st ELSE status[j]
      /\ \A j \in Items!Items : tags'[j] = IF j = i THEN g ELSE tags[j]
      /\ \A j \in Items!Items : last'[j] = IF j = i THEN l ELSE last[j]
      /\ \A j \in Items!Items : slug'[j] = IF j = i THEN x ELSE slug[j]
  BY DEF ItemInv, ItemTyped
<1>3. ItemTyped'
  <2>1. /\ slug' = [j \in Items!Items |-> slug'[j]] /\ status' = [j \in Items!Items |-> status'[j]]
        /\ tags' = [j \in Items!Items |-> tags'[j]] /\ used' = [j \in Items!Items |-> used'[j]]
        /\ last' = [j \in Items!Items |-> last'[j]] /\ shown' = [w \in ItemWords |-> shown'[w]]
        /\ begun' \in Nat
    BY DEF ItemInv, ItemTyped
  <2>2. \A j \in Items!Items : last'[j] = l \/ last'[j] = last[j]
    BY <1>2
  <2>3. \A j \in Items!Items : last[j] = [tags |-> last[j].tags, status |-> last[j].status, base |-> last[j].base, n |-> last[j].n]
    BY DEF ItemInv, ItemTyped
  <2>4. ASSUME NEW j \in Items!Items
        PROVE  last'[j] = [tags |-> last'[j].tags, status |-> last'[j].status, base |-> last'[j].base, n |-> last'[j].n]
    BY <2>2, <2>3
  <2> QED BY <2>1, <2>4 DEF ItemTyped
<1>4. ASSUME NEW j \in Items!Items PROVE ItemTags(j)' /\ status'[j] = last'[j].status
  <2>1. ItemTags(j) /\ status[j] = last[j].status
    BY DEF ItemInv, ItemKept
  <2>2. \A t : ItemTag(t) => ItemTag(t)'
    BY DEF ItemTag, ItemShown
  <2>3. CASE j = i
    <3>1. tags'[j] = g /\ last'[j] = l /\ status'[j] = st
      BY <1>2, <2>3
    <3> QED BY <2>2, <2>3, <3>1 DEF ItemTags
  <2>4. CASE j # i
    <3>1. tags'[j] = tags[j] /\ last'[j] = last[j] /\ status'[j] = status[j] /\ slug'[j] = slug[j] /\ (j \in raced' <=> j \in raced)
      BY <1>2, <2>4
    <3> QED BY <2>1, <2>2, <3>1 DEF ItemTags
  <2> QED BY <2>3, <2>4
<1>5. ItemKept'
  BY <1>1, <1>4 DEF ItemInv, ItemKept
<1>6. \A j \in Items!Items : used[j] \subseteq used'[j]
  BY <1>1
<1> QED BY <1>3, <1>5, <1>6, ItemCommits

LEMMA ItemCreates ==
  ASSUME ItemLimits, ItemInv, NEW r \in Callers, Items!Create(r)
  PROVE  ItemInv'
<1>1. PICK q, x, st, i : q = req[r] /\ x = q.new /\ i = q.item /\ st = IF q.form.status = "" THEN rule.status ELSE q.form.status
  OBVIOUS
<1>2. /\ q.pc = "tags" /\ q.todo = << >> /\ i \notin Items!Live /\ used[i] = {} /\ UNCHANGED <<shown, begun>>
      /\ \/ /\ Items!Fits(q) /\ slug' = [slug EXCEPT ![i] = x] /\ status' = [status EXCEPT ![i] = st]
            /\ tags' = [tags EXCEPT ![i] = Items!Names(q.form.tags)] /\ used' = [used EXCEPT ![i] = {x}]
            /\ last' = [last EXCEPT ![i] = [tags |-> Items!Names(q.form.tags), status |-> st, base |-> q.base, n |-> q.n]]
            /\ Items!Others(r, Items!Idle) /\ UNCHANGED <<failed, raced>>
         \/ ~Items!Fits(q) /\ Items!Refused(r)
  BY <1>1 DEF Items!Create
<1>3. ItemKnows(q) /\ i \in Items!Items
  <2>1. q.pc = "tags" /\ q = req[r] /\ i = q.item
    BY <1>1, <1>2
  <2>2. q = Items!Idle \/ ItemKnows(q)
    BY <2>1 DEF ItemInv
  <2>3. Items!Idle.pc = "idle"
    BY DEF Items!Idle
  <2>4. ItemKnows(q)
    BY <2>1, <2>2, <2>3
  <2> QED BY <2>1, <2>4 DEF ItemKnows
<1>4. Items!Wanted(q) # Items!NoSlug /\ (Items!Fits(q) \/ q.behind = TRUE)
  BY <1>1, <1>2, <1>3, ItemFits
<1>5. x # Items!NoSlug
  BY <1>1, <1>2, <1>3 DEF ItemKnows
<1>6. CASE ~Items!Fits(q)
  <2>1. Items!Refused(r)
    BY <1>2, <1>6
  <2>2. UNCHANGED <<slug, status, tags>> /\ req[r].behind = TRUE
    BY <1>1, <1>4, <1>6, <2>1 DEF Items!Refused, Items!rows
  <2> QED BY <1>2, <2>1, <2>2, ItemRefused
<1>7. CASE Items!Fits(q)
  <2>1. Items!HeldBy(x) \subseteq {i}
    BY <1>1, <1>5, <1>7 DEF Items!Fits, Items!Wanted
  <2>2. PICK g : g = Items!Names(q.form.tags)
    OBVIOUS
  <2>3. PICK l : l = [tags |-> g, status |-> st, base |-> q.base, n |-> q.n]
    OBVIOUS
  <2>4. l = [tags |-> l.tags, status |-> l.status, base |-> l.base, n |-> l.n] /\ l.status = st /\ l.tags = g /\ l.base = q.base /\ l.n = q.n
    BY <2>3
  <2>5. \A t \in g : ItemTag(t)
    BY <1>2, <1>3, <2>2, ItemNames
  <2>6. \A m \in 1..(l.n - 1) : \E j \in Items!Items \ {i} : Items!Candidate(l.base, m) \in used[j]
    BY <1>1, <1>3, <2>4 DEF ItemKnows
  <2>7. used' = [used EXCEPT ![i] = @ \union {x}]
    <3>1. {x} = used[i] \union {x}
      BY <1>2
    <3>2. used' = [used EXCEPT ![i] = {x}]
      BY <1>2, <1>7
    <3> QED BY <3>1, <3>2
  <2>8. /\ slug' = [slug EXCEPT ![i] = x] /\ status' = [status EXCEPT ![i] = st] /\ tags' = [tags EXCEPT ![i] = g]
        /\ last' = [last EXCEPT ![i] = l] /\ Items!Others(r, Items!Idle) /\ UNCHANGED <<failed, raced>>
    BY <1>2, <1>7, <2>2, <2>3
  <2> QED BY <1>2, <1>3, <1>5, <2>1, <2>4, <2>5, <2>6, <2>7, <2>8, ItemStores
<1> QED BY <1>6, <1>7

LEMMA ItemSaves ==
  ASSUME ItemLimits, ItemInv, NEW r \in Callers, Items!Save(r)
  PROVE  ItemInv'
<1>1. PICK q, x, i : q = req[r] /\ x = Items!Wanted(q) /\ i = q.item
  OBVIOUS
<1>2. q.pc = "save" /\ UNCHANGED <<shown, begun>>
  BY <1>1 DEF Items!Save
<1>3. ItemKnows(q) /\ i \in Items!Items /\ q.todo = << >>
  <2>1. ItemKnows(q)
    BY <1>1, <1>2 DEF ItemInv, Items!Idle
  <2> QED BY <1>1, <1>2, <2>1 DEF ItemKnows
<1>4. CASE i \notin Items!Live /\ Items!Goto(r, Items!Idle) /\ UNCHANGED Items!rows /\ UNCHANGED Items!past
  <2>1. UNCHANGED <<slug, status, tags, failed, used, last, raced>>
    BY <1>4 DEF Items!rows, Items!past
  <2>2. begun' \in Nat /\ shown' = [w \in ItemWords |-> shown'[w]] /\ \A w \in ItemWords : ItemShown(w) => ItemShown(w)'
    BY <1>2 DEF ItemInv, ItemTyped, ItemShown
  <2>3. PICK rec : rec = Items!Idle
    OBVIOUS
  <2> QED BY <1>4, <2>1, <2>2, <2>3, ItemMoves
<1>5. CASE i \in Items!Live
  <2>1. slug[i] # Items!NoSlug /\ ItemSlug(i) /\ ItemTags(i) /\ status[i] = last[i].status
    BY <1>3, <1>5 DEF Items!Live, ItemInv, ItemKept
  <2>2. x # Items!NoSlug /\ (Items!Fits(q) \/ q.behind = TRUE)
    BY <1>1, <1>2, <1>3, <2>1, ItemFits
  <2>3. CASE ~Items!Fits(q)
    <3>1. Items!Refused(r)
      BY <1>1, <1>5, <2>3 DEF Items!Save
    <3>2. UNCHANGED <<slug, status, tags>> /\ req[r].behind = TRUE
      BY <1>1, <2>2, <2>3, <3>1 DEF Items!Refused, Items!rows
    <3> QED BY <1>2, <3>1, <3>2, ItemRefused
  <2>4. CASE Items!Fits(q)
    <3>1. PICK st : st = Items!StatusOf(q)
      OBVIOUS
    <3>2. PICK g : g = IF q.form.sent THEN (tags[i] \ q.saw) \union Items!Names(q.form.tags) ELSE tags[i]
      OBVIOUS
    <3>3. PICK l : l = [tags |-> IF q.form.sent THEN Items!Names(q.form.tags) ELSE last[i].tags,
                       status |-> IF q.form.status = "" THEN last[i].status ELSE q.form.status,
                       base |-> IF q.new = Items!NoSlug THEN last[i].base ELSE q.base,
                       n |-> IF q.new = Items!NoSlug THEN last[i].n ELSE q.n]
      OBVIOUS
    <3>4. /\ slug' = [slug EXCEPT ![i] = x] /\ status' = [status EXCEPT ![i] = st]
          /\ tags' = IF q.form.sent THEN [tags EXCEPT ![i] = (@ \ q.saw) \union Items!Names(q.form.tags)] ELSE tags
          /\ used' = [used EXCEPT ![i] = @ \union {x}]
          /\ last' = [last EXCEPT ![i] =
                        [tags |-> IF q.form.sent THEN Items!Names(q.form.tags) ELSE @.tags,
                         status |-> IF q.form.status = "" THEN @.status ELSE q.form.status,
                         base |-> IF q.new = Items!NoSlug THEN @.base ELSE q.base,
                         n |-> IF q.new = Items!NoSlug THEN @.n ELSE q.n]]
          /\ raced' = IF q.form.sent /\ tags[i] # q.saw THEN raced \union {i} ELSE raced
          /\ Items!Others(r, Items!Idle) /\ UNCHANGED failed
      BY <1>1, <1>5, <2>4, <3>1 DEF Items!Save
    <3>5. tags = [j \in Items!Items |-> tags[j]] /\ last = [j \in Items!Items |-> last[j]]
      BY DEF ItemInv, ItemTyped
    <3>6. tags' = [tags EXCEPT ![i] = g]
      BY <1>3, <3>2, <3>4, <3>5
    <3>7. last' = [last EXCEPT ![i] = l]
      BY <1>3, <3>3, <3>4, <3>5
    <3>8. /\ l = [tags |-> l.tags, status |-> l.status, base |-> l.base, n |-> l.n]
          /\ l.tags = IF q.form.sent THEN Items!Names(q.form.tags) ELSE last[i].tags
          /\ l.base = IF q.new = Items!NoSlug THEN last[i].base ELSE q.base
          /\ l.n = IF q.new = Items!NoSlug THEN last[i].n ELSE q.n
          /\ l.status = IF q.form.status = "" THEN last[i].status ELSE q.form.status
      BY <3>3
    <3>9. l.status = st
      BY <1>1, <2>1, <3>1, <3>8 DEF Items!StatusOf
    <3>10. \A t \in Items!Names(q.form.tags) : ItemTag(t)
      BY <1>3, ItemNames
    <3>11. \A t \in g : ItemTag(t)
      BY <2>1, <3>2, <3>10 DEF ItemTags
    <3>12. Items!HeldBy(x) \subseteq {i}
      BY <1>1, <2>4 DEF Items!Fits
    <3>13. \A m \in 1..(l.n - 1) : \E j \in Items!Items \ {i} : Items!Candidate(l.base, m) \in used[j]
      <4>1. CASE q.new = Items!NoSlug
        <5>1. l.n = last[i].n /\ l.base = last[i].base
          BY <3>8, <4>1
        <5>2. PICK l0 : l0 = last[i]
          OBVIOUS
        <5>3. \A m \in 1..(l0.n - 1) : \E j \in Items!Items \ {i} : Items!Candidate(l0.base, m) \in used[j]
          BY <2>1, <5>2 DEF ItemSlug
        <5> QED BY <5>1, <5>2, <5>3
      <4>2. CASE q.new # Items!NoSlug
        BY <1>1, <1>3, <3>8, <4>2 DEF ItemKnows
      <4> QED BY <4>1, <4>2
    <3>14. raced \subseteq raced' /\ raced' \subseteq raced \union {i}
      BY <3>4
    <3>15. IF i \in raced' THEN l.tags \subseteq g ELSE g = l.tags
      <4>1. CASE q.form.sent
        <5>1. l.tags = Items!Names(q.form.tags) /\ g = (tags[i] \ q.saw) \union Items!Names(q.form.tags)
          BY <3>2, <3>8, <4>1
        <5>2. i \notin raced' => tags[i] = q.saw
          BY <3>4, <4>1
        <5> QED BY <5>1, <5>2
      <4>2. CASE ~q.form.sent
        <5>1. l.tags = last[i].tags /\ g = tags[i] /\ raced' = raced
          BY <3>2, <3>4, <3>8, <4>2
        <5> QED BY <2>1, <5>1 DEF ItemTags
      <4> QED BY <4>1, <4>2
    <3>16. /\ l = [tags |-> l.tags, status |-> l.status, base |-> l.base, n |-> l.n] /\ Items!Others(r, Items!Idle)
           /\ UNCHANGED <<failed, shown, begun>> /\ slug' = [slug EXCEPT ![i] = x]
           /\ used' = [used EXCEPT ![i] = @ \union {x}] /\ status' = [status EXCEPT ![i] = st]
      BY <1>2, <3>4, <3>8
    <3> QED BY <1>3, <2>2, <3>6, <3>7, <3>9, <3>11, <3>12, <3>13, <3>14, <3>15, <3>16, ItemStores
  <2> QED BY <2>3, <2>4
<1> QED BY <1>1, <1>4, <1>5 DEF Items!Save

LEMMA ItemReplaces ==
  ASSUME ItemLimits, ItemInv, NEW r \in Callers, Items!Replace(r)
  PROVE  ItemInv'
<1>1. PICK q : q = req[r]
  OBVIOUS
<1>2. PICK rec : rec = [q EXCEPT !.pc = "save", !.saw = tags[q.item]]
  OBVIOUS
<1>3. /\ q.pc = "tags" /\ q.todo = << >> /\ used[q.item] # {} /\ Items!Goto(r, rec)
      /\ UNCHANGED <<slug, status, tags, failed, used, last, raced, shown, begun>>
  BY <1>1, <1>2 DEF Items!Replace, Items!rows, Items!past
<1>4. ItemKnows(q)
  BY <1>1, <1>3 DEF ItemInv, Items!Idle
<1>5. /\ rec = [pc |-> rec.pc, item |-> rec.item, form |-> rec.form, base |-> rec.base, n |-> rec.n,
                new |-> rec.new, todo |-> rec.todo, saw |-> rec.saw, behind |-> rec.behind]
      /\ rec.pc = "save" /\ rec.item = q.item /\ rec.form = q.form /\ rec.base = q.base /\ rec.n = q.n
      /\ rec.new = q.new /\ rec.todo = q.todo /\ rec.behind = q.behind
  BY <1>2, <1>4 DEF ItemKnows
<1>6. ItemDone(rec)
  BY <1>4, <1>5 DEF ItemKnows, ItemDone, ItemUpTo
<1>7. ItemKnows(rec)
  BY <1>3, <1>4, <1>5, <1>6 DEF ItemKnows
<1>8. ItemKnows(rec)'
  BY <1>3, <1>7, ItemSame, ItemLimits DEF ItemLimits, ItemShown
<1>9. begun' \in Nat /\ shown' = [w \in ItemWords |-> shown'[w]] /\ \A w \in ItemWords : ItemShown(w) => ItemShown(w)'
  BY <1>3 DEF ItemInv, ItemTyped, ItemShown
<1> QED BY <1>3, <1>8, <1>9, ItemMoves

\* A request that arrives, with a record of its own or none.
LEMMA ItemArrives ==
  ASSUME ItemLimits, ItemInv, NEW r \in Callers, Items!Begins(r), NEW rec, Items!Goto(r, rec), rec = Items!Idle \/ ItemKnows(rec),
         UNCHANGED <<slug, status, tags, failed, used, last, raced, shown>>
  PROVE  ItemInv'
<1>1. begun' \in Nat
  BY DEF Items!Begins, ItemInv, ItemTyped
<1>2. rec = Items!Idle \/ ItemKnows(rec)'
  BY ItemSame, ItemLimits DEF ItemLimits, ItemShown
<1>3. shown' = [w \in ItemWords |-> shown'[w]] /\ \A w \in ItemWords : ItemShown(w) => ItemShown(w)'
  BY DEF ItemInv, ItemTyped, ItemShown
<1> QED BY <1>1, <1>2, <1>3, ItemMoves

LEMMA ItemStep == ASSUME ItemLimits PROVE ItemInv /\ [Items!Next]_(Items!vars) => ItemInv'
<1> SUFFICES ASSUME ItemInv, [Items!Next]_(Items!vars) PROVE ItemInv'
  OBVIOUS
<1>1. ASSUME NEW r \in Callers, NEW f \in ItemForms, Items!CreateBegins(r, f) PROVE ItemInv'
  <2>1. PICK rec : rec = IF f.slug # Items!NoSlug THEN Items!Fresh(begun + 1, f, f.slug)
                         ELSE IF rule.auto THEN Items!Fresh(begun + 1, f, Items!Title) ELSE Items!Idle
    OBVIOUS
  <2>2. Items!Begins(r) /\ Items!Goto(r, rec) /\ UNCHANGED <<slug, status, tags, failed, used, last, raced, shown>>
    BY <1>1, <2>1 DEF Items!CreateBegins, Items!rows, Items!past
  <2>3. begun \in Nat /\ begun < ItemRequests /\ ItemRequests \in Nat
    BY <2>2, ItemLimits DEF Items!Begins, ItemInv, ItemTyped, ItemLimits
  <2>4. begun + 1 \in Items!Items
    BY <2>3 DEF Items!Items
  <2>5. f.slug \in Seq(Nat) /\ Items!Title \in Seq(Nat)
    BY ItemLimits DEF ItemLimits, Items!Title
  <2>6. Items!Title # Items!NoSlug
    BY DEF Items!Title, Items!NoSlug
  <2>7. PICK z : z = begun + 1
    OBVIOUS
  <2>8. rec = Items!Idle \/ ItemKnows(rec)
    <3>1. CASE f.slug # Items!NoSlug
      BY <2>1, <2>4, <2>5, <2>7, <3>1, ItemFresh
    <3>2. CASE f.slug = Items!NoSlug /\ rule.auto
      BY <2>1, <2>4, <2>5, <2>6, <2>7, <3>2, ItemFresh
    <3>3. CASE f.slug = Items!NoSlug /\ ~rule.auto
      BY <2>1, <3>3
    <3> QED BY <3>1, <3>2, <3>3
  <2> QED BY <2>2, <2>8, ItemArrives
<1>2. ASSUME NEW r \in Callers, NEW f \in ItemForms, NEW i \in Items!Items, Items!UpdateBegins(r, i, f) PROVE ItemInv'
  <2>1. PICK base \in {f.slug} \union (IF f.slug = slug[i] THEN {Items!NoSlug} ELSE {}) : Items!Goto(r, Items!Fresh(i, f, base))
    BY <1>2 DEF Items!UpdateBegins
  <2>2. Items!Begins(r) /\ i \in Items!Live /\ UNCHANGED <<slug, status, tags, failed, used, last, raced, shown>>
    BY <1>2 DEF Items!UpdateBegins, Items!rows, Items!past
  <2>3. used[i] # {}
    BY <2>2 DEF Items!Live, ItemInv, ItemKept, ItemSlug
  <2>4. base \in Seq(Nat)
    <3>1. f.slug \in Seq(Nat) /\ Items!NoSlug \in Seq(Nat)
      BY ItemLimits DEF ItemLimits, Items!NoSlug
    <3> QED BY <2>1, <3>1
  <2>5. PICK rec : rec = Items!Fresh(i, f, base)
    OBVIOUS
  <2>6. ItemKnows(rec)
    BY <2>3, <2>4, <2>5, ItemFresh
  <2> QED BY <2>1, <2>2, <2>5, <2>6, ItemArrives
<1>3. ASSUME NEW r \in Callers, NEW i \in Items!Items, Items!Archive(r, i) PROVE ItemInv'
  <2>1. UNCHANGED <<slug, tags, shown, req, failed, used, raced>> /\ begun' \in Nat
    BY <1>3 DEF Items!Archive, Items!Begins, ItemInv, ItemTyped
  <2>2. /\ status' = [status EXCEPT ![i] = "ARCHIVED"] /\ last' = [last EXCEPT ![i].status = "ARCHIVED"]
        /\ i \in Items!Live
    BY <1>3 DEF Items!Archive
  <2>3. last = [j \in Items!Items |-> last[j]] /\ status = [j \in Items!Items |-> status[j]]
    BY DEF ItemInv, ItemTyped
  <2>4. \A j \in Items!Items : last[j] = [tags |-> last[j].tags, status |-> last[j].status, base |-> last[j].base, n |-> last[j].n]
    BY DEF ItemInv, ItemTyped
  <2>5. ASSUME NEW j \in Items!Items
        PROVE  /\ last'[j] = [tags |-> last'[j].tags, status |-> last'[j].status, base |-> last'[j].base, n |-> last'[j].n]
               /\ last'[j].tags = last[j].tags /\ last'[j].base = last[j].base /\ last'[j].n = last[j].n
               /\ last'[j].status = IF j = i THEN "ARCHIVED" ELSE last[j].status
    <3>1. PICK l, l1 : l = last[j] /\ l1 = last'[j]
      OBVIOUS
    <3>2. l1 = IF j = i THEN [l EXCEPT !.status = "ARCHIVED"] ELSE l
      BY <2>2, <2>3, <3>1
    <3>3. l = [tags |-> l.tags, status |-> l.status, base |-> l.base, n |-> l.n]
      BY <2>4, <3>1
    <3>4. /\ l1 = [tags |-> l1.tags, status |-> l1.status, base |-> l1.base, n |-> l1.n]
          /\ l1.tags = l.tags /\ l1.base = l.base /\ l1.n = l.n /\ l1.status = IF j = i THEN "ARCHIVED" ELSE l.status
      BY <3>2, <3>3
    <3> QED BY <3>1, <3>4
  <2>6. ItemTyped'
    BY <2>1, <2>2, <2>3, <2>5 DEF ItemInv, ItemTyped
  <2>7. ASSUME NEW j \in Items!Items PROVE (ItemSlug(j) /\ ItemTags(j) /\ status[j] = last[j].status)'
    <3>1. ItemSlug(j) /\ ItemTags(j) /\ status[j] = last[j].status
      BY DEF ItemInv, ItemKept
    <3>2. status'[j] = last'[j].status
      BY <2>2, <2>3, <2>5, <3>1
    <3>3. ItemSlug(j)'
      BY <2>1, <2>5, <3>1 DEF ItemSlug, Items!HeldBy
    <3>4. \A t : ItemTag(t) => ItemTag(t)'
      BY <2>1 DEF ItemTag, ItemShown
    <3>5. ItemTags(j)'
      BY <2>1, <2>5, <3>1, <3>4 DEF ItemTags
    <3> QED BY <3>2, <3>3, <3>5
  <2>8. ItemKept'
    BY <2>1, <2>7 DEF ItemInv, ItemKept
  <2>9. ASSUME NEW p \in Callers PROVE req'[p] = Items!Idle \/ ItemKnows(req[p])'
    <3>1. PICK q : q = req[p] /\ q = req'[p]
      BY <2>1
    <3>2. q = Items!Idle \/ ItemKnows(q)'
      BY <2>1, <3>1, ItemSame, ItemLimits DEF ItemInv, ItemLimits, ItemShown
    <3>3. ItemKnows(q)' => ItemKnows(req[p])'
      BY <3>1 DEF ItemKnows, ItemDone, ItemUpTo
    <3> QED BY <3>1, <3>2, <3>3
  <2> QED BY <2>1, <2>6, <2>8, <2>9 DEF ItemInv
<1>4. ASSUME NEW r \in Callers, NEW i \in Items!Items, Items!Remove(r, i) PROVE ItemInv'
  <2>1. /\ UNCHANGED <<status, shown, failed, used, last, raced>> /\ begun' \in Nat /\ req[r].pc = "idle"
        /\ slug' = [slug EXCEPT ![i] = Items!NoSlug] /\ tags' = [tags EXCEPT ![i] = {}] /\ Items!Others(r, req[r])
    BY <1>4 DEF Items!Remove, Items!Begins, Items!past, ItemInv, ItemTyped
  <2>2. req[r] = Items!Idle
    <3>1. PICK q : q = req[r]
      OBVIOUS
    <3>2. q = Items!Idle \/ q.pc # "idle"
      BY <3>1 DEF ItemInv, ItemKnows
    <3> QED BY <2>1, <3>1, <3>2
  <2>3. slug = [j \in Items!Items |-> slug[j]] /\ tags = [j \in Items!Items |-> tags[j]]
    BY DEF ItemInv, ItemTyped
  <2>4. ItemTyped'
    BY <2>1, <2>3 DEF ItemInv, ItemTyped
  <2>5. ASSUME NEW j \in Items!Items PROVE (ItemSlug(j) /\ ItemTags(j) /\ status[j] = last[j].status)'
    <3>1. ItemSlug(j) /\ ItemTags(j) /\ status[j] = last[j].status
      BY DEF ItemInv, ItemKept
    <3>2. CASE j = i
      <4>1. slug'[j] = Items!NoSlug /\ tags'[j] = {}
        BY <2>1, <2>3, <3>2
      <4> QED BY <2>1, <3>1, <4>1 DEF ItemSlug, ItemTags
    <3>3. CASE j # i
      <4>1. slug'[j] = slug[j] /\ tags'[j] = tags[j]
        BY <2>1, <2>3, <3>3
      <4>2. slug[j] # Items!NoSlug => Items!HeldBy(slug[j])' \subseteq Items!HeldBy(slug[j])
        BY <2>1, <2>3, <4>1 DEF Items!HeldBy
      <4>3. ItemSlug(j)'
        BY <2>1, <3>1, <4>1, <4>2 DEF ItemSlug, Items!HeldBy
      <4>4. \A t : ItemTag(t) => ItemTag(t)'
        BY <2>1 DEF ItemTag, ItemShown
      <4>5. ItemTags(j)'
        BY <2>1, <3>1, <4>1, <4>4 DEF ItemTags
      <4> QED BY <2>1, <3>1, <4>3, <4>5
    <3> QED BY <3>2, <3>3
  <2>6. ItemKept'
    BY <2>1, <2>5 DEF ItemInv, ItemKept
  <2>7. PICK rec : rec = req[r]
    OBVIOUS
  <2> QED BY <2>1, <2>2, <2>4, <2>6, <2>7, ItemCommits
<1>5. CASE UNCHANGED Items!vars
  <2>1. UNCHANGED <<slug, status, tags, failed, used, last, raced, shown, begun, req>>
    BY <1>5 DEF Items!vars
  <2>2. ItemTyped'
    BY <2>1 DEF ItemInv, ItemTyped
  <2>3. ASSUME NEW j \in Items!Items PROVE (ItemSlug(j) /\ ItemTags(j) /\ status[j] = last[j].status)'
    <3>1. ItemSlug(j) /\ ItemTags(j) /\ status[j] = last[j].status
      BY DEF ItemInv, ItemKept
    <3> QED BY <2>1, <3>1 DEF ItemSlug, Items!HeldBy, ItemTags, ItemTag, ItemShown
  <2>4. ItemKept'
    BY <2>1, <2>3 DEF ItemInv, ItemKept
  <2>5. ASSUME NEW p \in Callers PROVE req'[p] = Items!Idle \/ ItemKnows(req[p])'
    <3>1. PICK q : q = req[p] /\ q = req'[p]
      BY <2>1
    <3>2. q = Items!Idle \/ ItemKnows(q)'
      BY <2>1, <3>1, ItemSame, ItemLimits DEF ItemInv, ItemLimits, ItemShown
    <3>3. ItemKnows(q)' => ItemKnows(req[p])'
      BY <3>1 DEF ItemKnows, ItemDone, ItemUpTo
    <3> QED BY <3>1, <3>2, <3>3
  <2> QED BY <2>1, <2>2, <2>4, <2>5 DEF ItemInv
<1> QED
  BY <1>1, <1>2, <1>3, <1>4, <1>5, ItemTries, ItemUpserts, ItemCreates, ItemReplaces, ItemSaves DEF Items!Next

LEMMA ItemSound == ItemInv => Items!PortfolioItemsSound
<1> SUFFICES ASSUME ItemInv PROVE Items!PortfolioItemsSound
  OBVIOUS
<1>1. \A i \in Items!Live : i \in Items!Items /\ slug[i] # Items!NoSlug /\ ItemSlug(i) /\ ItemTags(i) /\ status[i] = last[i].status
  BY DEF Items!Live, ItemInv, ItemKept
<1>2. Items!SlugsAreNeeded
  BY <1>1 DEF Items!SlugsAreNeeded, ItemSlug, Items!HeldBy
<1>3. Items!FailuresAreRaces
  BY DEF Items!FailuresAreRaces, ItemInv, ItemKept
<1>4. Items!TagsAreTheForm
  <2>1. ASSUME NEW i \in Items!Live, NEW t \in tags[i] PROVE i \in Items!Listed(shown[t.word])
    <3>1. t = [word |-> t.word, caps |-> FALSE, blank |-> FALSE] /\ ItemShown(t.word)
      BY <1>1 DEF ItemTags, ItemTag
    <3>2. PICK u, u1 : u = shown[t.word] /\ u1 = [u EXCEPT !.caps = FALSE]
      OBVIOUS
    <3>3. u = [word |-> t.word, caps |-> u.caps, blank |-> FALSE]
      BY <3>1, <3>2 DEF ItemShown
    <3>4. u = [word |-> u.word, caps |-> u.caps, blank |-> u.blank] /\ u.word = t.word /\ u.blank = FALSE
      BY <3>3
    <3>5. u1 = [word |-> u1.word, caps |-> u1.caps, blank |-> u1.blank] /\ u1.word = t.word /\ u1.caps = FALSE /\ u1.blank = FALSE
      BY <3>2, <3>4
    <3>6. u1 = t
      BY <3>1, <3>5
    <3>7. Items!Lower(shown[t.word]) = t
      BY <3>2, <3>6 DEF Items!Lower
    <3> QED BY <1>1, <3>7 DEF Items!Listed
  <2>2. ASSUME NEW i \in Items!Live, NEW t \in tags[i], NEW u \in tags[i], t.word = u.word PROVE t = u
    <3>1. /\ t = [word |-> t.word, caps |-> FALSE, blank |-> FALSE]
          /\ u = [word |-> u.word, caps |-> FALSE, blank |-> FALSE]
      BY <1>1 DEF ItemTags, ItemTag
    <3> QED BY <2>2, <3>1
  <2>3. \A i \in Items!Live : IF i \in raced THEN last[i].tags \subseteq tags[i] ELSE tags[i] = last[i].tags
    BY <1>1 DEF ItemTags
  <2> QED BY <2>1, <2>2, <2>3 DEF Items!TagsAreTheForm
<1>5. Items!StatusIsAsked
  BY <1>1 DEF Items!StatusIsAsked
<1> QED BY <1>2, <1>3, <1>4, <1>5 DEF Items!PortfolioItemsSound

-----------------------------------------------------------------------------
(* Prompts.                                                                *)

Evaluation == INSTANCE Evaluation WITH
    Requests <- Callers, Evaluators <- PromptReaders, MaxRows <- EvalRows,
    MaxRequests <- PromptRequests, MaxReads <- PromptReads,
    MaxFaults <- PromptFaults

\* The table starts with two rows.
PromptLimits == EvalRows \in Nat /\ EvalRows >= 2

\* A row is a prompt, is still to be made, or is deleted.
PromptRows == [type : Evaluation!Types, active : {"yes", "no"}] \union {Evaluation!Absent, Evaluation!Spent}
\* Rows are numbered without a gap, k of them so far.
PromptFilled(k) == k \in 0..EvalRows /\ \A id \in Evaluation!Rows : prompt[id] = Evaluation!Absent <=> id > k

PromptTyped ==
    /\ prompt \in [Evaluation!Rows -> PromptRows]
    /\ \E k \in 0..EvalRows : PromptFilled(k)
    /\ cache = [t \in Evaluation!Types |-> cache[t]]
    /\ \A t \in Evaluation!Types : cache[t] = [value |-> cache[t].value, from |-> cache[t].from]
    /\ req = [r \in Callers |-> req[r]] /\ eval = [e \in PromptReaders |-> eval[e]]

\* An operator's call at work: its rows were there, and unless a commit overtook it, its
\* row and the rows in force are as it has read them.
PromptCall(q) ==
    /\ q = [pc |-> q.pc, id |-> q.id, type |-> q.type, seen |-> q.seen, active |-> q.active, stale |-> q.stale]
    /\ q.pc \in {"update", "activate", "delete"} /\ q.id \in Evaluation!Rows /\ q.type \in Evaluation!Types /\ q.seen \subseteq Evaluation!Rows
    /\ q.stale \in BOOLEAN
    /\ q.pc = "delete" => q.active = "no"
    /\ \A id \in q.seen \union {q.id} : prompt[id] # Evaluation!Absent /\ prompt[id].type \in {q.type, "none"}
    /\ q.stale = FALSE =>
          /\ prompt[q.id] = [type |-> q.type, active |-> q.active]
          /\ q.pc # "delete" => q.seen = Evaluation!ActiveRows(q.type)
PromptAsked(q) == q = Evaluation!Idle \/ q = Evaluation!Clear \/ PromptCall(q)

\* A read of the table that no commit overtook has the prompt in force.
PromptRead(q) ==
    /\ q.pc = "query" => q.stage \in Evaluation!Types
    /\ q.pc = "call" => q.stage \in Evaluation!Types
    /\ q.pc = "store" =>
          /\ q = [pc |-> q.pc, type |-> q.type, value |-> q.value, stale |-> q.stale]
          /\ q.type \in Evaluation!Types
          /\ q.stale = FALSE => q.value = Evaluation!InForce(q.type)

\* One row is in force for a type whose changes never crossed.
PromptOne == \A t \in Evaluation!Types \ crossed : \E id \in Evaluation!Rows : Evaluation!ActiveRows(t) = {id}
\* What was cached from the table is in force, or a change has yet to clear it.
PromptCached ==
    \A t \in Evaluation!Types : cache[t].from = "table" =>
        cache[t].value = Evaluation!InForce(t) \/ \E r \in Callers : req[r].pc = "clear"

PromptInv ==
    /\ PromptTyped /\ PromptOne /\ PromptCached
    /\ \A r \in Callers : PromptAsked(req[r])
    /\ \A e \in PromptReaders : PromptRead(eval[e])

LEMMA PromptRests == /\ Evaluation!Idle.pc = "idle" /\ Evaluation!Clear.pc = "clear" /\ PromptAsked(Evaluation!Idle) /\ PromptAsked(Evaluation!Clear)
                     /\ Evaluation!Rest.pc = "rest" /\ PromptRead(Evaluation!Rest)
  BY DEF Evaluation!Idle, Evaluation!Clear, Evaluation!Rest, PromptAsked, PromptRead

LEMMA PromptInit == ASSUME PromptLimits PROVE Evaluation!Init => PromptInv
<1> SUFFICES ASSUME Evaluation!Init PROVE PromptInv
  OBVIOUS
<1>0. /\ req = [r \in Callers |-> Evaluation!Idle] /\ eval = [e \in PromptReaders |-> Evaluation!Rest] /\ crossed = {}
      /\ cache = [t \in Evaluation!Types |-> Evaluation!NotCached]
  BY DEF Evaluation!Init
<1>1. /\ prompt = [id \in Evaluation!Rows |-> IF id = 1 THEN [type |-> "gate", active |-> "yes"]
                                   ELSE IF id = 2 THEN [type |-> "eval", active |-> "yes"] ELSE Evaluation!Absent]
  <2>1. \A id \in Evaluation!Rows : (CASE id = 1 -> [type |-> "gate", active |-> "yes"]
                            [] id = 2 -> [type |-> "eval", active |-> "yes"]
                            [] OTHER  -> Evaluation!Absent)
                       = (IF id = 1 THEN [type |-> "gate", active |-> "yes"]
                          ELSE IF id = 2 THEN [type |-> "eval", active |-> "yes"] ELSE Evaluation!Absent)
    OBVIOUS
  <2> QED BY <2>1 DEF Evaluation!Init
<1>2. 1 \in Evaluation!Rows /\ 2 \in Evaluation!Rows /\ 2 \in 0..EvalRows
  BY PromptLimits DEF PromptLimits, Evaluation!Rows
<1>3. prompt[1] = [type |-> "gate", active |-> "yes"] /\ prompt[2] = [type |-> "eval", active |-> "yes"]
      /\ \A id \in Evaluation!Rows : id # 1 /\ id # 2 => prompt[id] = Evaluation!Absent
  BY <1>1, <1>2
<1>4. prompt[1] # Evaluation!Absent /\ prompt[2] # Evaluation!Absent /\ prompt[1] \in PromptRows /\ prompt[2] \in PromptRows
  BY <1>3 DEF Evaluation!Absent, PromptRows, Evaluation!Types
<1>5. \A id \in Evaluation!Rows : id > 2 <=> (id # 1 /\ id # 2)
  BY DEF Evaluation!Rows
<1>6. PromptFilled(2)
  BY <1>2, <1>3, <1>4, <1>5 DEF PromptFilled
<1>7. prompt \in [Evaluation!Rows -> PromptRows]
  BY <1>1, <1>3, <1>4 DEF PromptRows
<1>8. PromptTyped
  BY <1>0, <1>2, <1>6, <1>7 DEF PromptTyped, Evaluation!NotCached
<1>9. Evaluation!ActiveRows("gate") = {1} /\ Evaluation!ActiveRows("eval") = {2}
  BY <1>2, <1>3 DEF Evaluation!ActiveRows, Evaluation!Absent
<1>10. PromptOne
  BY <1>2, <1>9 DEF PromptOne, Evaluation!Types
<1>11. PromptCached
  BY <1>0 DEF PromptCached, Evaluation!NotCached
<1> QED BY <1>0, <1>8, <1>10, <1>11, PromptRests DEF PromptInv

\* The new row is the one after the last.
LEMMA PromptNew ==
  ASSUME PromptLimits, PromptInv, Evaluation!HasRoom
  PROVE  \E k \in 0..EvalRows : /\ PromptFilled(k) /\ Evaluation!NewRow = k + 1 /\ k + 1 \in Evaluation!Rows /\ k + 1 \in 0..EvalRows
                                /\ prompt[Evaluation!NewRow] = Evaluation!Absent
<1>1. PICK k \in 0..EvalRows : PromptFilled(k)
  BY DEF PromptInv, PromptTyped
<1>2. PICK free \in Evaluation!Rows : prompt[free] = Evaluation!Absent
  BY DEF Evaluation!HasRoom
<1>3. free > k
  BY <1>1, <1>2 DEF PromptFilled
<1>4. k + 1 \in Evaluation!Rows /\ k + 1 \in 0..EvalRows /\ k + 1 > k /\ k \in Nat
  BY <1>2, <1>3, PromptLimits DEF PromptLimits, Evaluation!Rows
<1>5. prompt[k + 1] = Evaluation!Absent
  BY <1>1, <1>4 DEF PromptFilled
<1>6. \A id \in Evaluation!Rows : id < k + 1 => ~(id > k)
  BY <1>4 DEF Evaluation!Rows
<1>7. \A id \in Evaluation!Rows : id < k + 1 => prompt[id] # Evaluation!Absent
  BY <1>1, <1>6 DEF PromptFilled
<1>8. \A id \in Evaluation!Rows : (prompt[id] = Evaluation!Absent /\ \A other \in Evaluation!Rows : other < id => prompt[other] # Evaluation!Absent) => id = k + 1
  <2> SUFFICES ASSUME NEW id \in Evaluation!Rows, prompt[id] = Evaluation!Absent, \A other \in Evaluation!Rows : other < id => prompt[other] # Evaluation!Absent
               PROVE  id = k + 1
    OBVIOUS
  <2>1. id > k
    BY <1>1 DEF PromptFilled
  <2>2. ~(k + 1 < id)
    BY <1>4, <1>5
  <2> QED BY <1>4, <2>1, <2>2 DEF Evaluation!Rows
<1> DEFINE new == k + 1
<1>9. new \in Evaluation!Rows /\ prompt[new] = Evaluation!Absent /\ \A other \in Evaluation!Rows : other < new => prompt[other] # Evaluation!Absent
  BY <1>4, <1>5, <1>7
<1>10. \A id \in Evaluation!Rows : (prompt[id] = Evaluation!Absent /\ \A other \in Evaluation!Rows : other < id => prompt[other] # Evaluation!Absent) => id = new
  BY <1>8
<1> HIDE DEF new
<1>11. Evaluation!NewRow = new
  BY <1>9, <1>10 DEF Evaluation!NewRow
<1>12. Evaluation!NewRow = k + 1 /\ prompt[Evaluation!NewRow] = Evaluation!Absent
  BY <1>11, <1>5 DEF new
<1> QED BY <1>1, <1>4, <1>12

\* A row that is added, whatever becomes of the rows that were there.
LEMMA PromptAdds ==
  ASSUME PromptLimits, PromptInv, Evaluation!HasRoom, prompt' \in [Evaluation!Rows -> PromptRows], prompt'[Evaluation!NewRow] # Evaluation!Absent,
         \A id \in Evaluation!Rows \ {Evaluation!NewRow} : prompt'[id] = Evaluation!Absent <=> prompt[id] = Evaluation!Absent
  PROVE  \E k \in 0..EvalRows : PromptFilled(k)'
<1>1. PICK k \in 0..EvalRows : /\ PromptFilled(k) /\ Evaluation!NewRow = k + 1 /\ k + 1 \in Evaluation!Rows /\ k + 1 \in 0..EvalRows
  BY PromptNew
<1>2. \A id \in Evaluation!Rows : (id > k + 1 <=> (id > k /\ id # k + 1))
  BY <1>1, PromptLimits DEF Evaluation!Rows, PromptLimits
<1>3. \A id \in Evaluation!Rows : prompt'[id] = Evaluation!Absent <=> id > k + 1
  BY <1>1, <1>2 DEF PromptFilled
<1>4. PromptFilled(k + 1)'
  BY <1>1, <1>3 DEF PromptFilled
<1> QED BY <1>1, <1>4

\* A step that keeps the rows that are there and those in force.
LEMMA PromptQuiet ==
  ASSUME PromptInv, PromptTyped', crossed' = crossed,
         \A t \in Evaluation!Types : Evaluation!ActiveRows(t)' = Evaluation!ActiveRows(t),
         \A id \in Evaluation!Rows : prompt[id] # Evaluation!Absent => prompt'[id] = prompt[id],
         NEW q
  PROVE  /\ PromptOne' /\ (PromptAsked(q) => PromptAsked(q)') /\ (PromptRead(q) => PromptRead(q)')
         /\ \A t \in Evaluation!Types : Evaluation!InForce(t)' = Evaluation!InForce(t)
<1>1. ASSUME NEW t \in Evaluation!Types PROVE Evaluation!InForce(t)' = Evaluation!InForce(t)
  <2>1. PICK active : active = Evaluation!ActiveRows(t)
    OBVIOUS
  <2>2. Evaluation!InForce(t) = IF active = {} THEN Evaluation!Fallback ELSE CHOOSE id \in active : \A other \in active : other <= id
    BY <2>1 DEF Evaluation!InForce
  <2>3. active = Evaluation!ActiveRows(t)'
    BY <2>1
  <2>4. Evaluation!InForce(t)' = IF active = {} THEN Evaluation!Fallback ELSE CHOOSE id \in active : \A other \in active : other <= id
    BY <2>3 DEF Evaluation!InForce, Evaluation!Fallback
  <2> QED BY <2>2, <2>4
<1>2. PromptOne'
  BY DEF PromptInv, PromptOne
<1>3. ASSUME PromptAsked(q) PROVE PromptAsked(q)'
  <2>1. CASE q = Evaluation!Idle \/ q = Evaluation!Clear
    BY <2>1 DEF PromptAsked, Evaluation!Idle, Evaluation!Clear
  <2>2. CASE PromptCall(q)
    BY <2>2 DEF PromptAsked, PromptCall
  <2> QED BY <1>3, <2>1, <2>2 DEF PromptAsked
<1>4. ASSUME PromptRead(q) PROVE PromptRead(q)'
  BY <1>1, <1>4 DEF PromptRead
<1> QED BY <1>1, <1>2, <1>3, <1>4

\* A commit on a type.
LEMMA PromptCommit ==
  ASSUME PromptInv, NEW r \in Callers, PromptCall(req[r]), Evaluation!Commit(r, Evaluation!Clear), NEW u, u = req[r].type,
         prompt' \in [Evaluation!Rows -> PromptRows], \E k \in 0..EvalRows : PromptFilled(k)',
         \A id \in Evaluation!Rows : prompt[id] # Evaluation!Absent =>
             /\ prompt'[id] # Evaluation!Absent /\ prompt'[id].type \in {prompt[id].type, "none"}
             /\ prompt[id].type # u => prompt'[id] = prompt[id],
         \A t \in Evaluation!Types \ {u} : Evaluation!ActiveRows(t)' = Evaluation!ActiveRows(t),
         req[r].stale = FALSE /\ u \notin crossed => \E id \in Evaluation!Rows : Evaluation!ActiveRows(u)' = {id},
         req[r].stale \in BOOLEAN
  PROVE  PromptInv'
<1>1. u = req[r].type
  OBVIOUS
<1>2. u \in Evaluation!Types
  BY DEF PromptCall
<1> DEFINE Behind(q) == IF "type" \in DOMAIN q /\ q.type = u THEN [q EXCEPT !.stale = TRUE] ELSE q
<1>3. /\ crossed' = crossed \union (IF req[r].stale THEN {u} ELSE {})
      /\ eval' = [e \in PromptReaders |-> IF eval[e].pc = "store" THEN Behind(eval[e]) ELSE eval[e]]
      /\ \/ /\ req' = [q \in Callers |-> IF q = r THEN Evaluation!Clear ELSE Behind(req[q])]
            /\ cache' = cache
         \/ /\ req' = [q \in Callers |-> IF q = r THEN Evaluation!Idle ELSE Behind(req[q])]
            /\ cache' = [cache EXCEPT ![u] = IF cache[u] = Evaluation!NotCached THEN cache[u] ELSE [cache[u] EXCEPT !.from = "lost"]]
  BY <1>1 DEF Evaluation!Commit
<1>4. ASSUME NEW t \in Evaluation!Types \ {u} PROVE Evaluation!InForce(t)' = Evaluation!InForce(t)
  <2>1. PICK active : active = Evaluation!ActiveRows(t)
    OBVIOUS
  <2>2. Evaluation!InForce(t) = IF active = {} THEN Evaluation!Fallback ELSE CHOOSE id \in active : \A other \in active : other <= id
    BY <2>1 DEF Evaluation!InForce
  <2>3. active = Evaluation!ActiveRows(t)'
    BY <2>1
  <2>4. Evaluation!InForce(t)' = IF active = {} THEN Evaluation!Fallback ELSE CHOOSE id \in active : \A other \in active : other <= id
    BY <2>3 DEF Evaluation!InForce, Evaluation!Fallback
  <2> QED BY <2>2, <2>4
\* Reads and calls on the type are behind it, the others are not disturbed.
<1>5. ASSUME NEW e \in PromptReaders PROVE PromptRead(eval[e])'
  <2>1. PICK q : q = eval[e]
    OBVIOUS
  <2>2. PromptRead(q)
    BY <2>1 DEF PromptInv
  <2>3. CASE q.pc = "store" /\ q.type = u
    <3>1. PICK q1 : q1 = [q EXCEPT !.stale = TRUE]
      OBVIOUS
    <3>2. q = [pc |-> q.pc, type |-> q.type, value |-> q.value, stale |-> q.stale]
      BY <2>2, <2>3 DEF PromptRead
    <3>3. q1 = [pc |-> "store", type |-> u, value |-> q.value, stale |-> TRUE]
      BY <2>3, <3>1, <3>2
    <3>4. eval'[e] = q1
      BY <1>3, <2>1, <2>3, <3>1, <3>2
    <3>5. PromptRead(q1)'
      BY <1>2, <3>3 DEF PromptRead
    <3> QED BY <3>4, <3>5 DEF PromptRead
  <2>4. CASE q.pc = "store" /\ q.type # u
    <3>1. eval'[e] = q
      BY <1>3, <2>1, <2>4
    <3>2. PromptRead(q)'
      BY <1>4, <2>2, <2>4 DEF PromptRead
    <3> QED BY <3>1, <3>2 DEF PromptRead
  <2>5. CASE q.pc # "store"
    <3>1. eval'[e] = q
      BY <1>3, <2>1, <2>5
    <3> QED BY <2>2, <2>5, <3>1 DEF PromptRead
  <2> QED BY <2>3, <2>4, <2>5
<1>6. ASSUME NEW p \in Callers, p # r
      PROVE  /\ PromptAsked(req[p])'
             /\ req[p].pc = "clear" => req'[p].pc = "clear"
  <2>1. PICK q : q = req[p]
    OBVIOUS
  <2>2. PromptAsked(q) /\ req'[p] = Behind(q)
    BY <1>3, <1>6, <2>1 DEF PromptInv
  <2>3. CASE q = Evaluation!Idle \/ q = Evaluation!Clear
    <3>1. "type" \notin DOMAIN q
      BY <2>3 DEF Evaluation!Idle, Evaluation!Clear
    <3>2. req'[p] = q
      BY <2>2, <3>1
    <3> QED BY <2>1, <2>3, <3>2 DEF PromptAsked, Evaluation!Idle, Evaluation!Clear
  <2>4. CASE PromptCall(q) /\ q.type = u
    <3>1. PICK q1 : q1 = [q EXCEPT !.stale = TRUE]
      OBVIOUS
    <3>2. q = [pc |-> q.pc, id |-> q.id, type |-> q.type, seen |-> q.seen, active |-> q.active, stale |-> q.stale]
      BY <2>4 DEF PromptCall
    <3>3. q1 = [pc |-> q.pc, id |-> q.id, type |-> q.type, seen |-> q.seen, active |-> q.active, stale |-> TRUE]
      BY <3>1, <3>2
    <3>4. "type" \in DOMAIN q
      BY <3>2
    <3>5. req'[p] = q1
      BY <2>2, <2>4, <3>1, <3>4
    <3>6. /\ q1 = [pc |-> q1.pc, id |-> q1.id, type |-> q1.type, seen |-> q1.seen, active |-> q1.active, stale |-> q1.stale]
          /\ q1.pc = q.pc /\ q1.id = q.id /\ q1.type = q.type /\ q1.seen = q.seen /\ q1.active = q.active /\ q1.stale = TRUE
      BY <3>3
    <3>7. \A id \in q.seen \union {q.id} : prompt'[id] # Evaluation!Absent /\ prompt'[id].type \in {q.type, "none"}
      BY <2>4 DEF PromptCall
    <3>8. PromptCall(q1)'
      BY <2>4, <3>6, <3>7 DEF PromptCall
    <3>9. PromptAsked(q1)' /\ q.pc # "clear"
      BY <2>4, <3>8 DEF PromptAsked, PromptCall
    <3> QED BY <2>1, <3>5, <3>9 DEF PromptAsked, PromptCall
  <2>5. CASE PromptCall(q) /\ q.type # u
    <3>1. req'[p] = q
      BY <2>2, <2>5
    <3>2. \A id \in q.seen \union {q.id} : prompt'[id] # Evaluation!Absent /\ prompt'[id].type \in {q.type, "none"}
      BY <2>5 DEF PromptCall
    <3>3. q.stale = FALSE => prompt'[q.id] = prompt[q.id] /\ Evaluation!ActiveRows(q.type)' = Evaluation!ActiveRows(q.type)
      BY <1>1, <2>5 DEF PromptCall
    <3>4. PromptCall(q)'
      BY <2>5, <3>2, <3>3 DEF PromptCall
    <3> QED BY <2>1, <2>5, <3>1, <3>4 DEF PromptAsked, PromptCall
  <2> QED BY <2>2, <2>3, <2>4, <2>5 DEF PromptAsked
<1>7. PromptAsked(req[r])' /\ \A p \in Callers : PromptAsked(req[p])'
  <2>1. req'[r] = Evaluation!Idle \/ req'[r] = Evaluation!Clear
    BY <1>3
  <2>2. PromptAsked(req[r])'
    BY <2>1 DEF PromptAsked, Evaluation!Idle, Evaluation!Clear
  <2> QED BY <1>6, <2>2
<1>8. PromptOne'
  <2>1. u \notin crossed' => req[r].stale = FALSE /\ u \notin crossed
    BY <1>3
  <2>2. u \notin crossed' => \E id \in Evaluation!Rows : Evaluation!ActiveRows(u)' = {id}
    BY <1>1, <2>1
  <2>3. \A t \in Evaluation!Types \ {u} : t \notin crossed' => t \notin crossed
    BY <1>3
  <2>4. \A t \in Evaluation!Types \ {u} : t \notin crossed' => \E id \in Evaluation!Rows : Evaluation!ActiveRows(t)' = {id}
    BY <1>1, <2>3 DEF PromptInv, PromptOne
  <2> QED BY <2>2, <2>4 DEF PromptOne
<1>9. PromptCached' /\ (cache = [t \in Evaluation!Types |-> cache[t]])' /\ (\A t \in Evaluation!Types : cache[t] = [value |-> cache[t].value, from |-> cache[t].from])'
  <2>1. CASE req' = [q \in Callers |-> IF q = r THEN Evaluation!Clear ELSE Behind(req[q])] /\ cache' = cache
    <3>1. req'[r].pc = "clear"
      BY <2>1, PromptRests
    <3> QED BY <2>1, <3>1 DEF PromptInv, PromptTyped, PromptCached
  <2>2. CASE cache' = [cache EXCEPT ![u] = IF cache[u] = Evaluation!NotCached THEN cache[u] ELSE [cache[u] EXCEPT !.from = "lost"]]
    <3>1. \A t \in Evaluation!Types \ {u} : cache'[t] = cache[t]
      BY <2>2 DEF PromptInv, PromptTyped
    <3>2. PICK c : c = cache[u]
      OBVIOUS
    <3>3. c = [value |-> c.value, from |-> c.from]
      BY <1>2, <3>2 DEF PromptInv, PromptTyped
    <3>4. PICK c1 : c1 = (IF c = Evaluation!NotCached THEN c ELSE [c EXCEPT !.from = "lost"])
      OBVIOUS
    <3>5. c1.from # "table" /\ c1 = [value |-> c1.value, from |-> c1.from]
      BY <3>3, <3>4 DEF Evaluation!NotCached
    <3>6. cache'[u] = c1 /\ cache' = [t \in Evaluation!Types |-> cache'[t]]
      BY <1>2, <2>2, <3>2, <3>4 DEF PromptInv, PromptTyped
    <3>7. req[r].pc # "clear"
      BY DEF PromptCall
    <3>8. \A p \in Callers : req[p].pc = "clear" => p # r /\ req'[p].pc = "clear"
      BY <1>6, <3>7
    <3>9. PromptCached'
      BY <1>4, <3>1, <3>5, <3>6, <3>8 DEF PromptInv, PromptCached
    <3> QED BY <3>1, <3>5, <3>6, <3>9 DEF PromptInv, PromptTyped
  <2> QED BY <1>3, <2>1, <2>2
<1>10. (req = [q \in Callers |-> req[q]])' /\ (eval = [e \in PromptReaders |-> eval[e]])'
  BY <1>3
<1>11. PromptTyped'
  BY <1>9, <1>10 DEF PromptTyped
<1> QED BY <1>5, <1>7, <1>8, <1>9, <1>11 DEF PromptInv

\* A step that keeps the table and the history.
LEMMA PromptSame ==
  ASSUME UNCHANGED <<prompt, crossed>>, NEW q
  PROVE  /\ PromptOne => PromptOne'
         /\ PromptAsked(q) => PromptAsked(q)'
         /\ PromptRead(q) => PromptRead(q)'
         /\ \A t \in Evaluation!Types : Evaluation!InForce(t)' = Evaluation!InForce(t)
<1>1. ASSUME NEW t \in Evaluation!Types PROVE Evaluation!InForce(t)' = Evaluation!InForce(t) /\ Evaluation!ActiveRows(t)' = Evaluation!ActiveRows(t)
  <2>1. PICK active : active = Evaluation!ActiveRows(t)
    OBVIOUS
  <2>2. active = Evaluation!ActiveRows(t)'
    BY <2>1 DEF Evaluation!ActiveRows
  <2>3. Evaluation!InForce(t) = IF active = {} THEN Evaluation!Fallback ELSE CHOOSE id \in active : \A other \in active : other <= id
    BY <2>1 DEF Evaluation!InForce
  <2>4. Evaluation!InForce(t)' = IF active = {} THEN Evaluation!Fallback ELSE CHOOSE id \in active : \A other \in active : other <= id
    BY <2>2 DEF Evaluation!InForce, Evaluation!Fallback
  <2> QED BY <2>1, <2>2, <2>3, <2>4
<1>2. PromptAsked(q) => PromptAsked(q)'
  BY <1>1 DEF PromptAsked, PromptCall, Evaluation!Idle, Evaluation!Clear
<1>3. PromptRead(q) => PromptRead(q)'
  BY <1>1 DEF PromptRead
<1>4. PromptOne => PromptOne'
  BY <1>1 DEF PromptOne
<1> QED BY <1>1, <1>2, <1>3, <1>4

\* An operator's call goes on, and nothing else changes.
LEMMA PromptMoves ==
  ASSUME PromptInv, UNCHANGED <<prompt, cache, eval, crossed>>, NEW r \in Callers, NEW rec, PromptAsked(rec),
         req[r].pc # "clear", req' = [req EXCEPT ![r] = rec]
  PROVE  PromptInv'
<1>1. req' = [p \in Callers |-> req'[p]] /\ req'[r] = rec /\ \A p \in Callers \ {r} : req'[p] = req[p]
  BY DEF PromptInv, PromptTyped
<1>2. PromptTyped'
  BY <1>1 DEF PromptInv, PromptTyped, PromptFilled
<1>3. PromptOne' /\ \A t \in Evaluation!Types : Evaluation!InForce(t)' = Evaluation!InForce(t)
  BY PromptSame DEF PromptInv
<1>4. PromptCached'
  BY <1>1, <1>3 DEF PromptInv, PromptCached
<1>5. ASSUME NEW p \in Callers PROVE PromptAsked(req[p])'
  <2>1. PICK q : q = req'[p]
    OBVIOUS
  <2>2. PromptAsked(q)
    BY <1>1, <2>1 DEF PromptInv
  <2>3. PromptAsked(q)'
    BY <2>2, PromptSame
  <2> QED BY <2>1, <2>3 DEF PromptAsked, PromptCall
<1>6. ASSUME NEW e \in PromptReaders PROVE PromptRead(eval[e])'
  <2>1. PICK q : q = eval[e]
    OBVIOUS
  <2>2. PromptRead(q)' /\ q = eval'[e]
    BY <2>1, PromptSame DEF PromptInv
  <2> QED BY <2>2 DEF PromptRead
<1> QED BY <1>2, <1>3, <1>4, <1>5, <1>6 DEF PromptInv

\* An evaluation goes on, and may fill the cache.
LEMMA PromptEvals ==
  ASSUME PromptInv, UNCHANGED <<prompt, req, crossed>>, NEW e \in PromptReaders, NEW rec, PromptRead(rec),
         eval' = [eval EXCEPT ![e] = rec],
         NEW t \in Evaluation!Types, NEW c, c = [value |-> c.value, from |-> c.from],
         c.from = "table" => c.value = Evaluation!InForce(t),
         cache' = cache \/ cache' = [cache EXCEPT ![t] = c]
  PROVE  PromptInv'
<1>1. eval' = [p \in PromptReaders |-> eval'[p]] /\ eval'[e] = rec /\ \A p \in PromptReaders \ {e} : eval'[p] = eval[p]
  BY DEF PromptInv, PromptTyped
<1>2. cache' = [z \in Evaluation!Types |-> cache'[z]] /\ \A z \in Evaluation!Types : cache'[z] = cache[z] \/ (z = t /\ cache'[z] = c)
  BY DEF PromptInv, PromptTyped
<1>3. PromptTyped'
  BY <1>1, <1>2 DEF PromptInv, PromptTyped, PromptFilled
<1>4. PromptOne' /\ \A z \in Evaluation!Types : Evaluation!InForce(z)' = Evaluation!InForce(z)
  BY PromptSame DEF PromptInv
<1>5. PromptCached'
  BY <1>2, <1>4 DEF PromptInv, PromptCached
<1>6. ASSUME NEW p \in Callers PROVE PromptAsked(req[p])'
  <2>1. PICK q : q = req[p]
    OBVIOUS
  <2>2. PromptAsked(q)' /\ q = req'[p]
    BY <2>1, PromptSame DEF PromptInv
  <2> QED BY <2>2 DEF PromptAsked, PromptCall
<1>7. ASSUME NEW p \in PromptReaders PROVE PromptRead(eval[p])'
  <2>1. PICK q : q = eval'[p]
    OBVIOUS
  <2>2. PromptRead(q)
    BY <1>1, <2>1 DEF PromptInv
  <2>3. PromptRead(q)'
    BY <2>2, PromptSame
  <2> QED BY <2>1, <2>3 DEF PromptRead
<1> QED BY <1>3, <1>4, <1>5, <1>6, <1>7 DEF PromptInv

LEMMA PromptStep == ASSUME PromptLimits PROVE PromptInv /\ [Evaluation!Next]_(Evaluation!vars) => PromptInv'
<1> SUFFICES ASSUME PromptInv, [Evaluation!Next]_(Evaluation!vars) PROVE PromptInv'
  OBVIOUS
<1>0. \A id \in Evaluation!Rows : prompt[id] \in PromptRows /\ (Evaluation!Exists(id) => prompt[id] # Evaluation!Absent /\ prompt[id] # Evaluation!Spent)
  BY DEF PromptInv, PromptTyped, Evaluation!Exists, Evaluation!Absent, Evaluation!Spent
\* An inactive row is added.
<1>00. ASSUME NEW t \in Evaluation!Types, Evaluation!HasRoom, prompt' = [prompt EXCEPT ![Evaluation!NewRow] = [type |-> t, active |-> "no"]]
       PROVE  /\ prompt' \in [Evaluation!Rows -> PromptRows] /\ \E k \in 0..EvalRows : PromptFilled(k)'
              /\ \A z \in Evaluation!Types : Evaluation!ActiveRows(z)' = Evaluation!ActiveRows(z)
              /\ \A id \in Evaluation!Rows : prompt[id] # Evaluation!Absent => prompt'[id] = prompt[id]
  <2>1. Evaluation!NewRow \in Evaluation!Rows /\ prompt[Evaluation!NewRow] = Evaluation!Absent
    BY <1>00, PromptNew
  <2>2. PICK added : added = [type |-> t, active |-> "no"]
    OBVIOUS
  <2>3. added \in PromptRows /\ added # Evaluation!Absent /\ \A z \in Evaluation!Types : added # [type |-> z, active |-> "yes"] /\ Evaluation!Absent # [type |-> z, active |-> "yes"]
    BY <2>2 DEF PromptRows, Evaluation!Absent, Evaluation!Types
  <2>4. prompt' \in [Evaluation!Rows -> PromptRows] /\ prompt'[Evaluation!NewRow] = added /\ \A id \in Evaluation!Rows \ {Evaluation!NewRow} : prompt'[id] = prompt[id]
    BY <1>00, <2>1, <2>2, <2>3 DEF PromptInv, PromptTyped
  <2>5. \E k \in 0..EvalRows : PromptFilled(k)'
    BY <1>00, <2>3, <2>4, PromptAdds
  <2>6. \A z \in Evaluation!Types : Evaluation!ActiveRows(z)' = Evaluation!ActiveRows(z)
    BY <2>1, <2>3, <2>4 DEF Evaluation!ActiveRows
  <2> QED BY <2>1, <2>4, <2>5, <2>6
\* A call is answered without a commit, or a call begins, or an evaluation goes on.
<1>01. ASSUME NEW t \in Evaluation!Types, Evaluation!HasRoom, prompt' = [prompt EXCEPT ![Evaluation!NewRow] = [type |-> t, active |-> "no"]],
              UNCHANGED <<cache, eval, crossed>>, req' = [p \in Callers |-> req'[p]],
              \A p \in Callers : req'[p] = req[p] \/ (req[p].pc # "clear" /\ req'[p] = Evaluation!Idle)
       PROVE  PromptInv'
  <2>1. Evaluation!HasRoom /\ prompt' = [prompt EXCEPT ![Evaluation!NewRow] = [type |-> t, active |-> "no"]] /\ UNCHANGED <<cache, eval, crossed>>
    BY <1>01
  <2>2. PromptTyped'
    BY <1>01, <1>00 DEF PromptInv, PromptTyped
  <2>3. ASSUME NEW q PROVE /\ PromptOne' /\ (PromptAsked(q) => PromptAsked(q)') /\ (PromptRead(q) => PromptRead(q)')
                           /\ \A z \in Evaluation!Types : Evaluation!InForce(z)' = Evaluation!InForce(z)
    BY <2>1, <2>2, <1>00, PromptQuiet
  <2>4. PromptCached'
    BY <1>01, <2>1, <2>3 DEF PromptInv, PromptCached
  <2>5. \A r \in Callers : PromptAsked(req[r])'
    <3> SUFFICES ASSUME NEW r \in Callers PROVE PromptAsked(req[r])'
      OBVIOUS
    <3>1. PICK q : q = req'[r]
      OBVIOUS
    <3>2. PromptAsked(q)
      BY <1>01, <3>1, PromptRests DEF PromptInv
    <3>3. PromptAsked(q)'
      BY <2>3, <3>2
    <3> QED BY <3>1, <3>3 DEF PromptAsked, PromptCall
  <2>6. \A e \in PromptReaders : PromptRead(eval[e])'
    <3> SUFFICES ASSUME NEW e \in PromptReaders PROVE PromptRead(eval[e])'
      OBVIOUS
    <3>1. PICK q : q = eval[e]
      OBVIOUS
    <3>2. PromptRead(q)' /\ eval'[e] = q
      BY <2>1, <2>3, <3>1 DEF PromptInv
    <3> QED BY <3>2 DEF PromptRead
  <2> QED BY <2>2, <2>3, <2>4, <2>5, <2>6 DEF PromptInv
<1>1. ASSUME NEW t \in Evaluation!Types, Evaluation!Create(t) PROVE PromptInv'
  <2>1. Evaluation!HasRoom /\ prompt' = [prompt EXCEPT ![Evaluation!NewRow] = [type |-> t, active |-> "no"]] /\ UNCHANGED <<cache, req, eval, crossed>>
    BY <1>1 DEF Evaluation!Create
  <2>2. req' = [p \in Callers |-> req'[p]] /\ \A p \in Callers : req'[p] = req[p]
    BY <2>1 DEF PromptInv, PromptTyped
  <2> QED BY <2>1, <2>2, <1>01
<1>2. ASSUME NEW t \in Evaluation!Types, Evaluation!Expire(t) PROVE PromptInv'
  <2>1. cache' = [cache EXCEPT ![t] = Evaluation!NotCached] /\ UNCHANGED <<prompt, req, eval, crossed>>
    BY <1>2 DEF Evaluation!Expire
  <2>2. cache' = [z \in Evaluation!Types |-> cache'[z]] /\ \A z \in Evaluation!Types : cache'[z] \in {cache[z], Evaluation!NotCached}
    BY <2>1 DEF PromptInv, PromptTyped
  <2>3. Evaluation!NotCached.from = "nowhere" /\ Evaluation!NotCached = [value |-> Evaluation!NotCached.value, from |-> Evaluation!NotCached.from]
    BY DEF Evaluation!NotCached
  <2>4. PromptTyped'
    BY <2>1, <2>2, <2>3 DEF PromptInv, PromptTyped, PromptFilled
  <2>5. PromptOne' /\ \A z \in Evaluation!Types : Evaluation!InForce(z)' = Evaluation!InForce(z)
    BY <2>1, PromptSame DEF PromptInv
  <2>6. PromptCached'
    BY <2>1, <2>2, <2>3, <2>5 DEF PromptInv, PromptCached
  <2>7. \A p \in Callers : PromptAsked(req[p])'
    BY <2>1 DEF PromptInv, PromptAsked, PromptCall, Evaluation!Idle, Evaluation!Clear, Evaluation!ActiveRows
  <2>8. \A e \in PromptReaders : PromptRead(eval[e])'
    BY <2>1, <2>5 DEF PromptInv, PromptRead
  <2> QED BY <2>4, <2>5, <2>6, <2>7, <2>8 DEF PromptInv
\* A call that reads the row of a prompt.
<1>3. ASSUME NEW r \in Callers, NEW rec, PromptAsked(rec), Evaluation!Begin(r, rec) PROVE PromptInv'
  <2>1. req[r].pc # "clear" /\ req' = [req EXCEPT ![r] = rec] /\ UNCHANGED <<prompt, cache, eval, crossed>>
    BY <1>3 DEF Evaluation!Begin
  <2> QED BY <1>3, <2>1, PromptMoves
<1>4. ASSUME NEW r \in Callers, NEW id \in Evaluation!Rows, Evaluation!UpdateBegins(r, id) \/ Evaluation!ActivateBegins(r, id) \/ Evaluation!DeleteBegins(r, id)
      PROVE  PromptInv'
  <2>1. PICK kind \in {"update", "activate", "delete"}, seen \in SUBSET Evaluation!Rows :
           /\ Evaluation!Exists(id) /\ (kind = "delete" => prompt[id].active = "no")
           /\ (kind # "delete" => seen = Evaluation!ActiveRows(prompt[id].type)) /\ (kind = "delete" => seen = {})
           /\ Evaluation!Begin(r, [pc |-> kind, id |-> id, type |-> prompt[id].type, seen |-> seen, active |-> prompt[id].active, stale |-> FALSE])
    BY <1>4 DEF Evaluation!UpdateBegins, Evaluation!ActivateBegins, Evaluation!DeleteBegins, Evaluation!Deletable, Evaluation!ActiveRows
  <2>2. PICK rec : rec = [pc |-> kind, id |-> id, type |-> prompt[id].type, seen |-> seen, active |-> prompt[id].active, stale |-> FALSE]
    OBVIOUS
  <2>3. prompt[id] \in [type : Evaluation!Types, active : {"yes", "no"}] /\ prompt[id] # Evaluation!Absent
    BY <2>1, <1>0 DEF PromptRows
  <2>4. prompt[id] = [type |-> prompt[id].type, active |-> prompt[id].active] /\ prompt[id].type \in Evaluation!Types
    BY <2>3
  <2>5. seen \subseteq Evaluation!Rows /\ \A z \in seen : prompt[z].type = prompt[id].type /\ prompt[z] # Evaluation!Absent
    BY <2>1, <2>4 DEF Evaluation!ActiveRows, Evaluation!Absent
  <2>6. /\ rec = [pc |-> rec.pc, id |-> rec.id, type |-> rec.type, seen |-> rec.seen, active |-> rec.active, stale |-> rec.stale]
        /\ rec.pc = kind /\ rec.id = id /\ rec.type = prompt[id].type /\ rec.seen = seen /\ rec.active = prompt[id].active
        /\ rec.stale = FALSE
    BY <2>2
  <2>7. PromptCall(rec)
    BY <2>1, <2>3, <2>4, <2>5, <2>6 DEF PromptCall
  <2> QED BY <1>3, <2>1, <2>2, <2>7 DEF PromptAsked
\* The row of a call is gone.
<1>5. ASSUME NEW r \in Callers, req[r].pc # "clear", Evaluation!Gone(r) PROVE PromptInv'
  <2>1. req' = [req EXCEPT ![r] = Evaluation!Idle] /\ UNCHANGED <<prompt, cache, eval, crossed>>
    BY <1>5 DEF Evaluation!Gone
  <2> QED BY <1>5, <2>1, PromptMoves, PromptRests
<1>6. ASSUME NEW r \in Callers, req[r].pc \in {"update", "activate", "delete"}
      PROVE  PromptCall(req[r]) /\ req[r].pc # "clear" /\ req[r].id \in Evaluation!Rows /\ req[r].type \in Evaluation!Types
             /\ (Evaluation!Exists(req[r].id) => prompt[req[r].id].type = req[r].type)
  BY <1>6, PromptRests DEF PromptInv, PromptAsked, PromptCall, Evaluation!Exists
<1>7. ASSUME NEW r \in Callers, Evaluation!Update(r) PROVE PromptInv'
  <2>1. req[r].pc = "update" /\ Evaluation!HasRoom
    BY <1>7 DEF Evaluation!Update
  <2>2. PICK q : q = req[r]
    OBVIOUS
  <2>3. PromptCall(q) /\ q.pc = "update"
    BY <2>1, <2>2, <1>6
  <2>4. Evaluation!NewRow \in Evaluation!Rows /\ prompt[Evaluation!NewRow] = Evaluation!Absent
    BY <2>1, PromptNew
  <2>5. CASE q.active = "yes" /\ Evaluation!Exists(q.id)
    <3>1. prompt' = Evaluation!Replaced(q.id) /\ Evaluation!Commit(r, Evaluation!Clear)
      BY <1>7, <2>2, <2>5 DEF Evaluation!Update
    <3>2. prompt[q.id] \in [type : Evaluation!Types, active : {"yes", "no"}] /\ q.id # Evaluation!NewRow /\ q.id \in Evaluation!Rows /\ prompt[q.id].type = q.type
      BY <2>2, <2>3, <2>4, <2>5, <1>0, <1>6 DEF PromptRows
    <3>3. PICK off : off = [prompt[q.id] EXCEPT !.active = "no"]
      OBVIOUS
    <3>4. off \in [type : Evaluation!Types, active : {"yes", "no"}] /\ off.type = q.type /\ off.active = "no"
      BY <3>2, <3>3
    <3>5. PICK on : on = [type |-> q.type, active |-> "yes"]
      OBVIOUS
    <3>6. on \in PromptRows /\ off \in PromptRows /\ on # Evaluation!Absent /\ off # Evaluation!Absent /\ on.type = q.type /\ on.active = "yes"
      BY <3>2, <3>4, <3>5 DEF PromptRows, Evaluation!Absent, Evaluation!Types
    <3>7. /\ prompt' = [id \in Evaluation!Rows |-> IF id = Evaluation!NewRow THEN on ELSE IF id = q.id THEN off ELSE prompt[id]]
      BY <2>4, <3>1, <3>2, <3>3, <3>5 DEF Evaluation!Replaced, PromptInv, PromptTyped
    <3>8. prompt' \in [Evaluation!Rows -> PromptRows]
      BY <1>0, <3>6, <3>7
    <3>9. \E k \in 0..EvalRows : PromptFilled(k)'
      <4>1. prompt'[Evaluation!NewRow] # Evaluation!Absent
        BY <2>4, <3>6, <3>7
      <4>2. \A id \in Evaluation!Rows \ {Evaluation!NewRow} : prompt'[id] = Evaluation!Absent <=> prompt[id] = Evaluation!Absent
        BY <2>4, <2>5, <1>0, <3>2, <3>6, <3>7
      <4> QED BY <2>1, <3>8, <4>1, <4>2, PromptAdds
    <3>10. \A id \in Evaluation!Rows : prompt[id] # Evaluation!Absent =>
             /\ prompt'[id] # Evaluation!Absent /\ prompt'[id].type \in {prompt[id].type, "none"}
             /\ prompt[id].type # q.type => prompt'[id] = prompt[id]
      BY <2>4, <3>2, <3>4, <3>6, <3>7
    <3>11. \A z \in Evaluation!Types : \A id \in Evaluation!Rows : id \in Evaluation!ActiveRows(z)' <=>
              (\/ id = Evaluation!NewRow /\ z = q.type
               \/ id # Evaluation!NewRow /\ id # q.id /\ id \in Evaluation!ActiveRows(z))
      <4>1. \A z \in Evaluation!Types : /\ on = [type |-> z, active |-> "yes"] <=> z = q.type
                                        /\ off # [type |-> z, active |-> "yes"]
        BY <3>4, <3>5
      <4> QED BY <3>7, <4>1 DEF Evaluation!ActiveRows
    <3>12. \A z \in Evaluation!Types \ {q.type} : Evaluation!ActiveRows(z)' = Evaluation!ActiveRows(z)
      <4>1. \A z \in Evaluation!Types \ {q.type} : Evaluation!NewRow \notin Evaluation!ActiveRows(z) /\ q.id \notin Evaluation!ActiveRows(z)
        BY <2>4, <3>2 DEF Evaluation!ActiveRows, Evaluation!Absent
      <4>2. \A z \in Evaluation!Types \ {q.type} : Evaluation!ActiveRows(z) \subseteq Evaluation!Rows /\ Evaluation!ActiveRows(z)' \subseteq Evaluation!Rows
        BY DEF Evaluation!ActiveRows, Evaluation!Rows
      <4> QED BY <3>11, <4>1, <4>2
    <3>13. q.stale = FALSE /\ q.type \notin crossed => \E id \in Evaluation!Rows : Evaluation!ActiveRows(q.type)' = {id}
      <4> SUFFICES ASSUME q.stale = FALSE, q.type \notin crossed PROVE Evaluation!ActiveRows(q.type)' = {Evaluation!NewRow}
        BY <2>4
      <4>1. q.type \in Evaluation!Types /\ q.id \in Evaluation!ActiveRows(q.type)
        BY <2>3, <2>5 DEF PromptCall, Evaluation!ActiveRows
      <4>2. PICK one \in Evaluation!Rows : Evaluation!ActiveRows(q.type) = {one}
        BY <4>1 DEF PromptInv, PromptOne
      <4>3. Evaluation!ActiveRows(q.type)' \subseteq Evaluation!Rows
        BY DEF Evaluation!ActiveRows, Evaluation!Rows
      <4> QED BY <2>4, <3>11, <4>1, <4>2, <4>3
    <3>14. req[r].stale \in BOOLEAN
      BY <2>2, <2>3 DEF PromptCall
    <3> QED
      <4>1. PICK u : u = req[r].type
        OBVIOUS
      <4>2. u = q.type /\ PromptCall(req[r]) /\ Evaluation!Commit(r, Evaluation!Clear)
        BY <2>2, <2>3, <3>1, <4>1
      <4>3. \A id \in Evaluation!Rows : prompt[id] # Evaluation!Absent =>
               /\ prompt'[id] # Evaluation!Absent /\ prompt'[id].type \in {prompt[id].type, "none"}
               /\ prompt[id].type # u => prompt'[id] = prompt[id]
        BY <3>10, <4>2
      <4>4. \A t \in Evaluation!Types \ {u} : Evaluation!ActiveRows(t)' = Evaluation!ActiveRows(t)
        BY <3>12, <4>2
      <4>5. req[r].stale = FALSE /\ u \notin crossed => \E id \in Evaluation!Rows : Evaluation!ActiveRows(u)' = {id}
        BY <3>13, <2>2, <4>2
      <4> QED BY <3>8, <3>9, <3>14, <4>1, <4>2, <4>3, <4>4, <4>5, PromptCommit
  <2>6. CASE q.active = "yes" /\ ~Evaluation!Exists(q.id)
    BY <1>5, <1>7, <2>1, <2>2, <2>6 DEF Evaluation!Update
  <2>7. CASE q.active # "yes"
    <3>1. /\ prompt' = [prompt EXCEPT ![Evaluation!NewRow] = [type |-> q.type, active |-> "no"]]
          /\ req' = [req EXCEPT ![r] = Evaluation!Idle] /\ UNCHANGED <<cache, eval, crossed>>
      BY <1>7, <2>2, <2>7 DEF Evaluation!Update
    <3>2. req' = [p \in Callers |-> req'[p]] /\ \A p \in Callers : req'[p] = req[p] \/ (req[p].pc # "clear" /\ req'[p] = Evaluation!Idle)
      BY <2>1, <3>1 DEF PromptInv, PromptTyped
    <3>3. q.type \in Evaluation!Types
      BY <2>3 DEF PromptCall
    <3> QED BY <2>1, <3>1, <3>2, <3>3, <1>01
  <2> QED BY <2>5, <2>6, <2>7
<1>8. ASSUME NEW r \in Callers, Evaluation!Activate(r) PROVE PromptInv'
  <2>1. req[r].pc = "activate"
    BY <1>8 DEF Evaluation!Activate
  <2>2. PICK q : q = req[r]
    OBVIOUS
  <2>3. PromptCall(q) /\ q.pc = "activate" /\ q.id \in Evaluation!Rows /\ q.seen \subseteq Evaluation!Rows /\ q.type \in Evaluation!Types
    BY <2>1, <2>2, <1>6 DEF PromptCall
  <2>4. CASE Evaluation!Exists(q.id)
    <3>1. PICK on : on = [prompt[q.id] EXCEPT !.active = "yes"]
      OBVIOUS
    <3>2. prompt[q.id] \in [type : Evaluation!Types, active : {"yes", "no"}] /\ prompt[q.id].type = q.type
      BY <2>2, <2>3, <2>4, <1>0, <1>6 DEF PromptRows
    <3>3. on = [type |-> q.type, active |-> "yes"] /\ on \in PromptRows /\ on # Evaluation!Absent /\ on.type = q.type /\ on.active = "yes"
      <4>1. on = [type |-> q.type, active |-> "yes"]
        BY <3>1, <3>2
      <4> QED BY <2>3, <4>1 DEF PromptRows, Evaluation!Absent, Evaluation!Types
    <3>4. PICK off : off = [id \in Evaluation!Rows |-> [prompt[id] EXCEPT !.active = "no"]]
      OBVIOUS
    <3>5. \A id \in Evaluation!Rows : Evaluation!Exists(id) =>
             /\ prompt[id] \in [type : Evaluation!Types, active : {"yes", "no"}] /\ prompt[id] # Evaluation!Absent
             /\ off[id] = [type |-> prompt[id].type, active |-> "no"]
      <4> SUFFICES ASSUME NEW id \in Evaluation!Rows, Evaluation!Exists(id)
                   PROVE  /\ prompt[id] \in [type : Evaluation!Types, active : {"yes", "no"}] /\ prompt[id] # Evaluation!Absent
                          /\ off[id] = [type |-> prompt[id].type, active |-> "no"]
        OBVIOUS
      <4>1. prompt[id] \in [type : Evaluation!Types, active : {"yes", "no"}] /\ prompt[id] # Evaluation!Absent
        BY <1>0 DEF PromptRows
      <4>2. off[id] = [prompt[id] EXCEPT !.active = "no"]
        BY <3>4
      <4> QED BY <4>1, <4>2
    <3>6. \A id \in Evaluation!Rows : Evaluation!Exists(id) =>
             /\ off[id] \in PromptRows /\ off[id] # Evaluation!Absent /\ off[id].type = prompt[id].type
             /\ \A z \in Evaluation!Types : off[id] # [type |-> z, active |-> "yes"]
      <4> SUFFICES ASSUME NEW id \in Evaluation!Rows, Evaluation!Exists(id)
                   PROVE  /\ off[id] \in PromptRows /\ off[id] # Evaluation!Absent /\ off[id].type = prompt[id].type
                          /\ \A z \in Evaluation!Types : off[id] # [type |-> z, active |-> "yes"]
        OBVIOUS
      <4>1. off[id] = [type |-> prompt[id].type, active |-> "no"] /\ prompt[id].type \in Evaluation!Types
        BY <3>5
      <4> QED BY <4>1 DEF PromptRows, Evaluation!Absent, Evaluation!Types
    <3>7. prompt' = [id \in Evaluation!Rows |-> IF id = q.id THEN on
                                     ELSE IF id \in q.seen /\ Evaluation!Exists(id) THEN off[id] ELSE prompt[id]]
      BY <1>8, <2>2, <2>4, <3>1, <3>4 DEF Evaluation!Activate
    <3>8. Evaluation!Commit(r, Evaluation!Clear)
      BY <1>8, <2>2, <2>4 DEF Evaluation!Activate
    <3>9. prompt' \in [Evaluation!Rows -> PromptRows]
      BY <1>0, <3>3, <3>6, <3>7
    <3>10. \A id \in Evaluation!Rows : prompt'[id] = Evaluation!Absent <=> prompt[id] = Evaluation!Absent
      BY <1>0, <2>4, <3>3, <3>5, <3>6, <3>7
    <3>11. \E k \in 0..EvalRows : PromptFilled(k)'
      BY <3>10 DEF PromptInv, PromptTyped, PromptFilled
    <3>12. \A id \in q.seen : prompt[id].type \in {q.type, "none"}
      BY <2>3 DEF PromptCall
    <3>13. \A id \in Evaluation!Rows : prompt[id] # Evaluation!Absent =>
             /\ prompt'[id] # Evaluation!Absent /\ prompt'[id].type \in {prompt[id].type, "none"}
             /\ prompt[id].type # q.type => prompt'[id] = prompt[id]
      BY <3>2, <3>3, <3>6, <3>7, <3>10, <3>12 DEF Evaluation!Exists
    <3>14. \A z \in Evaluation!Types \ {q.type} : Evaluation!ActiveRows(z)' = Evaluation!ActiveRows(z)
      <4> SUFFICES ASSUME NEW z \in Evaluation!Types, z # q.type, NEW id \in Evaluation!Rows
                   PROVE  prompt'[id] = [type |-> z, active |-> "yes"] <=> prompt[id] = [type |-> z, active |-> "yes"]
        BY DEF Evaluation!ActiveRows
      <4>1. CASE id = q.id
        BY <4>1, <3>2, <3>3, <3>7
      <4>2. CASE id # q.id /\ id \in q.seen /\ Evaluation!Exists(id)
        BY <4>2, <3>6, <3>7, <3>12 DEF Evaluation!Exists
      <4>3. CASE id # q.id /\ ~(id \in q.seen /\ Evaluation!Exists(id))
        BY <4>3, <3>7
      <4> QED BY <4>1, <4>2, <4>3
    <3>15. q.stale = FALSE /\ q.type \notin crossed => \E id \in Evaluation!Rows : Evaluation!ActiveRows(q.type)' = {id}
      <4> SUFFICES ASSUME q.stale = FALSE PROVE Evaluation!ActiveRows(q.type)' = {q.id}
        BY <2>3
      <4>1. q.seen = Evaluation!ActiveRows(q.type)
        BY <2>3 DEF PromptCall
      <4>2. \A id \in Evaluation!Rows : prompt'[id] = [type |-> q.type, active |-> "yes"] <=> id = q.id
        <5> SUFFICES ASSUME NEW id \in Evaluation!Rows PROVE prompt'[id] = [type |-> q.type, active |-> "yes"] <=> id = q.id
          OBVIOUS
        <5>1. CASE id = q.id
          BY <5>1, <3>3, <3>7
        <5>2. CASE id # q.id /\ id \in q.seen
          <6>1. prompt[id] = [type |-> q.type, active |-> "yes"]
            BY <4>1, <5>2 DEF Evaluation!ActiveRows
          <6>2. Evaluation!Exists(id)
            BY <2>3, <6>1 DEF Evaluation!Exists, Evaluation!Types
          <6> QED BY <2>3, <3>6, <3>7, <5>2, <6>2
        <5>3. CASE id # q.id /\ id \notin q.seen
          BY <3>7, <4>1, <5>3 DEF Evaluation!ActiveRows
        <5> QED BY <5>1, <5>2, <5>3
      <4> QED BY <2>3, <4>2 DEF Evaluation!ActiveRows
    <3>16. req[r].stale \in BOOLEAN
      BY <2>2, <2>3 DEF PromptCall
    <3> QED
      <4>1. PICK u : u = req[r].type
        OBVIOUS
      <4>2. u = q.type /\ PromptCall(req[r]) /\ Evaluation!Commit(r, Evaluation!Clear)
        BY <2>2, <2>3, <3>8, <4>1
      <4>3. \A id \in Evaluation!Rows : prompt[id] # Evaluation!Absent =>
               /\ prompt'[id] # Evaluation!Absent /\ prompt'[id].type \in {prompt[id].type, "none"}
               /\ prompt[id].type # u => prompt'[id] = prompt[id]
        BY <3>13, <4>2
      <4>4. \A t \in Evaluation!Types \ {u} : Evaluation!ActiveRows(t)' = Evaluation!ActiveRows(t)
        BY <3>14, <4>2
      <4>5. req[r].stale = FALSE /\ u \notin crossed => \E id \in Evaluation!Rows : Evaluation!ActiveRows(u)' = {id}
        BY <3>15, <2>2, <4>2
      <4> QED BY <3>9, <3>11, <3>16, <4>1, <4>2, <4>3, <4>4, <4>5, PromptCommit
  <2>5. CASE ~Evaluation!Exists(q.id)
    BY <1>5, <1>8, <2>1, <2>2, <2>5 DEF Evaluation!Activate
  <2> QED BY <2>4, <2>5
<1>9. ASSUME NEW r \in Callers, Evaluation!Delete(r) PROVE PromptInv'
  <2>1. req[r].pc = "delete"
    BY <1>9 DEF Evaluation!Delete
  <2>2. PICK q : q = req[r]
    OBVIOUS
  <2>3. PromptCall(q) /\ q.pc = "delete" /\ q.id \in Evaluation!Rows /\ q.type \in Evaluation!Types
    BY <2>1, <2>2, <1>6 DEF PromptCall
  <2>4. CASE Evaluation!Exists(q.id)
    <3>1. Evaluation!Commit(r, Evaluation!Clear) /\ prompt' = [prompt EXCEPT ![q.id] = Evaluation!Spent]
      BY <1>9, <2>2, <2>4 DEF Evaluation!Delete
    <3>2. prompt[q.id].type = q.type /\ prompt[q.id] # Evaluation!Absent
      BY <2>2, <2>3, <2>4, <1>0, <1>6
    <3>3. prompt'[q.id] = Evaluation!Spent /\ \A id \in Evaluation!Rows \ {q.id} : prompt'[id] = prompt[id]
      BY <2>3, <3>1 DEF PromptInv, PromptTyped
    <3>4. Evaluation!Spent \in PromptRows /\ Evaluation!Spent # Evaluation!Absent /\ Evaluation!Spent.type = "none" /\ \A z \in Evaluation!Types : Evaluation!Spent # [type |-> z, active |-> "yes"]
      BY DEF Evaluation!Spent, Evaluation!Absent, PromptRows
    <3>5. prompt' \in [Evaluation!Rows -> PromptRows]
      BY <3>1, <3>4 DEF PromptInv, PromptTyped
    <3>6. \E k \in 0..EvalRows : PromptFilled(k)'
      <4>1. \A id \in Evaluation!Rows : prompt'[id] = Evaluation!Absent <=> prompt[id] = Evaluation!Absent
        BY <3>2, <3>3, <3>4
      <4> QED BY <4>1 DEF PromptInv, PromptTyped, PromptFilled
    <3>7. \A id \in Evaluation!Rows : prompt[id] # Evaluation!Absent =>
             /\ prompt'[id] # Evaluation!Absent /\ prompt'[id].type \in {prompt[id].type, "none"}
             /\ prompt[id].type # q.type => prompt'[id] = prompt[id]
      BY <3>2, <3>3, <3>4
    <3>8. \A z \in Evaluation!Types \ {q.type} : Evaluation!ActiveRows(z)' = Evaluation!ActiveRows(z)
      <4> SUFFICES ASSUME NEW z \in Evaluation!Types, z # q.type, NEW id \in Evaluation!Rows
                   PROVE  prompt'[id] = [type |-> z, active |-> "yes"] <=> prompt[id] = [type |-> z, active |-> "yes"]
        BY DEF Evaluation!ActiveRows
      <4> QED BY <3>2, <3>3, <3>4
    <3>9. q.stale = FALSE /\ q.type \notin crossed => \E id \in Evaluation!Rows : Evaluation!ActiveRows(q.type)' = {id}
      <4> SUFFICES ASSUME q.stale = FALSE, q.type \notin crossed PROVE \E id \in Evaluation!Rows : Evaluation!ActiveRows(q.type)' = {id}
        OBVIOUS
      <4>1. prompt[q.id] = [type |-> q.type, active |-> "no"]
        BY <2>3 DEF PromptCall
      <4>2. Evaluation!ActiveRows(q.type)' = Evaluation!ActiveRows(q.type)
        <5> SUFFICES ASSUME NEW id \in Evaluation!Rows
                     PROVE  prompt'[id] = [type |-> q.type, active |-> "yes"] <=> prompt[id] = [type |-> q.type, active |-> "yes"]
          BY DEF Evaluation!ActiveRows
        <5>1. [type |-> q.type, active |-> "no"] # [type |-> q.type, active |-> "yes"]
          OBVIOUS
        <5> QED BY <2>3, <3>3, <3>4, <4>1, <5>1
      <4> QED BY <2>3, <4>2 DEF PromptInv, PromptOne
    <3>10. req[r].stale \in BOOLEAN
      BY <2>2, <2>3 DEF PromptCall
    <3> QED
      <4>1. PICK u : u = req[r].type
        OBVIOUS
      <4>2. u = q.type /\ PromptCall(req[r]) /\ Evaluation!Commit(r, Evaluation!Clear)
        BY <2>2, <2>3, <3>1, <4>1
      <4>3. \A id \in Evaluation!Rows : prompt[id] # Evaluation!Absent =>
               /\ prompt'[id] # Evaluation!Absent /\ prompt'[id].type \in {prompt[id].type, "none"}
               /\ prompt[id].type # u => prompt'[id] = prompt[id]
        BY <3>7, <4>2
      <4>4. \A t \in Evaluation!Types \ {u} : Evaluation!ActiveRows(t)' = Evaluation!ActiveRows(t)
        BY <3>8, <4>2
      <4>5. req[r].stale = FALSE /\ u \notin crossed => \E id \in Evaluation!Rows : Evaluation!ActiveRows(u)' = {id}
        BY <3>9, <2>2, <4>2
      <4> QED BY <3>5, <3>6, <3>10, <4>1, <4>2, <4>3, <4>4, <4>5, PromptCommit
  <2>5. CASE ~Evaluation!Exists(q.id)
    BY <1>5, <1>9, <2>1, <2>2, <2>5 DEF Evaluation!Delete
  <2> QED BY <2>4, <2>5
<1>10. ASSUME NEW r \in Callers, Evaluation!ClearCache(r) PROVE PromptInv'
  <2>1. cache' = [t \in Evaluation!Types |-> Evaluation!NotCached] /\ req' = [req EXCEPT ![r] = Evaluation!Idle] /\ UNCHANGED <<prompt, eval, crossed>>
    BY <1>10 DEF Evaluation!ClearCache, Evaluation!Dropped
  <2>2. Evaluation!NotCached.from = "nowhere" /\ Evaluation!NotCached = [value |-> Evaluation!NotCached.value, from |-> Evaluation!NotCached.from]
    BY DEF Evaluation!NotCached
  <2>3. req' = [p \in Callers |-> req'[p]] /\ \A p \in Callers : req'[p] \in {req[p], Evaluation!Idle}
    BY <2>1 DEF PromptInv, PromptTyped
  <2>4. PromptTyped' /\ PromptCached'
    BY <2>1, <2>2, <2>3 DEF PromptInv, PromptTyped, PromptFilled, PromptCached
  <2>5. PromptOne'
    BY <2>1, PromptSame DEF PromptInv
  <2>6. ASSUME NEW p \in Callers PROVE PromptAsked(req[p])'
    <3>1. PICK q : q = req'[p]
      OBVIOUS
    <3>2. PromptAsked(q)
      BY <2>3, <3>1, PromptRests DEF PromptInv
    <3>3. PromptAsked(q)'
      BY <2>1, <3>2, PromptSame
    <3> QED BY <3>1, <3>3 DEF PromptAsked, PromptCall
  <2>7. ASSUME NEW e \in PromptReaders PROVE PromptRead(eval[e])'
    <3>1. PICK q : q = eval[e]
      OBVIOUS
    <3>2. PromptRead(q)' /\ q = eval'[e]
      BY <2>1, <3>1, PromptSame DEF PromptInv
    <3> QED BY <3>2 DEF PromptRead
  <2> QED BY <2>4, <2>5, <2>6, <2>7 DEF PromptInv
\* The evaluations: most steps leave the cache alone.
<1>11. ASSUME NEW e \in PromptReaders, NEW rec, PromptRead(rec), Evaluation!To(e, rec), UNCHANGED <<prompt, cache, req, crossed>>
       PROVE  PromptInv'
  <2>1. eval' = [eval EXCEPT ![e] = rec]
    BY <1>11 DEF Evaluation!To
  <2>2. PICK c : c = Evaluation!NotCached
    OBVIOUS
  <2>3. c = [value |-> c.value, from |-> c.from] /\ c.from # "table"
    BY <2>2 DEF Evaluation!NotCached
  <2>4. "gate" \in Evaluation!Types
    BY DEF Evaluation!Types
  <2> QED BY <1>11, <2>1, <2>3, <2>4, PromptEvals
<1>12. ASSUME NEW e \in PromptReaders, NEW t \in Evaluation!Types, Evaluation!Ask(e, t), UNCHANGED <<prompt, cache, req, crossed>> PROVE PromptInv'
  <2>1. PromptRead(Evaluation!Call(t)) /\ PromptRead([pc |-> "query", stage |-> t])
    BY DEF PromptRead, Evaluation!Call
  <2> QED BY <1>11, <1>12, <2>1 DEF Evaluation!Ask
<1>13. ASSUME NEW e \in PromptReaders, Evaluation!EvaluateBegins(e) PROVE PromptInv'
  BY <1>12, <1>13 DEF Evaluation!EvaluateBegins, Evaluation!Types
<1>14. ASSUME NEW e \in PromptReaders, Evaluation!QueryPrompt(e) PROVE PromptInv'
  <2>1. PICK rec : rec = [pc |-> "store", type |-> eval[e].stage, value |-> Evaluation!InForce(eval[e].stage), stale |-> FALSE]
    OBVIOUS
  <2>2. eval[e].stage \in Evaluation!Types
    BY <1>14 DEF Evaluation!QueryPrompt, PromptInv, PromptRead
  <2>3. /\ rec.pc = "store" /\ rec.type = eval[e].stage /\ rec.value = Evaluation!InForce(eval[e].stage)
        /\ rec = [pc |-> rec.pc, type |-> rec.type, value |-> rec.value, stale |-> rec.stale]
    BY <2>1
  <2>4. PromptRead(rec)
    BY <2>2, <2>3 DEF PromptRead
  <2> QED BY <1>11, <1>14, <2>1, <2>4 DEF Evaluation!QueryPrompt
<1>15. ASSUME NEW e \in PromptReaders, Evaluation!QueryPromptFails(e) PROVE PromptInv'
  <2>1. PICK t \in Evaluation!Types : t = eval[e].stage
    BY <1>15 DEF Evaluation!QueryPromptFails, PromptInv, PromptRead
  <2>2. PICK c : c = [value |-> Evaluation!Fallback, from |-> "error"]
    OBVIOUS
  <2>3. c = [value |-> c.value, from |-> c.from] /\ c.from # "table"
    BY <2>2
  <2>4. PICK rec : rec = Evaluation!Call(t)
    OBVIOUS
  <2>5. PromptRead(rec)
    BY <2>4 DEF PromptRead, Evaluation!Call
  <2>6. cache' = [cache EXCEPT ![t] = c] /\ eval' = [eval EXCEPT ![e] = rec] /\ UNCHANGED <<prompt, req, crossed>>
    BY <1>15, <2>1, <2>2, <2>4 DEF Evaluation!QueryPromptFails, Evaluation!To
  <2> QED BY <2>3, <2>5, <2>6, PromptEvals
<1>16. ASSUME NEW e \in PromptReaders, Evaluation!StorePrompt(e) PROVE PromptInv'
  <2>1. PICK q : q = eval[e]
    OBVIOUS
  <2>2. q.pc = "store" /\ PromptRead(q)
    BY <1>16, <2>1 DEF Evaluation!StorePrompt, PromptInv
  <2>3. PICK t \in Evaluation!Types : t = q.type
    BY <2>2 DEF PromptRead
  <2>4. PICK c : c = [value |-> q.value, from |-> IF q.stale THEN "late" ELSE "table"]
    OBVIOUS
  <2>5. c = [value |-> c.value, from |-> c.from] /\ c.value = q.value /\ (c.from = "table" => ~q.stale)
    BY <2>4
  <2>6. c.from = "table" => c.value = Evaluation!InForce(t)
    BY <2>2, <2>3, <2>5 DEF PromptRead
  <2>7. PICK rec : rec = Evaluation!Call(t)
    OBVIOUS
  <2>8. PromptRead(rec)
    BY <2>7 DEF PromptRead, Evaluation!Call
  <2>9. cache' = [cache EXCEPT ![t] = c] /\ eval' = [eval EXCEPT ![e] = rec] /\ UNCHANGED <<prompt, req, crossed>>
    BY <1>16, <2>1, <2>3, <2>4, <2>7 DEF Evaluation!StorePrompt, Evaluation!To
  <2> QED BY <2>5, <2>6, <2>8, <2>9, PromptEvals
<1>17. ASSUME NEW e \in PromptReaders, NEW how, Evaluation!To(e, Evaluation!Ended(how)), UNCHANGED <<prompt, cache, req, crossed>> PROVE PromptInv'
  <2>1. PromptRead(Evaluation!Ended(how))
    BY DEF PromptRead, Evaluation!Ended
  <2> QED BY <1>11, <1>17, <2>1
<1>18. ASSUME NEW e \in PromptReaders, Evaluation!CallFails(e) PROVE PromptInv'
  BY <1>17, <1>18 DEF Evaluation!CallFails
<1>19. ASSUME NEW e \in PromptReaders, NEW a \in Evaluation!GateAnswers, Evaluation!Gate(e, a) PROVE PromptInv'
  <2>1. UNCHANGED <<prompt, cache, req, crossed>> /\ "eval" \in Evaluation!Types
    BY <1>19 DEF Evaluation!Gate, Evaluation!Types
  <2>2. Evaluation!To(e, Evaluation!Ended("failed")) \/ Evaluation!To(e, Evaluation!Ended("decline")) \/ Evaluation!Ask(e, "eval")
    BY <1>19 DEF Evaluation!Gate
  <2> QED BY <1>12, <1>17, <2>1, <2>2
<1>20. ASSUME NEW e \in PromptReaders, NEW a \in Evaluation!EvalAnswers, Evaluation!Evaluate(e, a) PROVE PromptInv'
  BY <1>17, <1>20 DEF Evaluation!Evaluate
<1>21. CASE UNCHANGED Evaluation!vars
  <2>1. UNCHANGED <<prompt, cache, req, eval, crossed>>
    BY <1>21 DEF Evaluation!vars
  <2>2. PromptTyped' /\ (PromptCached => PromptCached')
    <3>1. \A t \in Evaluation!Types : Evaluation!InForce(t)' = Evaluation!InForce(t)
      BY <2>1, PromptSame
    <3> QED BY <2>1, <3>1 DEF PromptInv, PromptTyped, PromptFilled, PromptCached
  <2>3. PromptOne'
    BY <2>1, PromptSame DEF PromptInv
  <2>4. ASSUME NEW p \in Callers PROVE PromptAsked(req[p])'
    <3>1. PICK q : q = req[p]
      OBVIOUS
    <3>2. PromptAsked(q)' /\ q = req'[p]
      BY <2>1, <3>1, PromptSame DEF PromptInv
    <3> QED BY <3>2 DEF PromptAsked, PromptCall
  <2>5. ASSUME NEW e \in PromptReaders PROVE PromptRead(eval[e])'
    <3>1. PICK q : q = eval[e]
      OBVIOUS
    <3>2. PromptRead(q)' /\ q = eval'[e]
      BY <2>1, <3>1, PromptSame DEF PromptInv
    <3> QED BY <3>2 DEF PromptRead
  <2> QED BY <2>2, <2>3, <2>4, <2>5 DEF PromptInv
<1> QED
  BY <1>1, <1>2, <1>4, <1>7, <1>8, <1>9, <1>10, <1>13, <1>14, <1>15, <1>16, <1>18, <1>19, <1>20, <1>21 DEF Evaluation!Next

LEMMA PromptSound == PromptInv => Evaluation!PromptsSound
<1> SUFFICES ASSUME PromptInv PROVE Evaluation!PromptsSound
  OBVIOUS
<1>1. Evaluation!OneInForce
  <2> SUFFICES ASSUME NEW t \in Evaluation!Types \ crossed PROVE Cardinality(Evaluation!ActiveRows(t)) = 1
    BY DEF Evaluation!OneInForce, Evaluation!Cardinality, Cardinality
  <2>1. PICK id \in Evaluation!Rows : Evaluation!ActiveRows(t) = {id}
    BY DEF PromptInv, PromptOne
  <2> QED BY <2>1, FS_Singleton
<1>2. Evaluation!CacheCurrent
  BY DEF PromptInv, PromptCached, Evaluation!CacheCurrent
<1> QED BY <1>1, <1>2 DEF Evaluation!PromptsSound

-----------------------------------------------------------------------------
(* Proposals, leads and posts.                                             *)

Funnel == INSTANCE SalesFunnel WITH
    Requests <- Callers, Forms <- SalesForms, MaxRequests <- SalesRequests

FunnelStages == {"Draft", "Sent", "Viewed", "Replied"}
FunnelTypes == {"Bid", "Invite", "DirectMessage"}
LeadStages == {"NEW", "CONTACTED", "IN_CONVERSATION", "ON_HOLD", "WON", "LOST", "CLIENT"}
PostStages == {"DRAFT", "READY", "SCHEDULED", "PUBLISHED", "ARCHIVED"}

ProposalRows == [status : FunnelStages, type : FunnelTypes, boosted : BOOLEAN, connects : Nat, extra : Nat]
LeadRows == [status : LeadStages, held : BOOLEAN, won : BOOLEAN, born : LeadStages \union {"none"}]
PostRows == [status : PostStages, scheduledAt : BOOLEAN, publishedAt : BOOLEAN]
FunnelRows == [proposal |-> ProposalRows, lead |-> LeadRows, enquiry |-> LeadRows, post |-> PostRows]

\* A form carries some columns of its row.
FunnelLimits ==
    /\ \A f \in SalesForms["proposal"] :
          /\ "status" \in DOMAIN f => f["status"] \in FunnelStages
          /\ "type" \in DOMAIN f => f["type"] \in FunnelTypes
          /\ "boosted" \in DOMAIN f => f["boosted"] \in BOOLEAN
          /\ "connects" \in DOMAIN f => f["connects"] \in Nat
          /\ "extra" \in DOMAIN f => f["extra"] \in Nat
    /\ \A f \in SalesForms["lead"] : "status" \in DOMAIN f => f["status"] \in LeadStages
    /\ \A f \in SalesForms["enquiry"] : "status" \in DOMAIN f => f["status"] \in LeadStages
    /\ \A f \in SalesForms["post"] :
          /\ "status" \in DOMAIN f => f["status"] \in PostStages
          /\ "scheduledAt" \in DOMAIN f => f["scheduledAt"] \in BOOLEAN
          /\ "publishedAt" \in DOMAIN f => f["publishedAt"] \in BOOLEAN

FunnelTyped ==
    /\ DOMAIN row = Funnel!Kinds
    /\ \A k \in Funnel!Kinds : row[k] \in {Funnel!NoRow} \union FunnelRows[k]
    /\ idea = [status |-> idea.status, asked |-> idea.asked, loose |-> idea.loose]
    /\ DOMAIN req = Callers
    /\ raced \in SUBSET Funnel!Kinds /\ dropped \in SUBSET Funnel!Kinds

\* An update under way, w: its row is there and, unless it was overtaken, as it was
\* read; a post was checked, and a reply that was read has its lead.
FunnelUpdate(w) ==
    /\ w.kind \in Funnel!Kinds /\ Funnel!There(w.kind)
    /\ w.form \in SalesForms[w.kind] /\ w.read \in FunnelRows[w.kind] /\ w.stale \in BOOLEAN
    /\ ~w.stale => w.read = row[w.kind]
    /\ w.kind = "post" => Funnel!ValidPost(w.form, w.read)
    /\ w.kind = "proposal" /\ w.read.status = "Replied" /\ "lead" \notin dropped => Funnel!There("lead")
FunnelUpdates == \A r \in Callers : req[r].pc = "write" => FunnelUpdate(req[r])

FunnelKept == Funnel!ReplyHasLead /\ Funnel!OnlyBidsSpend /\ Funnel!LeadStamped /\ Funnel!PostDated

\* The idea of a post that is there is taken, or about to be, or it is loose; and it is as it
\* was asked to be, or converted from what waited.
FunnelTaken == Funnel!There("post") => idea.status \notin Funnel!Waiting \/ idea.loose \/ \E r \in Callers : req[r].pc = "convert"
FunnelAsked == idea.status # idea.asked => idea.status = "CONVERTED" /\ idea.asked \in Funnel!Waiting
FunnelIdea == FunnelTaken /\ FunnelAsked

FunnelInv == FunnelTyped /\ FunnelUpdates /\ FunnelKept /\ FunnelIdea

\* At first there is nothing.
LEMMA FunnelInit == Funnel!Init => FunnelInv
<1> SUFFICES ASSUME Funnel!Init PROVE FunnelInv
  OBVIOUS
<1>1. \A k \in Funnel!Kinds : row[k] = Funnel!NoRow /\ ~Funnel!There(k)
  BY DEF Funnel!Init, Funnel!There, Funnel!NoRow
<1>2. FunnelTyped
  BY <1>1 DEF Funnel!Init, FunnelTyped
<1>3. FunnelUpdates
  BY DEF Funnel!Init, FunnelUpdates, Funnel!Idle
<1>4. FunnelKept /\ FunnelIdea
  BY <1>1 DEF Funnel!Init, FunnelKept, FunnelIdea, FunnelTaken, FunnelAsked, Funnel!ReplyHasLead, Funnel!OnlyBidsSpend, Funnel!LeadStamped,
              Funnel!PostDated, Funnel!Kinds, Funnel!Leads
<1> QED BY <1>2, <1>3, <1>4 DEF FunnelInv

\* No row of a kind is "gone".
LEMMA FunnelNotGone == ASSUME NEW k \in Funnel!Kinds, NEW v \in FunnelRows[k] PROVE v.status # "gone"
<1>1. CASE k = "proposal"
  <2>1. v \in ProposalRows
    BY <1>1 DEF FunnelRows
  <2> QED BY <2>1 DEF ProposalRows, FunnelStages
<1>2. CASE k \in Funnel!Leads
  <2>1. v \in LeadRows
    BY <1>2 DEF FunnelRows, Funnel!Leads
  <2> QED BY <2>1 DEF LeadRows, LeadStages
<1>3. CASE k = "post"
  <2>1. v \in PostRows
    BY <1>3 DEF FunnelRows
  <2> QED BY <2>1 DEF PostRows, PostStages
<1> QED BY <1>1, <1>2, <1>3 DEF Funnel!Kinds, Funnel!Leads

\* A row that is there is a row of its kind.
LEMMA FunnelThere ==
  ASSUME FunnelTyped, NEW k \in Funnel!Kinds PROVE Funnel!There(k) <=> row[k] \in FunnelRows[k]
<1>1. Funnel!NoRow.status = "gone"
  BY DEF Funnel!NoRow
<1>2. \A v \in FunnelRows[k] : v.status # "gone"
  BY FunnelNotGone
<1> QED BY <1>1, <1>2 DEF FunnelTyped, Funnel!There

\* A row that is new is bound to no update, and leaves the other rows alone.
LEMMA FunnelNew ==
  ASSUME FunnelInv, NEW k \in Funnel!Kinds, k # "lead", NEW v \in FunnelRows[k], Funnel!New(k),
         row' = [row EXCEPT ![k] = v], UNCHANGED <<raced, dropped>>,
         DOMAIN req' = Callers, \A q \in Callers : req'[q] = req[q] \/ req'[q].pc = "convert",
         k = "proposal" => /\ v.status = "Draft" /\ (v.type # "Bid" => v.connects = 0 /\ v.extra = 0)
                           /\ (v.extra > 0 => v.boosted),
         k = "enquiry" => v.born = v.status,
         k = "post" => Funnel!ValidPost([status |-> v.status], v)
  PROVE  /\ DOMAIN row' = Funnel!Kinds /\ \A j \in Funnel!Kinds : row'[j] \in {Funnel!NoRow} \union FunnelRows[j]
         /\ row'[k] = v /\ \A j \in Funnel!Kinds : j # k => row'[j] = row[j]
         /\ FunnelUpdates' /\ FunnelKept'
<1>1. row'[k] = v /\ DOMAIN row' = Funnel!Kinds /\ \A j \in Funnel!Kinds : j # k => row'[j] = row[j]
  BY DEF FunnelInv, FunnelTyped
<1>2. \A j \in Funnel!Kinds : row'[j] \in {Funnel!NoRow} \union FunnelRows[j]
  BY <1>1 DEF FunnelInv, FunnelTyped
<1>3. FunnelUpdates'
  <2> SUFFICES ASSUME NEW q \in Callers, req'[q].pc = "write" PROVE FunnelUpdate(req[q])'
    BY DEF FunnelUpdates
  <2>1. req'[q] = req[q]
    OBVIOUS
  <2>2. FunnelUpdate(req[q])
    BY <2>1 DEF FunnelInv, FunnelUpdates
  <2>3. req[q].kind # k
    BY <2>2 DEF FunnelUpdate, Funnel!New
  <2> QED BY <1>1, <2>1, <2>2, <2>3 DEF FunnelUpdate, Funnel!There, Funnel!Kinds
<1>4. Funnel!ReplyHasLead'
  BY <1>1 DEF FunnelInv, FunnelKept, Funnel!ReplyHasLead, Funnel!There, Funnel!Kinds
<1>5. Funnel!OnlyBidsSpend'
  BY <1>1 DEF FunnelInv, FunnelKept, Funnel!OnlyBidsSpend, Funnel!There, Funnel!Kinds
<1>6. Funnel!LeadStamped'
  BY <1>1 DEF FunnelInv, FunnelKept, Funnel!LeadStamped, Funnel!There, Funnel!Kinds, Funnel!Leads
<1>7. Funnel!PostDated'
  BY <1>1 DEF FunnelInv, FunnelKept, Funnel!PostDated, Funnel!There, Funnel!Kinds, Funnel!ValidPost, Funnel!Of, Funnel!Carries
<1> QED BY <1>1, <1>2, <1>3, <1>4, <1>5, <1>6, <1>7 DEF FunnelKept

\* A step that leaves the rows and the idea alone but for what is named keeps the idea's part.
LEMMA FunnelIdeaKept ==
  ASSUME FunnelIdea, UNCHANGED idea, Funnel!There("post")' => Funnel!There("post"),
         \A q \in Callers : req[q].pc = "convert" => req'[q].pc = "convert"
  PROVE  FunnelIdea'
BY DEF FunnelIdea, FunnelTaken, FunnelAsked

\* The steps that bring a row of their own.
LEMMA FunnelCreates ==
  ASSUME FunnelLimits, FunnelInv, NEW r \in Callers,
         \/ \E t \in {"Bid", "Invite"}, f \in SalesForms["proposal"] : Funnel!CreateProposal(r, t, f)
         \/ \E s \in Funnel!LeadStatuses : Funnel!CreateEnquiry(r, s)
         \/ \E f \in SalesForms["post"] : Funnel!CreatePost(r, f)
  PROVE  FunnelInv'
<1>1. /\ "proposal" \in Funnel!Kinds /\ FunnelRows["proposal"] = ProposalRows
      /\ "enquiry" \in Funnel!Kinds /\ FunnelRows["enquiry"] = LeadRows
      /\ "post" \in Funnel!Kinds /\ FunnelRows["post"] = PostRows
  BY DEF Funnel!Kinds, FunnelRows
<1>2. CASE \E t \in {"Bid", "Invite"}, f \in SalesForms["proposal"] : Funnel!CreateProposal(r, t, f)
  <2>1. PICK t \in {"Bid", "Invite"}, f \in SalesForms["proposal"] : Funnel!CreateProposal(r, t, f)
    BY <1>2
  <2> DEFINE spent == Funnel!SpentConnects(f, Funnel!NewBid(t))
             v == [status |-> "Draft", type |-> Funnel!Of(f, Funnel!NewBid(t), "type"), boosted |-> spent.boosted,
                   connects |-> spent.connects, extra |-> spent.extra]
  <2>2. /\ Funnel!New("proposal") /\ row' = [row EXCEPT !["proposal"] = v]
        /\ UNCHANGED <<idea, req, raced, dropped>>
    BY <2>1 DEF Funnel!CreateProposal
  <2>3. /\ Funnel!Of(f, Funnel!NewBid(t), "type") \in FunnelTypes /\ Funnel!Of(f, Funnel!NewBid(t), "boosted") \in BOOLEAN
        /\ Funnel!Of(f, Funnel!NewBid(t), "connects") \in Nat /\ Funnel!NewBid(t).extra = 0
        /\ (Funnel!Carries(f, "extra") => f.extra \in Nat)
    BY DEF FunnelLimits, FunnelTypes, Funnel!Of, Funnel!Carries, Funnel!NewBid
  <2>4. /\ spent.boosted \in BOOLEAN /\ spent.connects \in Nat /\ spent.extra \in Nat
        /\ (Funnel!Of(f, Funnel!NewBid(t), "type") # "Bid" => spent.connects = 0 /\ spent.extra = 0)
        /\ (spent.extra > 0 => spent.boosted)
    <3>1. CASE Funnel!Of(f, Funnel!NewBid(t), "type") # "Bid"
      <4>1. spent.boosted = FALSE /\ spent.connects = 0 /\ spent.extra = 0
        BY <3>1 DEF Funnel!SpentConnects
      <4>2. spent.boosted \in BOOLEAN
        BY <4>1, Zenon
      <4> QED BY <4>1, <4>2
    <3>2. CASE Funnel!Of(f, Funnel!NewBid(t), "type") = "Bid"
      <4>1. /\ spent.boosted = Funnel!Of(f, Funnel!NewBid(t), "boosted") /\ spent.connects = Funnel!Of(f, Funnel!NewBid(t), "connects")
            /\ spent.extra = IF ~Funnel!Carries(f, "boosted") THEN 0
                             ELSE IF Funnel!Of(f, Funnel!NewBid(t), "boosted") /\ Funnel!Carries(f, "extra") THEN f.extra ELSE 0
        BY <2>3, <3>2 DEF Funnel!SpentConnects
      <4>2. spent.boosted \in BOOLEAN
        BY <2>3, <4>1, Zenon
      <4>3. spent.connects \in Nat /\ spent.extra \in Nat /\ (spent.extra > 0 => spent.boosted)
        BY <2>3, <4>1
      <4> QED BY <3>2, <4>2, <4>3
    <3> QED BY <3>1, <3>2
  <2>5. v \in ProposalRows
    <3>1. "Draft" \in FunnelStages
      BY DEF FunnelStages
    <3> HIDE DEF spent
    <3> QED BY <2>3, <2>4, <3>1 DEF ProposalRows
  <2>6. v.status = "Draft" /\ (v.type # "Bid" => v.connects = 0 /\ v.extra = 0) /\ (v.extra > 0 => v.boosted)
    <3> HIDE DEF spent
    <3> QED BY <2>4
  <2> HIDE DEF v, spent
  <2>7. /\ DOMAIN row' = Funnel!Kinds /\ \A j \in Funnel!Kinds : row'[j] \in {Funnel!NoRow} \union FunnelRows[j]
        /\ row'["proposal"] = v /\ \A j \in Funnel!Kinds : j # "proposal" => row'[j] = row[j]
        /\ FunnelUpdates' /\ FunnelKept'
    BY <1>1, <2>2, <2>5, <2>6, FunnelNew DEF FunnelInv, FunnelTyped
  <2>8. FunnelTyped'
    BY <2>2, <2>7 DEF FunnelInv, FunnelTyped
  <2>9. FunnelIdea'
    BY <1>1, <2>2, <2>7, FunnelIdeaKept DEF FunnelInv, Funnel!There
  <2> QED BY <2>7, <2>8, <2>9 DEF FunnelInv
<1>3. CASE \E s \in Funnel!LeadStatuses : Funnel!CreateEnquiry(r, s)
  <2>1. PICK s \in Funnel!LeadStatuses : Funnel!CreateEnquiry(r, s)
    BY <1>3
  <2> DEFINE v == Funnel!NewLead(s)
  <2>2. /\ Funnel!New("enquiry") /\ row' = [row EXCEPT !["enquiry"] = v]
        /\ UNCHANGED <<idea, req, raced, dropped>>
    BY <2>1 DEF Funnel!CreateEnquiry
  <2>3. v \in LeadRows /\ v.born = v.status
    BY DEF Funnel!NewLead, LeadRows, LeadStages, Funnel!LeadStatuses
  <2> HIDE DEF v
  <2>4. /\ DOMAIN row' = Funnel!Kinds /\ \A j \in Funnel!Kinds : row'[j] \in {Funnel!NoRow} \union FunnelRows[j]
        /\ row'["enquiry"] = v /\ \A j \in Funnel!Kinds : j # "enquiry" => row'[j] = row[j]
        /\ FunnelUpdates' /\ FunnelKept'
    BY <1>1, <2>2, <2>3, FunnelNew DEF FunnelInv, FunnelTyped
  <2>5. FunnelTyped'
    BY <2>2, <2>4 DEF FunnelInv, FunnelTyped
  <2>6. FunnelIdea'
    BY <1>1, <2>2, <2>4, FunnelIdeaKept DEF FunnelInv, Funnel!There
  <2> QED BY <2>4, <2>5, <2>6 DEF FunnelInv
<1>4. CASE \E f \in SalesForms["post"] : Funnel!CreatePost(r, f)
  <2>1. PICK f \in SalesForms["post"] : Funnel!CreatePost(r, f)
    BY <1>4
  <2> DEFINE v == [c \in (DOMAIN Funnel!NewPost) |-> Funnel!Of(f, Funnel!NewPost, c)]
  <2>2. /\ Funnel!New("post") /\ Funnel!ValidPost(f, Funnel!NewPost) /\ row' = [row EXCEPT !["post"] = v]
        /\ req' = [req EXCEPT ![r] = [pc |-> "convert"]] /\ UNCHANGED <<idea, raced, dropped>>
    BY <2>1 DEF Funnel!CreatePost, Funnel!Goto
  <2>3. /\ Funnel!Of(f, Funnel!NewPost, "status") \in PostStages /\ Funnel!Of(f, Funnel!NewPost, "scheduledAt") \in BOOLEAN
        /\ Funnel!Of(f, Funnel!NewPost, "publishedAt") \in BOOLEAN
    BY DEF FunnelLimits, Funnel!Of, Funnel!Carries, Funnel!NewPost, PostStages
  <2>4. v = [status |-> Funnel!Of(f, Funnel!NewPost, "status"), scheduledAt |-> Funnel!Of(f, Funnel!NewPost, "scheduledAt"),
             publishedAt |-> Funnel!Of(f, Funnel!NewPost, "publishedAt")]
    BY DEF Funnel!NewPost
  <2>5. /\ v.status = Funnel!Of(f, Funnel!NewPost, "status") /\ v.scheduledAt = Funnel!Of(f, Funnel!NewPost, "scheduledAt")
        /\ v.publishedAt = Funnel!Of(f, Funnel!NewPost, "publishedAt")
    BY <2>4
  <2> HIDE DEF v
  <2>6. v \in PostRows
    BY <2>3, <2>4 DEF PostRows
  <2>7. Funnel!ValidPost([status |-> v.status], v)
    BY <2>2, <2>5 DEF Funnel!ValidPost, Funnel!Of, Funnel!Carries
  <2>8. /\ DOMAIN req' = Callers /\ req'[r].pc = "convert"
        /\ \A q \in Callers : req'[q] = req[q] \/ req'[q].pc = "convert"
    BY <2>2 DEF FunnelInv, FunnelTyped
  <2>9. /\ DOMAIN row' = Funnel!Kinds /\ \A j \in Funnel!Kinds : row'[j] \in {Funnel!NoRow} \union FunnelRows[j]
        /\ row'["post"] = v /\ \A j \in Funnel!Kinds : j # "post" => row'[j] = row[j]
        /\ FunnelUpdates' /\ FunnelKept'
    BY <1>1, <2>2, <2>6, <2>7, <2>8, FunnelNew
  <2>10. FunnelTyped'
    BY <2>2, <2>8, <2>9 DEF FunnelInv, FunnelTyped
  <2>11. FunnelIdea'
    BY <2>2, <2>8 DEF FunnelInv, FunnelIdea, FunnelTaken, FunnelAsked
  <2> QED BY <2>9, <2>10, <2>11 DEF FunnelInv
<1> QED BY <1>2, <1>3, <1>4

\* The steps of the idea.
LEMMA FunnelIdeas ==
  ASSUME FunnelInv,
         \/ \E r \in Callers : Funnel!ConvertIdea(r) \/ Funnel!ConvertFails(r)
         \/ \E s \in Funnel!IdeaStatuses : Funnel!PatchIdea(s)
         \/ Funnel!RemoveIdea
  PROVE  FunnelInv'
<1>1. /\ UNCHANGED <<row, raced, dropped>> /\ DOMAIN req' = Callers
      /\ \A q \in Callers : req'[q] = req[q] \/ (req'[q] = Funnel!Idle /\ req[q].pc = "convert")
  BY DEF Funnel!ConvertIdea, Funnel!ConvertFails, Funnel!PatchIdea, Funnel!RemoveIdea, Funnel!Goto, FunnelInv, FunnelTyped
<1>2. FunnelUpdates'
  <2> SUFFICES ASSUME NEW q \in Callers, req'[q].pc = "write" PROVE FunnelUpdate(req[q])'
    BY DEF FunnelUpdates
  <2>1. req'[q] = req[q]
    BY <1>1 DEF Funnel!Idle
  <2> QED BY <1>1, <2>1 DEF FunnelInv, FunnelUpdates, FunnelUpdate, Funnel!There
<1>3. FunnelKept'
  BY <1>1 DEF FunnelInv, FunnelKept, Funnel!ReplyHasLead, Funnel!OnlyBidsSpend, Funnel!LeadStamped, Funnel!PostDated, Funnel!There
<1>4. idea = [status |-> idea.status, asked |-> idea.asked, loose |-> idea.loose]
  BY DEF FunnelInv, FunnelTyped
<1>5. idea' = [status |-> idea'.status, asked |-> idea'.asked, loose |-> idea'.loose] /\ FunnelIdea'
  <2>1. ASSUME NEW r \in Callers, Funnel!ConvertIdea(r)
        PROVE  idea' = [status |-> idea'.status, asked |-> idea'.asked, loose |-> idea'.loose] /\ FunnelIdea'
    <3>1. CASE idea.status \in Funnel!Waiting
      <4>1. idea' = [status |-> "CONVERTED", asked |-> idea.asked, loose |-> FALSE]
        BY <1>4, <2>1, <3>1 DEF Funnel!ConvertIdea
      <4>2. idea.asked \in Funnel!Waiting
        BY <3>1 DEF FunnelInv, FunnelIdea, FunnelAsked, Funnel!Waiting
      <4> QED BY <4>1, <4>2 DEF FunnelIdea, FunnelTaken, FunnelAsked, Funnel!Waiting
    <3>2. CASE idea.status \notin Funnel!Waiting
      <4>1. idea' = idea
        BY <2>1, <3>2 DEF Funnel!ConvertIdea
      <4> QED BY <1>4, <3>2, <4>1 DEF FunnelInv, FunnelIdea, FunnelTaken, FunnelAsked
    <3> QED BY <3>1, <3>2
  <2>2. ASSUME NEW r \in Callers, Funnel!ConvertFails(r)
        PROVE  idea' = [status |-> idea'.status, asked |-> idea'.asked, loose |-> idea'.loose] /\ FunnelIdea'
    <3>1. idea' = [status |-> idea.status, asked |-> idea.asked, loose |-> TRUE]
      BY <1>4, <2>2 DEF Funnel!ConvertFails
    <3> QED BY <3>1 DEF FunnelInv, FunnelIdea, FunnelTaken, FunnelAsked
  <2>3. ASSUME NEW s \in Funnel!IdeaStatuses, Funnel!PatchIdea(s)
        PROVE  idea' = [status |-> idea'.status, asked |-> idea'.asked, loose |-> idea'.loose] /\ FunnelIdea'
    <3>1. PICK loose : loose = (idea.loose \/ Funnel!There("post"))
      OBVIOUS
    <3>2. idea' = [status |-> s, asked |-> s, loose |-> loose]
      BY <2>3, <3>1 DEF Funnel!PatchIdea
    <3>3. Funnel!There("post")' => loose
      BY <1>1, <3>1 DEF Funnel!There
    <3> QED BY <3>2, <3>3 DEF FunnelIdea, FunnelTaken, FunnelAsked
  <2>4. ASSUME Funnel!RemoveIdea
        PROVE  idea' = [status |-> idea'.status, asked |-> idea'.asked, loose |-> idea'.loose] /\ FunnelIdea'
    <3>1. idea' = [status |-> "gone", asked |-> "gone", loose |-> idea.loose]
      BY <1>4, <2>4 DEF Funnel!RemoveIdea
    <3> QED BY <3>1 DEF FunnelIdea, FunnelTaken, FunnelAsked, Funnel!Waiting
  <2> QED BY <2>1, <2>2, <2>3, <2>4
<1>6. FunnelTyped'
  BY <1>1, <1>5 DEF FunnelInv, FunnelTyped
<1> QED BY <1>2, <1>3, <1>5, <1>6 DEF FunnelInv

\* An update reads its row.
LEMMA FunnelBegins ==
  ASSUME FunnelInv, NEW r \in Callers, NEW k \in Funnel!Kinds, NEW f \in SalesForms[k], Funnel!UpdateBegins(r, k, f)
  PROVE  FunnelInv'
<1> DEFINE w == [pc |-> "write", kind |-> k, form |-> f, read |-> row[k], stale |-> FALSE]
<1>1. /\ Funnel!There(k) /\ req[r].pc = "idle" /\ UNCHANGED <<row, idea, raced, dropped>>
      /\ \/ req' = [req EXCEPT ![r] = Funnel!Idle]
         \/ req' = [req EXCEPT ![r] = w] /\ (k = "post" => Funnel!ValidPost(f, row[k]))
  BY DEF Funnel!UpdateBegins, Funnel!Goto, Funnel!Fresh
<1>2. row[k] \in FunnelRows[k]
  BY <1>1, FunnelThere DEF FunnelInv
<1>3. FunnelUpdate(w) \/ ~(k = "post" => Funnel!ValidPost(f, row[k]))
  BY <1>1, <1>2 DEF FunnelUpdate, FunnelInv, FunnelKept, Funnel!ReplyHasLead
<1>4. PICK v : req' = [req EXCEPT ![r] = v] /\ v.pc # "convert" /\ (v.pc = "write" => FunnelUpdate(v))
  BY <1>1, <1>3 DEF Funnel!Idle
<1> HIDE DEF w
<1>5. FunnelTyped'
  BY <1>1, <1>4 DEF FunnelInv, FunnelTyped
<1>6. FunnelUpdates'
  BY <1>1, <1>4 DEF FunnelInv, FunnelTyped, FunnelUpdates, FunnelUpdate, Funnel!There
<1>7. FunnelKept'
  BY <1>1 DEF FunnelInv, FunnelKept, Funnel!ReplyHasLead, Funnel!OnlyBidsSpend, Funnel!LeadStamped, Funnel!PostDated, Funnel!There
<1>8. FunnelIdea'
  BY <1>1, <1>4 DEF FunnelInv, FunnelTyped, FunnelIdea, FunnelTaken, FunnelAsked, Funnel!There
<1> QED BY <1>5, <1>6, <1>7, <1>8 DEF FunnelInv

\* What a write does to the other updates of its row.
LEMMA FunnelOvertakes ==
  ASSUME FunnelInv, NEW r \in Callers, NEW k \in Funnel!Kinds, Funnel!Written(r, k), dropped' = dropped,
         DOMAIN row' = Funnel!Kinds, row'[k] \in FunnelRows[k], Funnel!There(k),
         \A j \in Funnel!Kinds \ {k} : row'[j] = row[j] \/ (j = "lead" /\ ~Funnel!There("lead") /\ row'[j] \in FunnelRows[j])
  PROVE  FunnelUpdates'
<1>1. \A q \in Callers : req'[q] = IF q = r THEN Funnel!Idle ELSE Funnel!Overtaken(req[q], k)
  BY DEF Funnel!Written
<1>2. \A j \in Funnel!Kinds : row'[j] \in FunnelRows[j] => row'[j].status # "gone"
  BY FunnelNotGone
<1> SUFFICES ASSUME NEW q \in Callers, req'[q].pc = "write" PROVE FunnelUpdate(req[q])'
  BY DEF FunnelUpdates
<1>3. q # r /\ req'[q] = Funnel!Overtaken(req[q], k)
  BY <1>1 DEF Funnel!Idle
<1> DEFINE w == req[q]
<1>4. /\ w.pc = "write" /\ w.kind = req'[q].kind /\ w.form = req'[q].form /\ w.read = req'[q].read
      /\ (w.kind = k => req'[q].stale = TRUE) /\ (w.kind # k => req'[q] = w)
  BY <1>3 DEF Funnel!Overtaken
<1>5. FunnelUpdate(w)
  BY <1>4 DEF FunnelInv, FunnelUpdates
<1>6. Funnel!There("lead") => Funnel!There("lead")'
  BY <1>2 DEF Funnel!There, Funnel!Kinds
<1>7. row'[w.kind].status # "gone" /\ (w.kind # k => row'[w.kind] = row[w.kind])
  <2>1. w.kind \in Funnel!Kinds /\ Funnel!There(w.kind)
    BY <1>5 DEF FunnelUpdate
  <2>2. CASE w.kind = k
    BY <1>2, <2>1, <2>2
  <2>3. CASE w.kind # k
    <3>1. row'[w.kind] = row[w.kind]
      BY <2>1, <2>3
    <3> QED BY <2>1, <3>1 DEF Funnel!There
  <2> QED BY <2>2, <2>3
<1> HIDE DEF w
<1>8. req'[q].stale \in BOOLEAN
  BY <1>4, <1>5 DEF FunnelUpdate
<1>9. ~req'[q].stale => w.kind # k /\ w.read = row'[w.kind]
  BY <1>4, <1>5, <1>7 DEF FunnelUpdate
<1>10. /\ w.kind \in Funnel!Kinds /\ w.form \in SalesForms[w.kind] /\ w.read \in FunnelRows[w.kind]
       /\ w.kind = "post" => Funnel!ValidPost(w.form, w.read)
       /\ w.kind = "proposal" /\ w.read.status = "Replied" /\ "lead" \notin dropped => Funnel!There("lead")
  BY <1>5 DEF FunnelUpdate
<1> QED BY <1>4, <1>6, <1>7, <1>8, <1>9, <1>10 DEF FunnelUpdate, Funnel!There

\* What a form makes of a proposal.
LEMMA FunnelSpends ==
  ASSUME FunnelLimits, NEW f \in SalesForms["proposal"], NEW read \in ProposalRows, NEW old \in ProposalRows,
         NEW next, next = [status |-> Funnel!Of(f, old, "status"), type |-> Funnel!Of(f, old, "type"),
            boosted |-> IF "boosted" \in Funnel!BidColumns(f, read) THEN Funnel!SpentConnects(f, read)["boosted"] ELSE old["boosted"],
            connects |-> IF "connects" \in Funnel!BidColumns(f, read) THEN Funnel!SpentConnects(f, read)["connects"] ELSE old["connects"],
            extra |-> IF "extra" \in Funnel!BidColumns(f, read) THEN Funnel!SpentConnects(f, read)["extra"] ELSE old["extra"]]
  PROVE  /\ next \in ProposalRows
         /\ read = old /\ (old.type # "Bid" => old.connects = 0 /\ old.extra = 0) /\ (old.extra > 0 => old.boosted)
            => (next.type # "Bid" => next.connects = 0 /\ next.extra = 0) /\ (next.extra > 0 => next.boosted)
<1>1. /\ Funnel!Of(f, old, "status") \in FunnelStages /\ Funnel!Of(f, old, "type") \in FunnelTypes
      /\ Funnel!Of(f, read, "boosted") \in BOOLEAN /\ Funnel!Of(f, read, "connects") \in Nat /\ Funnel!Of(f, read, "type") \in FunnelTypes
      /\ read.extra \in Nat /\ (Funnel!Carries(f, "extra") => f.extra \in Nat)
      /\ old.boosted \in BOOLEAN /\ old.connects \in Nat /\ old.extra \in Nat
  BY DEF FunnelLimits, Funnel!Of, Funnel!Carries, ProposalRows
<1>2. CASE Funnel!Of(f, read, "type") # "Bid"
  <2>1. {"boosted", "connects", "extra"} \subseteq Funnel!BidColumns(f, read)
    BY <1>2 DEF Funnel!BidColumns
  <2>2. next.boosted = FALSE /\ next.connects = 0 /\ next.extra = 0 /\ next.type = Funnel!Of(f, old, "type")
        /\ next.status = Funnel!Of(f, old, "status")
    BY <1>2, <2>1 DEF Funnel!SpentConnects
  <2>3. next = [status |-> next.status, type |-> next.type, boosted |-> next.boosted, connects |-> next.connects, extra |-> next.extra]
    OBVIOUS
  <2>4. next.boosted \in BOOLEAN /\ next.connects \in Nat /\ next.extra \in Nat
    <3>1. next.boosted \in BOOLEAN
      BY <2>2, Zenon
    <3>2. next.connects \in Nat /\ next.extra \in Nat
      BY <2>2
    <3> QED BY <3>1, <3>2
  <2>5. next \in ProposalRows
    BY <1>1, <2>2, <2>3, <2>4 DEF ProposalRows
  <2> QED BY <2>2, <2>5
<1>3. CASE Funnel!Of(f, read, "type") = "Bid"
  <2>1. /\ "boosted" \in Funnel!BidColumns(f, read) <=> Funnel!Carries(f, "boosted")
        /\ "connects" \in Funnel!BidColumns(f, read) <=> Funnel!Carries(f, "connects")
        /\ "extra" \in Funnel!BidColumns(f, read) <=> Funnel!Carries(f, "boosted")
    BY <1>3 DEF Funnel!BidColumns, Funnel!Carries
  <2>2. /\ next.boosted = IF Funnel!Carries(f, "boosted") THEN Funnel!Of(f, read, "boosted") ELSE old.boosted
        /\ next.connects = IF Funnel!Carries(f, "connects") THEN Funnel!Of(f, read, "connects") ELSE old.connects
        /\ next.type = Funnel!Of(f, old, "type") /\ next.status = Funnel!Of(f, old, "status")
    BY <1>3, <2>1 DEF Funnel!SpentConnects
  <2>3. next.extra = IF Funnel!Carries(f, "boosted")
                     THEN (IF Funnel!Of(f, read, "boosted") /\ Funnel!Carries(f, "extra") THEN f.extra ELSE 0)
                     ELSE old.extra
    BY <1>3, <2>1 DEF Funnel!SpentConnects
  <2>4. next.boosted \in BOOLEAN /\ next.connects \in Nat /\ next.extra \in Nat
    BY <1>1, <2>2, <2>3
  <2>5. next = [status |-> next.status, type |-> next.type, boosted |-> next.boosted, connects |-> next.connects, extra |-> next.extra]
    OBVIOUS
  <2>6. next \in ProposalRows
    BY <1>1, <2>2, <2>4, <2>5 DEF ProposalRows
  <2>7. ASSUME read = old, old.extra > 0 => old.boosted PROVE next.type = "Bid" /\ (next.extra > 0 => next.boosted)
    BY <1>1, <1>3, <2>2, <2>3, <2>7
  <2> QED BY <2>6, <2>7
<1> QED BY <1>2, <1>3

\* An update of row k that has been written: types, and the idea of a post.
LEMMA FunnelWritten ==
  ASSUME FunnelInv, NEW r \in Callers, NEW k \in Funnel!Kinds, Funnel!Written(r, k), req[r].pc = "write", UNCHANGED <<idea, dropped>>,
         DOMAIN row' = Funnel!Kinds, \A j \in Funnel!Kinds : row'[j] \in {Funnel!NoRow} \union FunnelRows[j],
         Funnel!There("post")' => Funnel!There("post")
  PROVE  FunnelTyped' /\ FunnelIdea'
<1>1. \A q \in Callers : req'[q] = IF q = r THEN Funnel!Idle ELSE Funnel!Overtaken(req[q], k)
  BY DEF Funnel!Written
<1>2. DOMAIN req' = Callers /\ raced' \in SUBSET Funnel!Kinds
  BY DEF Funnel!Written, FunnelInv, FunnelTyped
<1>3. FunnelTyped'
  BY <1>2 DEF FunnelInv, FunnelTyped
<1>4. ASSUME NEW q \in Callers, req[q].pc = "convert" PROVE req'[q].pc = "convert"
  BY <1>1, <1>4 DEF Funnel!Overtaken
<1>5. FunnelIdea'
  BY <1>4, FunnelIdeaKept DEF FunnelInv
<1> QED BY <1>3, <1>5

\* An update that was refused has left everything as it was.
LEMMA FunnelRefused ==
  ASSUME FunnelInv, NEW r \in Callers, req[r].pc = "write", Funnel!Goto(r, Funnel!Idle), UNCHANGED <<row, idea, raced, dropped>>
  PROVE  FunnelInv'
<1>1. req' = [req EXCEPT ![r] = Funnel!Idle]
  BY DEF Funnel!Goto
<1>2. FunnelTyped'
  BY <1>1 DEF FunnelInv, FunnelTyped
<1>3. FunnelUpdates'
  BY <1>1 DEF FunnelInv, FunnelTyped, FunnelUpdates, FunnelUpdate, Funnel!Idle, Funnel!There
<1>4. FunnelKept'
  BY DEF FunnelInv, FunnelKept, Funnel!ReplyHasLead, Funnel!OnlyBidsSpend, Funnel!LeadStamped, Funnel!PostDated, Funnel!There
<1>5. FunnelIdea'
  BY <1>1 DEF FunnelInv, FunnelTyped, FunnelIdea, FunnelTaken, FunnelAsked, Funnel!There
<1> QED BY <1>2, <1>3, <1>4, <1>5 DEF FunnelInv

\* The update of a proposal.
LEMMA FunnelWriteProposal ==
  ASSUME FunnelLimits, FunnelInv, NEW r \in Callers, req[r].pc = "write", req[r].kind = "proposal",
         Funnel!WriteProposal(r, "proposal"), UNCHANGED <<idea, dropped>>
  PROVE  FunnelInv'
<1> DEFINE f == req[r].form
           read == req[r].read
           old == row["proposal"]
           next == [status |-> Funnel!Of(f, old, "status"), type |-> Funnel!Of(f, old, "type"),
              boosted |-> IF "boosted" \in Funnel!BidColumns(f, read) THEN Funnel!SpentConnects(f, read)["boosted"] ELSE old["boosted"],
              connects |-> IF "connects" \in Funnel!BidColumns(f, read) THEN Funnel!SpentConnects(f, read)["connects"] ELSE old["connects"],
              extra |-> IF "extra" \in Funnel!BidColumns(f, read) THEN Funnel!SpentConnects(f, read)["extra"] ELSE old["extra"]]
           opens == Funnel!OpensLead(f, read)
<1>1. FunnelUpdate(req[r])
  BY DEF FunnelInv, FunnelUpdates
<1>2. "proposal" \in Funnel!Kinds /\ "lead" \in Funnel!Kinds /\ "post" \in Funnel!Kinds /\ "enquiry" \in Funnel!Kinds
  BY DEF Funnel!Kinds
<1>3. /\ f \in SalesForms["proposal"] /\ read \in ProposalRows /\ old \in ProposalRows /\ Funnel!There("proposal")
      /\ (~req[r].stale => read = old)
      /\ (read.status = "Replied" /\ "lead" \notin dropped => Funnel!There("lead"))
  <2>1. FunnelRows["proposal"] = ProposalRows
    BY DEF FunnelRows
  <2>2. Funnel!There("proposal")
    BY <1>1 DEF FunnelUpdate
  <2>3. old \in ProposalRows
    BY <1>2, <2>1, <2>2, FunnelThere DEF FunnelInv
  <2> QED BY <1>1, <2>1, <2>2, <2>3 DEF FunnelUpdate
<1>4. CASE opens /\ Funnel!There("lead")
  <2>1. Funnel!Goto(r, Funnel!Idle) /\ UNCHANGED <<row, raced>>
    BY <1>4 DEF Funnel!WriteProposal
  <2> QED BY <2>1, FunnelRefused
<1>5. CASE ~(opens /\ Funnel!There("lead"))
  <2>1. /\ row' = [row EXCEPT !["proposal"] = next, !["lead"] = IF opens THEN Funnel!NewLead("NEW") ELSE @]
        /\ Funnel!Written(r, "proposal")
    BY <1>5 DEF Funnel!WriteProposal
  <2>2. /\ next \in ProposalRows
        /\ read = old /\ (old.type # "Bid" => old.connects = 0 /\ old.extra = 0) /\ (old.extra > 0 => old.boosted)
           => (next.type # "Bid" => next.connects = 0 /\ next.extra = 0) /\ (next.extra > 0 => next.boosted)
    BY <1>3, FunnelSpends
  <2>3. next.status = IF Funnel!Carries(f, "status") THEN f.status ELSE old.status
    BY DEF Funnel!Of
  <2>4. opens <=> Funnel!Carries(f, "status") /\ f.status = "Replied" /\ read.status # "Replied"
    BY DEF Funnel!OpensLead
  <2> HIDE DEF next, opens
  <2>5. /\ DOMAIN row' = Funnel!Kinds /\ row'["proposal"] = next /\ row'["post"] = row["post"] /\ row'["enquiry"] = row["enquiry"]
        /\ row'["lead"] = IF opens THEN Funnel!NewLead("NEW") ELSE row["lead"]
    BY <1>2, <2>1 DEF FunnelInv, FunnelTyped
  <2>6. Funnel!NewLead("NEW") \in LeadRows /\ Funnel!NewLead("NEW").status = "NEW"
    BY DEF Funnel!NewLead, LeadRows, LeadStages
  <2>7. FunnelRows["proposal"] = ProposalRows /\ FunnelRows["lead"] = LeadRows
    BY DEF FunnelRows
  <2>8. \A j \in Funnel!Kinds : row'[j] \in {Funnel!NoRow} \union FunnelRows[j]
    BY <2>2, <2>5, <2>6, <2>7 DEF FunnelInv, FunnelTyped, Funnel!Kinds
  <2>9. \A j \in Funnel!Kinds \ {"proposal"} : row'[j] = row[j] \/ (j = "lead" /\ ~Funnel!There("lead") /\ row'[j] \in FunnelRows[j])
    BY <1>5, <2>5, <2>6, <2>7 DEF Funnel!Kinds
  <2>10. Funnel!There("post")' => Funnel!There("post")
    BY <2>5 DEF Funnel!There
  <2>11. FunnelTyped' /\ FunnelIdea'
    BY <1>2, <2>1, <2>5, <2>8, <2>10, FunnelWritten
  <2>12. FunnelUpdates'
    BY <1>2, <1>3, <2>1, <2>2, <2>5, <2>7, <2>9, FunnelOvertakes
  <2>13. Funnel!There("lead")' <=> opens \/ Funnel!There("lead")
    BY <2>5, <2>6 DEF Funnel!There
  <2>14. Funnel!ReplyHasLead'
    <3>1. next.status = "Replied" /\ "lead" \notin dropped => opens \/ Funnel!There("lead")
      BY <1>3, <2>3, <2>4 DEF FunnelInv, FunnelKept, Funnel!ReplyHasLead
    <3> QED BY <2>5, <2>13, <3>1 DEF Funnel!ReplyHasLead
  <2>15. Funnel!OnlyBidsSpend'
    <3> SUFFICES ASSUME "proposal" \notin raced'
                 PROVE  (next.type # "Bid" => next.connects = 0 /\ next.extra = 0) /\ (next.extra > 0 => next.boosted)
      BY <2>5 DEF Funnel!OnlyBidsSpend
    <3>1. "proposal" \notin raced /\ ~req[r].stale
      BY <2>1 DEF Funnel!Written
    <3> QED BY <1>3, <2>2, <3>1 DEF FunnelInv, FunnelKept, Funnel!OnlyBidsSpend
  <2>16. Funnel!LeadStamped'
    <3>1. \A k \in Funnel!Leads : k \notin raced' => k \notin raced
      BY <2>1 DEF Funnel!Written, Funnel!Leads
    <3> QED BY <2>5, <2>6, <2>13, <3>1 DEF FunnelInv, FunnelKept, Funnel!LeadStamped, Funnel!Leads, Funnel!There
  <2>17. Funnel!PostDated'
    <3>1. "post" \notin raced' => "post" \notin raced
      BY <2>1 DEF Funnel!Written
    <3> QED BY <2>5, <2>10, <3>1 DEF FunnelInv, FunnelKept, Funnel!PostDated, Funnel!ValidPost, Funnel!Of, Funnel!Carries, Funnel!There
  <2> QED BY <2>11, <2>12, <2>14, <2>15, <2>16, <2>17 DEF FunnelInv, FunnelKept
<1> QED BY <1>4, <1>5

\* The update of a lead.
LEMMA FunnelWriteLead ==
  ASSUME FunnelLimits, FunnelInv, NEW r \in Callers, NEW k \in Funnel!Leads, req[r].pc = "write", req[r].kind = k,
         Funnel!WriteLead(r, k), UNCHANGED <<idea, dropped>>
  PROVE  FunnelInv'
<1> DEFINE f == req[r].form
           read == req[r].read
           old == row[k]
           next == [status |-> Funnel!Of(f, old, "status"),
                    born |-> IF Funnel!Of(f, old, "status") = old.status THEN old.born ELSE "none",
                    held |-> old.held \/ Funnel!Becomes(f, read, "ON_HOLD"), won |-> old.won \/ Funnel!Becomes(f, read, "WON")]
<1>1. FunnelUpdate(req[r])
  BY DEF FunnelInv, FunnelUpdates
<1>2. "proposal" \in Funnel!Kinds /\ k \in Funnel!Kinds /\ "post" \in Funnel!Kinds /\ FunnelRows[k] = LeadRows /\ k \notin {"proposal", "post"}
  BY DEF Funnel!Kinds, Funnel!Leads, FunnelRows
<1>3. Funnel!There(k) /\ f \in SalesForms[k] /\ read \in LeadRows /\ (~req[r].stale => read = old)
  BY <1>1, <1>2 DEF FunnelUpdate
<1>4. old \in LeadRows
  BY <1>2, <1>3, FunnelThere DEF FunnelInv
<1>5. row' = [row EXCEPT ![k] = next] /\ Funnel!Written(r, k)
  BY DEF Funnel!WriteLead
<1>6. next \in LeadRows
  <2>1. Funnel!Of(f, old, "status") \in LeadStages /\ old.born \in LeadStages \union {"none"}
    BY <1>3, <1>4 DEF FunnelLimits, Funnel!Of, Funnel!Carries, LeadRows, Funnel!Leads
  <2>2. (old.held \/ Funnel!Becomes(f, read, "ON_HOLD")) \in BOOLEAN /\ (old.won \/ Funnel!Becomes(f, read, "WON")) \in BOOLEAN
    BY Zenon
  <2> QED BY <2>1, <2>2, Zenon DEF LeadRows
<1>7. next.status = (IF Funnel!Carries(f, "status") THEN f.status ELSE old.status)
  BY DEF Funnel!Of
<1>8. next.held <=> old.held \/ Funnel!Becomes(f, read, "ON_HOLD")
  OBVIOUS
<1>19. next.status = old.status => next.born = old.born
  OBVIOUS
<1>9. next.won <=> old.won \/ Funnel!Becomes(f, read, "WON")
  OBVIOUS
<1> HIDE DEF next
<1>10. DOMAIN row' = Funnel!Kinds /\ row'[k] = next /\ row'["proposal"] = row["proposal"] /\ row'["post"] = row["post"]
       /\ \A j \in Funnel!Kinds : j # k => row'[j] = row[j]
  BY <1>2, <1>5 DEF FunnelInv, FunnelTyped
<1>11. \A j \in Funnel!Kinds : row'[j] \in {Funnel!NoRow} \union FunnelRows[j]
  BY <1>2, <1>6, <1>10 DEF FunnelInv, FunnelTyped
<1>12. \A j \in Funnel!Kinds \ {k} : row'[j] = row[j]
  BY <1>10
<1>13. FunnelTyped' /\ FunnelIdea'
  BY <1>2, <1>5, <1>10, <1>11, FunnelWritten DEF Funnel!There
<1>14. FunnelUpdates'
  BY <1>2, <1>3, <1>5, <1>6, <1>10, <1>12, FunnelOvertakes
<1>15. \A j \in {"proposal", "post"} : j \notin raced' => j \notin raced
  BY <1>5 DEF Funnel!Written
<1>16. next.status # "gone"
  BY <1>6 DEF LeadRows, LeadStages
<1>17. Funnel!OnlyBidsSpend' /\ Funnel!PostDated'
  BY <1>3, <1>7, <1>10, <1>15, <1>16 DEF FunnelInv, FunnelKept, Funnel!OnlyBidsSpend, Funnel!PostDated, Funnel!ValidPost, Funnel!Of, Funnel!Carries, Funnel!There
<1>20. Funnel!ReplyHasLead'
  <2>1. Funnel!There("lead") => Funnel!There("lead")'
    BY <1>10, <1>16 DEF Funnel!There, Funnel!Kinds
  <2> QED BY <1>10, <2>1 DEF FunnelInv, FunnelKept, Funnel!ReplyHasLead, Funnel!There
<1>18. Funnel!LeadStamped'
  <2>1. ASSUME k \notin raced'
        PROVE  /\ next.status = "WON" => next.won \/ next.born = "WON"
               /\ next.status = "ON_HOLD" => next.held \/ next.born = "ON_HOLD"
    <3>1. k \notin raced /\ read = old
      BY <1>3, <1>5, <2>1 DEF Funnel!Written
    <3>2. (old.status = "WON" => old.won \/ old.born = "WON") /\ (old.status = "ON_HOLD" => old.held \/ old.born = "ON_HOLD")
      BY <1>3, <3>1 DEF FunnelInv, FunnelKept, Funnel!LeadStamped
    <3> QED BY <1>7, <1>8, <1>9, <1>19, <3>1, <3>2 DEF Funnel!Becomes
  <2>2. \A j \in Funnel!Leads : j \in Funnel!Kinds /\ (j \notin raced' => j \notin raced)
    BY <1>5 DEF Funnel!Written, Funnel!Leads, Funnel!Kinds
  <2>3. ASSUME NEW j \in Funnel!Leads, Funnel!There(j)', j \notin raced'
        PROVE  /\ row'[j].status = "WON" => row'[j].won \/ row'[j].born = "WON"
               /\ row'[j].status = "ON_HOLD" => row'[j].held \/ row'[j].born = "ON_HOLD"
    <3>1. CASE j = k
      BY <1>10, <2>1, <2>3, <3>1
    <3>2. CASE j # k
      <4>1. row'[j] = row[j] /\ j \notin raced
        BY <1>10, <2>2, <2>3, <3>2
      <4> QED BY <2>3, <4>1 DEF FunnelInv, FunnelKept, Funnel!LeadStamped, Funnel!There
    <3> QED BY <3>1, <3>2
  <2> QED BY <2>3 DEF Funnel!LeadStamped
<1> QED BY <1>13, <1>14, <1>17, <1>18, <1>20 DEF FunnelInv, FunnelKept

\* The update of a post.
LEMMA FunnelWritePost ==
  ASSUME FunnelLimits, FunnelInv, NEW r \in Callers, req[r].pc = "write", req[r].kind = "post",
         Funnel!WritePost(r, "post"), UNCHANGED <<idea, dropped>>
  PROVE  FunnelInv'
<1> DEFINE f == req[r].form
           read == req[r].read
           old == row["post"]
           next == [c \in DOMAIN old |-> Funnel!Of(f, old, c)]
<1>1. FunnelUpdate(req[r])
  BY DEF FunnelInv, FunnelUpdates
<1>2. "proposal" \in Funnel!Kinds /\ "lead" \in Funnel!Kinds /\ "post" \in Funnel!Kinds /\ Funnel!Leads \subseteq Funnel!Kinds \ {"post"} /\ FunnelRows["post"] = PostRows
  BY DEF Funnel!Kinds, Funnel!Leads, FunnelRows
<1>3. Funnel!There("post") /\ f \in SalesForms["post"] /\ read \in PostRows /\ (~req[r].stale => read = old) /\ Funnel!ValidPost(f, read)
  BY <1>1, <1>2 DEF FunnelUpdate
<1>4. old \in PostRows
  BY <1>2, <1>3, FunnelThere DEF FunnelInv
<1>5. row' = [row EXCEPT !["post"] = next] /\ Funnel!Written(r, "post")
  BY DEF Funnel!WritePost
<1>6. next = [status |-> Funnel!Of(f, old, "status"), scheduledAt |-> Funnel!Of(f, old, "scheduledAt"), publishedAt |-> Funnel!Of(f, old, "publishedAt")]
  <2>1. DOMAIN old = {"status", "scheduledAt", "publishedAt"}
    BY <1>4 DEF PostRows
  <2> QED BY <2>1
<1>7. next \in PostRows
  <2>1. Funnel!Of(f, old, "status") \in PostStages /\ Funnel!Of(f, old, "scheduledAt") \in BOOLEAN /\ Funnel!Of(f, old, "publishedAt") \in BOOLEAN
    BY <1>3, <1>4 DEF FunnelLimits, Funnel!Of, Funnel!Carries, PostRows
  <2> HIDE DEF next
  <2> QED BY <1>6, <2>1 DEF PostRows
<1>8. next.status = Funnel!Of(f, old, "status") /\ next.scheduledAt = Funnel!Of(f, old, "scheduledAt") /\ next.publishedAt = Funnel!Of(f, old, "publishedAt")
  BY <1>6
<1> HIDE DEF next
<1>9. DOMAIN row' = Funnel!Kinds /\ row'["post"] = next /\ row'["proposal"] = row["proposal"] /\ \A j \in Funnel!Leads : row'[j] = row[j]
  BY <1>2, <1>5 DEF FunnelInv, FunnelTyped
<1>10. \A j \in Funnel!Kinds : row'[j] \in {Funnel!NoRow} \union FunnelRows[j]
  BY <1>2, <1>7, <1>9 DEF FunnelInv, FunnelTyped, Funnel!Kinds, Funnel!Leads
<1>11. \A j \in Funnel!Kinds \ {"post"} : row'[j] = row[j]
  BY <1>9 DEF Funnel!Kinds, Funnel!Leads
<1>12. FunnelTyped' /\ FunnelIdea'
  BY <1>2, <1>3, <1>5, <1>9, <1>10, FunnelWritten
<1>13. FunnelUpdates'
  BY <1>2, <1>3, <1>5, <1>7, <1>9, <1>11, FunnelOvertakes
<1>14. \A j \in {"proposal"} \union Funnel!Leads : j \notin raced' => j \notin raced
  BY <1>5 DEF Funnel!Written, Funnel!Leads
<1>15. Funnel!ReplyHasLead' /\ Funnel!OnlyBidsSpend' /\ Funnel!LeadStamped'
  BY <1>9, <1>14 DEF FunnelInv, FunnelKept, Funnel!ReplyHasLead, Funnel!OnlyBidsSpend, Funnel!LeadStamped, Funnel!There, Funnel!Leads
<1>16. Funnel!PostDated'
  <2> SUFFICES ASSUME "post" \notin raced'
               PROVE  (next.status = "SCHEDULED" => next.scheduledAt) /\ (next.status = "PUBLISHED" => next.publishedAt)
    BY <1>9 DEF Funnel!PostDated, Funnel!ValidPost, Funnel!Of, Funnel!Carries
  <2>1. read = old
    BY <1>3, <1>5 DEF Funnel!Written
  <2> QED BY <1>3, <1>8, <2>1 DEF Funnel!ValidPost
<1> QED BY <1>12, <1>13, <1>15, <1>16 DEF FunnelInv, FunnelKept

\* A row is deleted, and the updates of it end.
LEMMA FunnelRemove ==
  ASSUME FunnelInv, NEW k \in Funnel!Kinds, Funnel!Remove(k) PROVE FunnelInv'
<1>1. /\ row' = [row EXCEPT ![k] = Funnel!NoRow] /\ dropped' = dropped \union {k} /\ UNCHANGED <<idea, raced>>
      /\ DOMAIN req' = Callers
      /\ \A q \in Callers : req'[q] = IF req[q].pc = "write" /\ req[q].kind = k THEN Funnel!Idle ELSE req[q]
  BY DEF Funnel!Remove
<1>2. DOMAIN row' = Funnel!Kinds /\ row'[k] = Funnel!NoRow /\ \A j \in Funnel!Kinds : j # k => row'[j] = row[j]
  BY <1>1 DEF FunnelInv, FunnelTyped
<1>3. Funnel!NoRow.status = "gone" /\ Funnel!Idle.pc = "idle"
  BY DEF Funnel!NoRow, Funnel!Idle
<1>4. FunnelTyped'
  BY <1>1, <1>2 DEF FunnelInv, FunnelTyped
<1>5. FunnelUpdates'
  <2> SUFFICES ASSUME NEW q \in Callers, req'[q].pc = "write" PROVE FunnelUpdate(req[q])'
    BY DEF FunnelUpdates
  <2>1. req'[q] = req[q] /\ req[q].kind # k
    BY <1>1, <1>3
  <2>2. FunnelUpdate(req[q])
    BY <2>1 DEF FunnelInv, FunnelUpdates
  <2>3. "lead" \in Funnel!Kinds /\ ("lead" \notin dropped' => k # "lead" /\ "lead" \notin dropped)
    BY <1>1 DEF Funnel!Kinds
  <2> QED BY <1>2, <2>1, <2>2, <2>3 DEF FunnelUpdate, Funnel!There
<1>6. Funnel!ReplyHasLead'
  BY <1>1, <1>2, <1>3 DEF FunnelInv, FunnelKept, Funnel!ReplyHasLead, Funnel!There, Funnel!Kinds
<1>7. Funnel!OnlyBidsSpend' /\ Funnel!LeadStamped'
  BY <1>1, <1>2, <1>3 DEF FunnelInv, FunnelKept, Funnel!OnlyBidsSpend, Funnel!LeadStamped, Funnel!There, Funnel!Kinds, Funnel!Leads
<1>8. Funnel!PostDated'
  BY <1>1, <1>2, <1>3 DEF FunnelInv, FunnelKept, Funnel!PostDated, Funnel!ValidPost, Funnel!Of, Funnel!Carries, Funnel!There, Funnel!Kinds
<1>9. FunnelIdea'
  <2>1. Funnel!There("post")' => Funnel!There("post")
    BY <1>2, <1>3 DEF Funnel!There, Funnel!Kinds
  <2>2. \A q \in Callers : req[q].pc = "convert" => req'[q].pc = "convert"
    BY <1>1
  <2> QED BY <1>1, <2>1, <2>2, FunnelIdeaKept DEF FunnelInv
<1> QED BY <1>4, <1>5, <1>6, <1>7, <1>8, <1>9 DEF FunnelInv, FunnelKept

\* Every step keeps the invariant.
LEMMA FunnelStep == ASSUME FunnelLimits PROVE FunnelInv /\ [Funnel!Next]_(Funnel!vars) => FunnelInv'
<1> SUFFICES ASSUME FunnelInv, [Funnel!Next]_(Funnel!vars) PROVE FunnelInv'
  OBVIOUS
<1>1. ASSUME NEW r \in Callers,
             \/ \E t \in {"Bid", "Invite"}, f \in SalesForms["proposal"] : Funnel!CreateProposal(r, t, f)
             \/ \E st \in Funnel!LeadStatuses : Funnel!CreateEnquiry(r, st)
             \/ \E f \in SalesForms["post"] : Funnel!CreatePost(r, f)
      PROVE  FunnelInv'
  BY <1>1, FunnelCreates
<1>2. ASSUME \/ \E r \in Callers : Funnel!ConvertIdea(r) \/ Funnel!ConvertFails(r)
             \/ \E st \in Funnel!IdeaStatuses : Funnel!PatchIdea(st)
             \/ Funnel!RemoveIdea
      PROVE  FunnelInv'
  BY <1>2, FunnelIdeas
<1>3. ASSUME NEW k \in Funnel!Kinds, Funnel!Remove(k) PROVE FunnelInv'
  BY <1>3, FunnelRemove
<1>4. ASSUME NEW r \in Callers, NEW k \in Funnel!Kinds, NEW f \in SalesForms[k], Funnel!UpdateBegins(r, k, f) PROVE FunnelInv'
  BY <1>4, FunnelBegins
<1>5. ASSUME NEW r \in Callers, Funnel!Write(r) PROVE FunnelInv'
  <2>1. req[r].pc = "write" /\ UNCHANGED <<idea, dropped>>
    BY <1>5 DEF Funnel!Write
  <2>2. \/ req[r].kind = "proposal" /\ Funnel!WriteProposal(r, "proposal")
        \/ \E k \in Funnel!Leads : req[r].kind = k /\ Funnel!WriteLead(r, k)
        \/ req[r].kind = "post" /\ Funnel!WritePost(r, "post")
    BY <1>5 DEF Funnel!Write
  <2> QED BY <2>1, <2>2, FunnelWriteProposal, FunnelWriteLead, FunnelWritePost
<1>6. CASE UNCHANGED Funnel!vars
  BY <1>6 DEF Funnel!vars, FunnelInv, FunnelTyped, FunnelUpdates, FunnelUpdate, Funnel!There, FunnelKept, Funnel!ReplyHasLead,
              Funnel!OnlyBidsSpend, Funnel!LeadStamped, Funnel!PostDated, FunnelIdea, FunnelTaken, FunnelAsked
<1> QED BY <1>1, <1>2, <1>3, <1>4, <1>5, <1>6 DEF Funnel!Next

\* What the invariant says of the funnel.
LEMMA FunnelSound == FunnelInv => Funnel!SalesFunnelSound
<1> SUFFICES ASSUME FunnelInv PROVE Funnel!SalesFunnelSound
  OBVIOUS
<1>1. Funnel!IdeaTaken
  BY DEF FunnelInv, FunnelIdea, FunnelTaken, FunnelAsked, Funnel!IdeaTaken
<1> QED BY <1>1 DEF FunnelInv, FunnelKept, Funnel!SalesFunnelSound

-----------------------------------------------------------------------------
(* Restores.                                                               *)

Scratch == INSTANCE ScratchRestore WITH
    MaxStarts <- RestoreStarts, MaxChanges <- RestoreChanges,
    MaxFaults <- RestoreFaults, Targets <- ScratchTargets

\* The steps at which the script can stand, and what it knows there.
ScratchPoints == {"artifact", "manifest", "check", "restore", "smoke", "audit", "failed", "clean"}
ScratchJobs == [pc : ScratchPoints, to : ScratchTargets \union {Scratch!NoTarget}, confirm : {t.name : t \in ScratchTargets} \union {Scratch!None},
                file : {"good", "bad", Scratch!None}, manifest : Scratch!Manifests]

\* The script and what it counts by; a restore knows its target, which is allowed, and has
\* the very file that was verified.
ScratchTyped ==
    /\ row \in [st : {"VERIFIED", "FAILED"}, sum : {"good", Scratch!None}]
    /\ job \in {Scratch!Idle} \union ScratchJobs
    /\ bucket \in [artifact : {"good", "bad", Scratch!Missing}, manifest : Scratch!Manifests \union {[artifact |-> Scratch!Missing, sum |-> Scratch!Missing]}]
    /\ held \in [ScratchTargets -> SUBSET {"other tables", "good", "bad", Scratch!None}]
    /\ code \in [Scratch!Starts -> {-1, 0, 1}]
    /\ begun \in 0..RestoreStarts
    /\ job # Scratch!Idle => begun \in Scratch!Starts /\ row.st = "VERIFIED" /\ row.sum = "good"
    /\ job.pc \in {"restore", "smoke", "audit"} => job.to \in ScratchTargets /\ Scratch!Allowed(job.to) /\ job.file = row.sum

\* What has been restored: by a start that is known, into an allowed database, whole.
ScratchTouched ==
    \A t \in touched :
        /\ t.n \in 1..begun /\ t.db \in ScratchTargets /\ Scratch!Allowed(t.db)
        /\ row.st = "VERIFIED" /\ t.held = row.sum /\ row.sum \in held[t.db]
\* The start at work has restored nothing yet, or has restored into its target.
ScratchNow ==
    /\ job.pc \in {"artifact", "manifest", "check", "restore"} => \A t \in touched : t.n # begun
    /\ \A n \in Scratch!Starts : n > begun => code[n] # 0
    /\ job.pc \notin {"idle", "clean"} => code[begun] # 0
    /\ job.pc \in {"smoke", "audit"} => \E t \in touched : t.n = begun /\ t.db = job.to
\* Success is entered and answered for a restore that took place.
ScratchTrue ==
    /\ \A t \in touched : code[t.n] = 0 => \E a \in audit : a.n = t.n /\ a.result = "SUCCESS"
    /\ \A a \in audit : a.result = "SUCCESS" => \E t \in touched : t.n = a.n /\ t.db = a.db
\* A start that has restored is heard of, or is still at work.
ScratchHeard ==
    \A t \in touched :
        \/ t.n \in unheard
        \/ \E a \in audit : a.n = t.n
        \/ t.n = begun /\ job.pc \notin {"idle", "clean"}
\* The key of the backend stays on a developer's machine, and a file has a start to remove it.
ScratchClean ==
    /\ key = "runtime" => env.app = "local"
    /\ \A f \in scratch : f.n \in unheard \/ (f.n = begun /\ job.pc # "idle")

ScratchInv == ScratchTyped /\ ScratchTouched /\ ScratchNow /\ ScratchTrue /\ ScratchHeard /\ ScratchClean

\* The bound of the starts is a number.
ScratchLimits == RestoreStarts \in Nat

LEMMA ScratchInit == ASSUME ScratchLimits PROVE Scratch!Init => ScratchInv
<1> SUFFICES ASSUME Scratch!Init PROVE ScratchInv
  OBVIOUS
<1>1. row \in [st : {"VERIFIED", "FAILED"}, sum : {"good", Scratch!None}]
  BY DEF Scratch!Init
<1>2. bucket \in [artifact : {"good", "bad", Scratch!Missing}, manifest : Scratch!Manifests \union {[artifact |-> Scratch!Missing, sum |-> Scratch!Missing]}]
  BY DEF Scratch!Init, Scratch!Own, Scratch!Manifests
<1>3. held \in [ScratchTargets -> SUBSET {"other tables", "good", "bad", Scratch!None}]
  <2>1. PICK tables \in {{}, {"other tables"}} : held = [t \in ScratchTargets |-> tables]
    BY DEF Scratch!Init
  <2> QED BY <2>1
<1>4. code \in [Scratch!Starts -> {-1, 0, 1}]
  BY DEF Scratch!Init
<1>5. begun \in 0..RestoreStarts
  <2>1. begun = 0
    BY DEF Scratch!Init
  <2> QED BY <2>1, ScratchLimits DEF ScratchLimits
<1>6. \A n \in Scratch!Starts : code[n] # 0
  <2>1. code = [n \in Scratch!Starts |-> -1]
    BY DEF Scratch!Init
  <2>2. -1 # 0
    OBVIOUS
  <2> QED BY <2>1, <2>2
<1>7. begun = 0 /\ touched = {} /\ audit = {} /\ scratch = {} /\ key = Scratch!None /\ job.pc = "idle" /\ job = Scratch!Idle
  BY DEF Scratch!Init, Scratch!Idle
<1>8. ScratchNow
  BY <1>6, <1>7 DEF ScratchNow
<1> QED
  BY <1>1, <1>2, <1>3, <1>4, <1>5, <1>7, <1>8
     DEF ScratchInv, ScratchTyped, ScratchTouched, ScratchTrue, ScratchHeard, ScratchClean, Scratch!None

\* The script goes on to another point.
LEMMA ScratchGoes ==
  ASSUME job \in {Scratch!Idle} \union ScratchJobs, job.pc # "idle", NEW pc \in ScratchPoints, Scratch!To(pc)
  PROVE  /\ job' \in ScratchJobs /\ job'.pc = pc /\ job'.to = job.to /\ job'.confirm = job.confirm
         /\ job'.file = job.file /\ job'.manifest = job.manifest /\ job' # Scratch!Idle
<1>1. job \in ScratchJobs
  BY DEF Scratch!Idle
<1>2. /\ job' \in ScratchJobs /\ job'.pc = pc /\ job'.to = job.to /\ job'.confirm = job.confirm
      /\ job'.file = job.file /\ job'.manifest = job.manifest
  BY <1>1 DEF ScratchJobs, Scratch!To
<1> QED BY <1>2 DEF Scratch!Idle, ScratchPoints

\* A dump is restored by the start at work.
LEMMA ScratchRestored ==
  ASSUME ScratchLimits, ScratchInv, job.pc = "restore", UNCHANGED <<row, begun>>, Scratch!Restored(job.to, job.file)
  PROVE  /\ held' \in [ScratchTargets -> SUBSET {"other tables", "good", "bad", Scratch!None}]
         /\ ScratchTouched'
         /\ \A t \in touched' \ touched : t.n = begun
         /\ \E t \in touched' : t.n = begun /\ t.db = job.to
         /\ touched \subseteq touched'
<1>0. job # Scratch!Idle
  <2>1. Scratch!Idle.pc = "idle"
    BY DEF Scratch!Idle
  <2> QED BY <2>1
<1>1. job \in ScratchJobs /\ begun \in Scratch!Starts /\ row.st = "VERIFIED" /\ job.to \in ScratchTargets /\ Scratch!Allowed(job.to)
      /\ job.file = row.sum /\ row.sum = "good"
  BY <1>0 DEF ScratchInv, ScratchTyped
<1>2. held' \in [ScratchTargets -> SUBSET {"other tables", "good", "bad", Scratch!None}]
  BY <1>1 DEF ScratchInv, ScratchTyped, Scratch!Restored
<1>3. PICK new : new = [n |-> begun, db |-> job.to, held |-> job.file]
  OBVIOUS
<1>4. new.n = begun /\ new.db = job.to /\ new.held = job.file /\ touched' = touched \union {new}
  BY <1>3 DEF Scratch!Restored
<1>5. \A x \in ScratchTargets : held[x] \subseteq held'[x]
  BY <1>1 DEF ScratchInv, ScratchTyped, Scratch!Restored
<1>6. row.sum \in held'[job.to]
  BY <1>1 DEF ScratchInv, ScratchTyped, Scratch!Restored
<1>7. begun \in 1..begun
  BY <1>1, ScratchLimits DEF Scratch!Starts, ScratchLimits
<1>8. ScratchTouched'
  <2> SUFFICES ASSUME NEW t \in touched'
               PROVE  (/\ t.n \in 1..begun /\ t.db \in ScratchTargets /\ Scratch!Allowed(t.db)
                       /\ row.st = "VERIFIED" /\ t.held = row.sum /\ row.sum \in held'[t.db])
    BY DEF ScratchTouched
  <2>1. CASE t \in touched
    BY <2>1, <1>5 DEF ScratchInv, ScratchTouched
  <2>2. CASE t = new
    BY <2>2, <1>1, <1>4, <1>6, <1>7
  <2> QED BY <2>1, <2>2, <1>4
<1> QED BY <1>2, <1>4, <1>8

LEMMA ScratchStep == ASSUME ScratchLimits PROVE ScratchInv /\ [Scratch!Next]_(Scratch!vars) => ScratchInv'
<1> SUFFICES ASSUME ScratchInv, [Scratch!Next]_(Scratch!vars) PROVE ScratchInv'
  OBVIOUS
<1> USE DEF ScratchInv
<1>0. job \in {Scratch!Idle} \union ScratchJobs /\ (job.pc # "idle" => job # Scratch!Idle) /\ Scratch!Idle.pc = "idle"
      /\ (job.pc = "idle" => job = Scratch!Idle) /\ (job # Scratch!Idle => job.pc # "idle")
  <2>1. Scratch!Idle.pc = "idle"
    BY DEF Scratch!Idle
  <2>2. job \in {Scratch!Idle} \union ScratchJobs
    BY DEF ScratchTyped
  <2>3. job \in ScratchJobs => job.pc \in ScratchPoints
    BY DEF ScratchJobs
  <2>4. "idle" \notin ScratchPoints
    BY DEF ScratchPoints
  <2> QED BY <2>1, <2>2, <2>3, <2>4
<1>00. begun \in Nat /\ begun <= RestoreStarts /\ (begun # 0 => begun \in Scratch!Starts) /\ \A t \in touched : t.n \in Scratch!Starts /\ t.n <= begun
  <2>1. begun \in 0..RestoreStarts
    BY DEF ScratchTyped
  <2>2. \A n \in 1..begun : n \in Scratch!Starts /\ n <= begun
    BY <2>1, ScratchLimits DEF Scratch!Starts, ScratchLimits
  <2>3. begun \in Nat /\ begun <= RestoreStarts /\ (begun # 0 => begun \in Scratch!Starts)
    BY <2>1, ScratchLimits DEF Scratch!Starts, ScratchLimits
  <2> QED BY <2>2, <2>3 DEF ScratchTouched
<1>1. ASSUME NEW to \in ScratchTargets \union {Scratch!NoTarget}, NEW confirm \in {t.name : t \in ScratchTargets} \union {Scratch!None}, Scratch!Start(to, confirm)
      PROVE ScratchInv'
  <2>1. PICK new : new = [pc |-> "artifact", to |-> to, confirm |-> confirm, file |-> Scratch!None, manifest |-> Scratch!Own]
    OBVIOUS
  <2>2. new \in ScratchJobs /\ new.pc = "artifact" /\ new # Scratch!Idle
    BY <2>1 DEF ScratchJobs, ScratchPoints, Scratch!Own, Scratch!Manifests, Scratch!Idle
  <2>3. begun' \in 1..RestoreStarts /\ begun' = begun + 1
    <3>1. begun < RestoreStarts /\ begun' = begun + 1
      BY <1>1 DEF Scratch!Start
    <3> QED BY <3>1, <1>00, ScratchLimits DEF ScratchLimits
  <2>4. \/ job' = new /\ code' = code /\ row.st = "VERIFIED" /\ row.sum # Scratch!None
        \/ job' = job /\ code' = [code EXCEPT ![begun + 1] = 1]
    BY <1>1, <2>1 DEF Scratch!Start
  <2>5. UNCHANGED <<row, bucket, env, changes, held, scratch, audit, key, faults, touched, unheard>> /\ job = Scratch!Idle
    BY <1>1, <1>0 DEF Scratch!Start, Scratch!store
  <2>6. \A t \in touched : t.n \in 1..begun /\ t.n # begun' /\ t.n \in 1..begun'
    <3>2. \A n \in 1..begun : n # begun' /\ n \in 1..begun'
      BY <2>3, <1>00
    <3> QED BY <3>2 DEF ScratchTouched
  <2>7. ScratchTyped'
    <3>1. code' \in [Scratch!Starts -> {-1, 0, 1}]
      BY <2>4 DEF ScratchTyped
    <3>2. begun' \in 0..RestoreStarts
      BY <2>3, ScratchLimits DEF ScratchLimits
    <3>3. job' \in {Scratch!Idle} \union ScratchJobs
      BY <2>2, <2>4, <2>5
    <3>4. job' # Scratch!Idle => begun' \in Scratch!Starts /\ row.st = "VERIFIED" /\ row.sum = "good"
      BY <2>3, <2>4, <2>5 DEF Scratch!Starts, ScratchTyped, Scratch!None
    <3>5. job'.pc \notin {"restore", "smoke", "audit"}
      BY <2>2, <2>4, <2>5, <1>0
    <3> QED BY <2>5, <3>1, <3>2, <3>3, <3>4, <3>5 DEF ScratchTyped
  <2>8. ScratchTouched'
    BY <2>5, <2>6 DEF ScratchTouched
  <2>9. ScratchNow'
    <3>1. \A n \in Scratch!Starts : n > begun' => code'[n] # 0
      <4>1. \A n \in Scratch!Starts : n > begun' => n > begun /\ n # begun + 1
        BY <2>3, <1>00 DEF Scratch!Starts
      <4> QED BY <2>4, <4>1 DEF ScratchNow, ScratchTyped
    <3>2. job' = new => code'[begun'] # 0
      BY <2>2, <2>3, <2>4, <2>5, <1>00 DEF ScratchNow, Scratch!Starts
    <3> QED BY <2>2, <2>4, <2>5, <2>6, <3>1, <3>2, <1>0 DEF ScratchNow
  <2>10. ScratchTrue'
    <3>1. \A t \in touched : code'[t.n] = code[t.n]
      <4>1. \A n \in 1..begun : n # begun + 1
        BY <1>00
      <4>2. CASE code' = code
        BY <4>2
      <4>3. CASE code' = [code EXCEPT ![begun + 1] = 1]
        <5>1. \A n \in Scratch!Starts : n # begun + 1 => code'[n] = code[n]
          BY <4>3 DEF ScratchTyped
        <5> QED BY <2>6, <4>1, <5>1, <1>00
      <4> QED BY <2>4, <4>2, <4>3
    <3> QED BY <2>5, <3>1 DEF ScratchTrue
  <2>11. ScratchHeard' /\ ScratchClean'
    BY <2>5, <1>0 DEF ScratchHeard, ScratchClean
  <2> QED BY <2>7, <2>8, <2>9, <2>10, <2>11
<1>2. CASE Scratch!FetchArtifact
  <2>1. job.pc = "artifact" /\ job # Scratch!Idle /\ job \in ScratchJobs /\ key' = Scratch!KeyOf(env)
        /\ UNCHANGED <<row, bucket, env, changes, held, audit, code, begun, touched, unheard>>
    BY <1>2, <1>0 DEF Scratch!FetchArtifact, Scratch!store
  <2>2. job' \in ScratchJobs /\ job' # Scratch!Idle /\ job'.pc \in {"manifest", "failed"} /\ job'.to = job.to
    <3>1. CASE Scratch!To("failed")
      BY <2>1, <3>1, <1>0, ScratchGoes DEF ScratchPoints
    <3>2. CASE bucket.artifact # Scratch!Missing /\ job' = [job EXCEPT !.pc = "manifest", !.file = bucket.artifact]
      <4>1. bucket.artifact \in {"good", "bad", Scratch!None}
        BY <3>2 DEF ScratchTyped
      <4> QED BY <3>2, <4>1, <2>1 DEF ScratchJobs, ScratchPoints, Scratch!Idle
    <3> QED BY <1>2, <3>1, <3>2 DEF Scratch!FetchArtifact
  <2>3. \A f \in scratch' : f \in scratch \/ f.n = begun
    BY <1>2 DEF Scratch!FetchArtifact
  <2>4. ScratchTyped'
    BY <2>1, <2>2 DEF ScratchTyped
  <2>5. ScratchTouched' /\ ScratchNow' /\ ScratchTrue' /\ ScratchHeard'
    BY <2>1, <2>2 DEF ScratchTouched, ScratchNow, ScratchTrue, ScratchHeard
  <2>6. Scratch!KeyOf(env) = "runtime" => env.app = "local"
    BY DEF Scratch!KeyOf, Scratch!None
  <2>7. ScratchClean'
    BY <2>1, <2>2, <2>3, <2>6 DEF ScratchClean
  <2> QED BY <2>4, <2>5, <2>7
<1>3. CASE Scratch!FetchManifest
  <2>1. job.pc = "manifest" /\ job # Scratch!Idle /\ job \in ScratchJobs
        /\ UNCHANGED <<row, bucket, env, changes, held, audit, code, key, begun, touched, unheard>>
    BY <1>3, <1>0 DEF Scratch!FetchManifest, Scratch!store, Scratch!past
  <2>2. job' \in ScratchJobs /\ job' # Scratch!Idle /\ job'.pc \in {"check", "failed"} /\ job'.to = job.to
    <3>1. CASE Scratch!To("failed")
      BY <2>1, <3>1, <1>0, ScratchGoes DEF ScratchPoints
    <3>2. CASE bucket.manifest.sum # Scratch!Missing /\ job' = [job EXCEPT !.pc = "check", !.manifest = bucket.manifest]
      <4>1. bucket.manifest # [artifact |-> Scratch!Missing, sum |-> Scratch!Missing]
        BY <3>2
      <4>2. bucket.manifest \in Scratch!Manifests
        BY <4>1 DEF ScratchTyped
      <4> QED BY <3>2, <4>2, <2>1 DEF ScratchJobs, ScratchPoints, Scratch!Idle
    <3> QED BY <1>3, <3>1, <3>2 DEF Scratch!FetchManifest
  <2>3. \A f \in scratch' : f \in scratch \/ f.n = begun
    BY <1>3 DEF Scratch!FetchManifest
  <2>4. ScratchTyped'
    BY <2>1, <2>2 DEF ScratchTyped
  <2>5. ScratchTouched' /\ ScratchNow' /\ ScratchTrue' /\ ScratchHeard'
    BY <2>1, <2>2 DEF ScratchTouched, ScratchNow, ScratchTrue, ScratchHeard
  <2>7. ScratchClean'
    BY <2>1, <2>2, <2>3 DEF ScratchClean
  <2> QED BY <2>4, <2>5, <2>7
<1>4. CASE Scratch!Check
  <2>1. job.pc = "check" /\ job # Scratch!Idle /\ job \in ScratchJobs
        /\ UNCHANGED <<row, bucket, env, changes, held, scratch, audit, key, begun, touched, unheard>>
    BY <1>4, <1>0 DEF Scratch!Check, Scratch!store
  <2>2. PICK pc \in {"failed", "clean", "restore"} :
           /\ Scratch!To(pc) /\ (code' = code \/ (pc = "clean" /\ code' = [code EXCEPT ![begun] = 0]))
           /\ pc = "restore" => Scratch!Matches(job) /\ job.to # Scratch!NoTarget /\ Scratch!Allowed(job.to)
    BY <1>4 DEF Scratch!Check
  <2>3. job' \in ScratchJobs /\ job' # Scratch!Idle /\ job'.pc = pc /\ job'.to = job.to /\ job'.file = job.file
    BY <2>1, <2>2, <1>0, ScratchGoes DEF ScratchPoints
  <2>4. ScratchTyped'
    <3>1. code' \in [Scratch!Starts -> {-1, 0, 1}]
      BY <2>2 DEF ScratchTyped
    <3>2. pc = "restore" => job.to \in ScratchTargets /\ Scratch!Allowed(job.to) /\ job.file = row.sum
      BY <2>1, <2>2 DEF Scratch!Matches, ScratchJobs
    <3> QED BY <2>1, <2>2, <2>3, <3>1, <3>2 DEF ScratchTyped
  <2>5. \A t \in touched : t.n # begun
    BY <2>1 DEF ScratchNow
  <2>6. ScratchTouched' /\ ScratchNow' /\ ScratchHeard'
    <3>1. (pc # "clean" => code' = code) /\ \A n \in Scratch!Starts : n # begun => code'[n] = code[n]
      BY <2>2 DEF ScratchTyped
    <3>2. \A n \in Scratch!Starts : n > begun => n # begun
      BY <1>00 DEF Scratch!Starts
    <3> QED BY <2>1, <2>2, <2>3, <2>5, <3>1, <3>2 DEF ScratchTouched, ScratchNow, ScratchHeard
  <2>7. ScratchTrue'
    <3>1. \A t \in touched : code'[t.n] = code[t.n]
      BY <2>2, <2>5, <1>00 DEF ScratchTyped
    <3> QED BY <2>1, <3>1 DEF ScratchTrue
  <2>8. ScratchClean'
    BY <2>1, <2>2, <2>3 DEF ScratchClean
  <2> QED BY <2>4, <2>6, <2>7, <2>8
<1>5. CASE Scratch!Restore
  <2>1. job.pc = "restore" /\ job # Scratch!Idle /\ job \in ScratchJobs
        /\ UNCHANGED <<row, bucket, env, changes, scratch, audit, code, key, begun, unheard>>
    BY <1>5, <1>0 DEF Scratch!Restore, Scratch!store
  <2>2. CASE Scratch!Restored(job.to, job.file) /\ Scratch!To("smoke")
    <3>1. job' \in ScratchJobs /\ job' # Scratch!Idle /\ job'.pc = "smoke" /\ job'.to = job.to /\ job'.file = job.file
      BY <2>1, <2>2, <1>0, ScratchGoes DEF ScratchPoints
    <3>2. /\ held' \in [ScratchTargets -> SUBSET {"other tables", "good", "bad", Scratch!None}]
          /\ ScratchTouched'
          /\ \A t \in touched' \ touched : t.n = begun
          /\ \E t \in touched' : t.n = begun /\ t.db = job.to
          /\ touched \subseteq touched'
      BY <2>1, <2>2, ScratchRestored
    <3>3. ScratchTyped'
      BY <2>1, <3>1, <3>2 DEF ScratchTyped, Scratch!Allowed
    <3>4. ScratchNow' /\ ScratchHeard' /\ ScratchClean'
      BY <2>1, <3>1, <3>2 DEF ScratchNow, ScratchHeard, ScratchClean
    <3>5. ScratchTrue'
      <4>1. code[begun] # 0
        BY <2>1 DEF ScratchNow
      <4> QED BY <2>1, <3>2, <4>1 DEF ScratchTrue
    <3> QED BY <3>2, <3>3, <3>4, <3>5
  <2>3. CASE UNCHANGED <<held, touched>> /\ Scratch!To("failed")
    <3>1. job' \in ScratchJobs /\ job' # Scratch!Idle /\ job'.pc = "failed" /\ job'.to = job.to /\ job'.file = job.file
      BY <2>1, <2>3, <1>0, ScratchGoes DEF ScratchPoints
    <3>2. ScratchTyped'
      BY <2>1, <2>3, <3>1 DEF ScratchTyped
    <3> QED BY <2>1, <2>3, <3>1, <3>2 DEF ScratchTouched, ScratchNow, ScratchTrue, ScratchHeard, ScratchClean
  <2> QED BY <1>5, <2>2, <2>3 DEF Scratch!Restore
<1>6. CASE Scratch!Smoke
  <2>1. job.pc = "smoke" /\ job # Scratch!Idle /\ job \in ScratchJobs
        /\ UNCHANGED <<row, bucket, env, changes, held, scratch, audit, code, key, begun, touched, unheard>>
    BY <1>6, <1>0 DEF Scratch!Smoke, Scratch!store, Scratch!past
  <2>2. PICK pc \in {"failed", "audit"} : Scratch!To(pc)
    BY <1>6 DEF Scratch!Smoke
  <2>3. job' \in ScratchJobs /\ job' # Scratch!Idle /\ job'.pc = pc /\ job'.to = job.to /\ job'.file = job.file
    BY <2>1, <2>2, <1>0, ScratchGoes DEF ScratchPoints
  <2>4. ScratchTyped'
    BY <2>1, <2>2, <2>3 DEF ScratchTyped, Scratch!Allowed
  <2> QED BY <2>1, <2>2, <2>3, <2>4 DEF ScratchTouched, ScratchNow, ScratchTrue, ScratchHeard, ScratchClean
<1>7. CASE Scratch!AuditSuccess
  <2>1. job.pc = "audit" /\ job # Scratch!Idle /\ job \in ScratchJobs
        /\ UNCHANGED <<row, bucket, env, changes, held, scratch, key, begun, touched, unheard>>
    BY <1>7, <1>0 DEF Scratch!AuditSuccess, Scratch!store
  <2>2. PICK pc \in {"failed", "clean"} :
           /\ Scratch!To(pc)
           /\ \/ Scratch!Entry("SUCCESS", job.to) /\ code' \in {code, [code EXCEPT ![begun] = 0]}
              \/ audit' = audit /\ code' = code /\ pc = "failed"
           /\ pc = "failed" => code' = code
    BY <1>7 DEF Scratch!AuditSuccess
  <2>3. job' \in ScratchJobs /\ job' # Scratch!Idle /\ job'.pc = pc /\ job'.to = job.to /\ job'.file = job.file
    BY <2>1, <2>2, <1>0, ScratchGoes DEF ScratchPoints
  <2>4. ScratchTyped'
    <3>1. code' \in [Scratch!Starts -> {-1, 0, 1}]
      BY <2>2 DEF ScratchTyped
    <3> QED BY <2>1, <2>2, <2>3, <3>1 DEF ScratchTyped
  <2>5. PICK done \in touched : done.n = begun /\ done.db = job.to
    BY <2>1 DEF ScratchNow
  <2>6. PICK new : new = [n |-> begun, result |-> "SUCCESS", db |-> job.to]
    OBVIOUS
  <2>7. new.n = begun /\ new.result = "SUCCESS" /\ new.db = job.to
    BY <2>6
  <2>8. audit \subseteq audit' /\ (audit' = audit \/ audit' = audit \union {new})
    BY <2>2, <2>6 DEF Scratch!Entry
  <2>9. (audit' = audit /\ code' = code /\ pc = "failed") \/ new \in audit'
    BY <2>2, <2>6 DEF Scratch!Entry
  <2>10. ScratchTrue'
    <3>1. \A a \in audit' : a.result = "SUCCESS" => \E t \in touched : t.n = a.n /\ t.db = a.db
      BY <2>5, <2>7, <2>8 DEF ScratchTrue
    <3>2. \A t \in touched : t.n # begun => code'[t.n] = code[t.n]
      BY <2>2, <1>00 DEF ScratchTyped
    <3>3. \A t \in touched : code'[t.n] = 0 => \E a \in audit' : a.n = t.n /\ a.result = "SUCCESS"
      <4> SUFFICES ASSUME NEW t \in touched, code'[t.n] = 0 PROVE \E a \in audit' : a.n = t.n /\ a.result = "SUCCESS"
        OBVIOUS
      <4>1. CASE code'[t.n] = code[t.n]
        BY <4>1, <2>8 DEF ScratchTrue
      <4>2. CASE code'[t.n] # code[t.n]
        BY <4>2, <3>2, <2>7, <2>8, <2>9
      <4> QED BY <4>1, <4>2
    <3> QED BY <2>1, <3>1, <3>3 DEF ScratchTrue
  <2>11. ScratchTouched' /\ ScratchNow' /\ ScratchClean'
    <3>1. \A n \in Scratch!Starts : n # begun => code'[n] = code[n]
      BY <2>2 DEF ScratchTyped
    <3>2. \A n \in Scratch!Starts : n > begun => n # begun
      BY <1>00 DEF Scratch!Starts
    <3> QED BY <2>1, <2>2, <2>3, <3>1, <3>2 DEF ScratchTouched, ScratchNow, ScratchClean
  <2>12. ScratchHeard'
    BY <2>1, <2>2, <2>3, <2>7, <2>8, <2>9 DEF ScratchHeard
  <2> QED BY <2>4, <2>10, <2>11, <2>12
<1>8. CASE Scratch!AuditFailure
  <2>1. job.pc = "failed" /\ job # Scratch!Idle /\ job \in ScratchJobs /\ Scratch!To("clean") /\ code' = [code EXCEPT ![begun] = 1]
        /\ UNCHANGED <<row, bucket, env, changes, held, scratch, key, begun, touched>>
    BY <1>8, <1>0 DEF Scratch!AuditFailure, Scratch!store
  <2>2. job' \in ScratchJobs /\ job' # Scratch!Idle /\ job'.pc = "clean" /\ job'.to = job.to /\ job'.file = job.file
    BY <2>1, <1>0, ScratchGoes DEF ScratchPoints
  <2>3. PICK new : new = [n |-> begun, result |-> "FAILED", db |-> Scratch!NoTarget]
    OBVIOUS
  <2>4. new.n = begun /\ new.result = "FAILED"
    BY <2>3
  <2>5. \/ audit' = audit \union {new} /\ unheard' = unheard
        \/ unheard' = unheard \union {begun} /\ audit' = audit
    BY <1>8, <2>3 DEF Scratch!AuditFailure, Scratch!Caught, Scratch!Entry
  <2>6. ScratchTyped'
    <3>1. code' \in [Scratch!Starts -> {-1, 0, 1}]
      BY <2>1 DEF ScratchTyped
    <3> QED BY <2>1, <2>2, <3>1 DEF ScratchTyped
  <2>7. ScratchTouched' /\ ScratchNow'
    <3>1. \A n \in Scratch!Starts : n > begun => n # begun
      BY <1>00 DEF Scratch!Starts
    <3> QED BY <2>1, <2>2, <3>1 DEF ScratchTouched, ScratchNow, ScratchTyped
  <2>8. ScratchTrue'
    <3>1. \A t \in touched : code'[t.n] = 0 => code[t.n] = 0
      <4>1. \A n \in Scratch!Starts : code'[n] = code[n] \/ code'[n] = 1
        BY <2>1 DEF ScratchTyped
      <4> QED BY <4>1, <1>00
    <3> QED BY <2>1, <2>4, <2>5, <3>1 DEF ScratchTrue
  <2>9. ScratchHeard' /\ ScratchClean'
    BY <2>1, <2>2, <2>4, <2>5 DEF ScratchHeard, ScratchClean
  <2> QED BY <2>6, <2>7, <2>8, <2>9
<1>9. CASE Scratch!Clean
  <2>1. job.pc = "clean" /\ job' = Scratch!Idle /\ scratch' = {f \in scratch : f.n # begun}
        /\ UNCHANGED <<row, bucket, env, changes, held, audit, faults, code, key, begun, touched, unheard>>
    BY <1>9 DEF Scratch!Clean, Scratch!store, Scratch!past
  <2>2. ScratchTyped'
    BY <2>1, <1>0 DEF ScratchTyped
  <2> QED BY <2>1, <2>2, <1>0 DEF ScratchTouched, ScratchNow, ScratchTrue, ScratchHeard, ScratchClean
<1>10. CASE Scratch!Kill
  <2>1. job # Scratch!Idle /\ job' = Scratch!Idle /\ unheard' = unheard \union {begun} /\ begun \in Scratch!Starts
        /\ UNCHANGED <<row, bucket, env, changes, scratch, audit, code, key, begun>>
    BY <1>10, <1>0 DEF Scratch!Kill, Scratch!store, ScratchTyped
  <2>2. CASE job.pc = "restore" /\ Scratch!Restored(job.to, job.file)
    <3>1. /\ held' \in [ScratchTargets -> SUBSET {"other tables", "good", "bad", Scratch!None}]
          /\ ScratchTouched'
          /\ \A t \in touched' \ touched : t.n = begun
          /\ touched \subseteq touched'
      BY <2>1, <2>2, ScratchRestored
    <3>2. ScratchTyped'
      BY <2>1, <3>1, <1>0 DEF ScratchTyped
    <3>3. ScratchNow' /\ ScratchHeard' /\ ScratchClean'
      BY <2>1, <3>1, <1>0 DEF ScratchNow, ScratchHeard, ScratchClean
    <3>4. ScratchTrue'
      <4>1. code[begun] # 0
        BY <2>2 DEF ScratchNow
      <4> QED BY <2>1, <3>1, <4>1 DEF ScratchTrue
    <3> QED BY <3>1, <3>2, <3>3, <3>4
  <2>3. CASE UNCHANGED <<held, touched>>
    <3>1. ScratchTyped'
      BY <2>1, <2>3, <1>0 DEF ScratchTyped
    <3> QED BY <2>1, <2>3, <3>1, <1>0 DEF ScratchTouched, ScratchNow, ScratchTrue, ScratchHeard, ScratchClean
  <2> QED BY <1>10, <2>2, <2>3 DEF Scratch!Kill
<1>11. CASE Scratch!BucketChanges
  <2>1. UNCHANGED <<row, env, held, job, scratch, audit, faults, code, key, begun, touched, unheard>>
    BY <1>11 DEF Scratch!BucketChanges, Scratch!past
  <2>2. bucket' \in [artifact : {"good", "bad", Scratch!Missing}, manifest : Scratch!Manifests \union {[artifact |-> Scratch!Missing, sum |-> Scratch!Missing]}]
    BY <1>11 DEF Scratch!BucketChanges, ScratchTyped
  <2>3. ScratchTyped'
    BY <2>1, <2>2 DEF ScratchTyped
  <2> QED BY <2>1, <2>3 DEF ScratchTouched, ScratchNow, ScratchTrue, ScratchHeard, ScratchClean
<1>12. CASE UNCHANGED Scratch!vars
  <2>1. ScratchTyped'
    BY <1>12 DEF Scratch!vars, ScratchTyped
  <2> QED BY <1>12, <2>1 DEF Scratch!vars, ScratchTouched, ScratchNow, ScratchTrue, ScratchHeard, ScratchClean
<1> QED
  BY <1>1, <1>2, <1>3, <1>4, <1>5, <1>6, <1>7, <1>8, <1>9, <1>10, <1>11, <1>12 DEF Scratch!Next

LEMMA ScratchSound == ScratchInv => Scratch!RestoreSafe
<1> SUFFICES ASSUME ScratchInv PROVE Scratch!RestoreSafe
  OBVIOUS
<1>1. Scratch!OnlyScratch
  BY DEF ScratchInv, ScratchTouched, Scratch!OnlyScratch, Scratch!Allowed, Scratch!Local, Scratch!Hostname
<1>2. Scratch!RestoredIsVerified /\ Scratch!SuccessIsTrue /\ Scratch!TouchedIsAudited /\ Scratch!NothingLeaks
  BY DEF ScratchInv, ScratchTouched, ScratchTrue, ScratchHeard, ScratchClean, Scratch!RestoredIsVerified, Scratch!SuccessIsTrue,
         Scratch!TouchedIsAudited, Scratch!NothingLeaks
<1> QED BY <1>1, <1>2 DEF Scratch!RestoreSafe

-----------------------------------------------------------------------------
(* Settings.                                                               *)

Config == INSTANCE Settings WITH
    Requests <- Callers, Patches <- SettingPatches,
    MaxRequests <- SettingRequests, MaxFaults <- SettingFaults

\* What a request at work knows: a fill that nobody overtook has the value of today, a PATCH
\* past its check does not turn on a flag that it saw off, and a locked read holds.
ConfigAsked(q) ==
    /\ q.pc = "fill" =>
          /\ q = [pc |-> q.pc, key |-> q.key, value |-> q.value, late |-> q.late]
          /\ q.key \in Config!Keys /\ q.late \in BOOLEAN /\ (q.late = FALSE => q.value = Config!Resolved(q.key))
    /\ q.pc \in {"create", "write"} =>
          /\ q = [pc |-> q.pc, todo |-> q.todo, before |-> q.before]
          /\ ~(q.todo[1][1] = "flag" /\ q.before = "off" /\ q.todo[1][2] = "on")
    /\ q.pc = "hold" =>
          /\ q = [pc |-> q.pc, locked |-> q.locked, saw |-> q.saw, patched |-> q.patched]
          /\ q.locked \in BOOLEAN /\ q.patched \in BOOLEAN
          /\ q.locked = TRUE /\ q.saw # Config!Resolved("flag") => q.patched = TRUE

\* A request that is about to drop the entry of a key.
ConfigDrops(q, k) == (q.pc = "drop" /\ q.todo[1][1] = k) \/ (q.pc = "invalidate" /\ k = "flag")
ConfigCached(k) ==
    cache[k] \notin {"none", Config!Resolved(k)} => k \in late \/ \E r \in Callers : ConfigDrops(req[r], k)

ConfigInv ==
    /\ value = [k \in Config!Keys |-> value[k]] /\ cache = [k \in Config!Keys |-> cache[k]]
    /\ req = [r \in Callers |-> req[r]] /\ faults \in Nat
    /\ \A k \in Config!Keys : ConfigCached(k)
    /\ Config!NotBypassed /\ Config!SuccessIsWritten
    /\ \A r \in Callers : ConfigAsked(req[r])

LEMMA ConfigRests == Config!Idle.pc = "idle" /\ ConfigAsked(Config!Idle)
  BY DEF Config!Idle, ConfigAsked

LEMMA ConfigInit == Config!Init => ConfigInv
<1> SUFFICES ASSUME Config!Init PROVE ConfigInv
  OBVIOUS
<1>1. /\ value = [k \in Config!Keys |-> IF k = "flag" THEN "none" ELSE "bad"]
      /\ cache = [k \in Config!Keys |-> "none"] /\ req = [r \in Callers |-> Config!Idle] /\ faults = 0
      /\ raised = "never" /\ skipped = {}
  BY DEF Config!Init, Config!Keys
<1>2. \A r \in Callers : ConfigAsked(req[r])
  BY <1>1, ConfigRests
<1>3. \A k \in Config!Keys : ConfigCached(k)
  BY <1>1 DEF ConfigCached
<1> QED BY <1>1, <1>2, <1>3 DEF ConfigInv, Config!NotBypassed, Config!SuccessIsWritten

\* A request goes on, and neither values nor the cache change.
LEMMA ConfigMoves ==
  ASSUME ConfigInv, UNCHANGED <<value, cache, late, raised>>, NEW r \in Callers, NEW rec, Config!Goto(r, rec), ConfigAsked(rec),
         req[r].pc \notin {"drop", "invalidate"}, faults' \in Nat, skipped' # {} => faults' > 0
  PROVE  ConfigInv'
<1>1. \A k : Config!Resolved(k)' = Config!Resolved(k)
  BY DEF Config!Resolved
<1>2. req' = [q \in Callers |-> req'[q]] /\ req'[r] = rec /\ \A q \in Callers \ {r} : req'[q] = req[q]
  BY DEF Config!Goto, ConfigInv
<1>3. ASSUME NEW k \in Config!Keys PROVE ConfigCached(k)'
  <2>1. ConfigCached(k)
    BY DEF ConfigInv
  <2>2. ASSUME NEW q \in Callers, ConfigDrops(req[q], k) PROVE ConfigDrops(req'[q], k)
    <3>1. q # r
      BY <2>2 DEF ConfigDrops
    <3> QED BY <1>2, <2>2, <3>1
  <2> QED BY <1>1, <2>1, <2>2 DEF ConfigCached, ConfigDrops
<1>4. ASSUME NEW p \in Callers PROVE ConfigAsked(req[p])'
  <2>1. PICK q : q = req'[p]
    OBVIOUS
  <2>2. ConfigAsked(q)
    BY <1>2, <2>1 DEF ConfigInv
  <2>3. ConfigAsked(q)'
    BY <1>1, <2>2 DEF ConfigAsked
  <2> QED BY <2>1, <2>3 DEF ConfigAsked
<1>5. value' = [k \in Config!Keys |-> value'[k]] /\ cache' = [k \in Config!Keys |-> cache'[k]]
  BY DEF ConfigInv
<1>6. Config!NotBypassed' /\ Config!SuccessIsWritten'
  BY DEF ConfigInv, Config!NotBypassed, Config!SuccessIsWritten
<1> QED BY <1>2, <1>3, <1>4, <1>5, <1>6 DEF ConfigInv

\* The entry of a key is dropped, or filled by a request that has read it; of the requests
\* only those that were to drop it may end.
LEMMA ConfigStores ==
  ASSUME ConfigInv, UNCHANGED <<value, raised, skipped, faults>>, NEW k \in Config!Keys, NEW c,
         cache' = [cache EXCEPT ![k] = c], late \ {k} \subseteq late', c \notin {"none", Config!Resolved(k)} => k \in late',
         req' = [q \in Callers |-> req'[q]],
         \A q \in Callers : req'[q] = req[q]
                             \/ (ConfigAsked(req'[q]) /\ \A z \in Config!Keys \ {k} : ~ConfigDrops(req[q], z))
  PROVE  ConfigInv'
<1>1. \A z : Config!Resolved(z)' = Config!Resolved(z)
  BY DEF Config!Resolved
<1>2. cache' = [z \in Config!Keys |-> cache'[z]] /\ cache'[k] = c /\ \A z \in Config!Keys \ {k} : cache'[z] = cache[z]
  BY DEF ConfigInv
<1>3. ASSUME NEW z \in Config!Keys PROVE ConfigCached(z)'
  <2>1. CASE z = k
    BY <1>1, <1>2, <2>1 DEF ConfigCached
  <2>2. CASE z # k
    <3>1. ConfigCached(z)
      BY DEF ConfigInv
    <3>2. \A q \in Callers : ConfigDrops(req[q], z) => req'[q] = req[q]
      BY <2>2
    <3>3. ASSUME NEW q \in Callers, ConfigDrops(req[q], z) PROVE ConfigDrops(req'[q], z)
      BY <3>2, <3>3
    <3> QED BY <1>1, <1>2, <2>2, <3>1, <3>3 DEF ConfigCached, ConfigDrops
  <2> QED BY <2>1, <2>2
<1>4. ASSUME NEW p \in Callers PROVE ConfigAsked(req[p])'
  <2>1. PICK q : q = req'[p]
    OBVIOUS
  <2>2. ConfigAsked(q)
    BY <2>1 DEF ConfigInv
  <2>3. ConfigAsked(q)'
    BY <1>1, <2>2 DEF ConfigAsked
  <2> QED BY <2>1, <2>3 DEF ConfigAsked
<1>5. Config!NotBypassed' /\ Config!SuccessIsWritten' /\ value' = [z \in Config!Keys |-> value'[z]] /\ faults' \in Nat
  BY DEF ConfigInv, Config!NotBypassed, Config!SuccessIsWritten
<1> QED BY <1>2, <1>3, <1>4, <1>5 DEF ConfigInv

\* A key is written: the fills of it are late, and a locked read of the flag is marked.
LEMMA ConfigWrites ==
  ASSUME ConfigInv, UNCHANGED <<cache, late, skipped, faults>>, raised' # "bypassed", NEW k, NEW new,
         value' = [value EXCEPT ![k] = new], NEW r \in Callers, NEW rec, ConfigDrops(rec, k), rec.pc \in {"drop", "invalidate"},
         req[r].pc \notin {"drop", "invalidate"},
         req' = [q \in Callers |-> req'[q]], req'[r] = rec,
         \A q \in Callers \ {r} : req'[q] = Config!Overtake(req[q], k)
             \/ (req'[q] = req[q] /\ ~(req[q].pc = "fill" /\ req[q].key = k)
                 /\ ~(k = "flag" /\ req[q].pc = "hold" /\ req[q].locked = TRUE))
  PROVE  ConfigInv'
<1>1. \A z \in Config!Keys \ {k} : Config!Resolved(z)' = Config!Resolved(z)
  BY DEF Config!Resolved, ConfigInv
<1>2. ASSUME NEW z \in Config!Keys PROVE ConfigCached(z)'
  <2>1. CASE z = k
    BY <2>1 DEF ConfigCached, ConfigDrops
  <2>2. CASE z # k
    <3>1. ConfigCached(z)
      BY DEF ConfigInv
    <3>2. ASSUME NEW q \in Callers, ConfigDrops(req[q], z) PROVE ConfigDrops(req'[q], z)
      <4>1. req[q].pc \in {"drop", "invalidate"} /\ q # r
        BY <3>2 DEF ConfigDrops
      <4>2. req'[q] = req[q]
        BY <4>1 DEF Config!Overtake
      <4> QED BY <3>2, <4>2
    <3> QED BY <1>1, <2>2, <3>1, <3>2 DEF ConfigCached, ConfigDrops
  <2> QED BY <2>1, <2>2
<1>3. "flag" \in Config!Keys
  BY DEF Config!Keys
<1>4. ASSUME NEW p \in Callers PROVE ConfigAsked(req[p])'
  <2>1. PICK q, q1 : q = req[p] /\ q1 = req'[p]
    OBVIOUS
  <2>2. ConfigAsked(q)
    BY <2>1 DEF ConfigInv
  <2>3. CASE p = r
    BY <2>1, <2>3 DEF ConfigAsked
  <2>4. CASE p # r /\ q.pc = "fill" /\ q.key = k
    <3>1. q1 = [q EXCEPT !.late = TRUE]
      BY <2>1, <2>4 DEF Config!Overtake
    <3>2. q1 = [pc |-> q1.pc, key |-> q1.key, value |-> q1.value, late |-> q1.late] /\ q1.pc = "fill" /\ q1.key = k /\ q1.late = TRUE
      BY <2>2, <2>4, <3>1 DEF ConfigAsked
    <3>3. k \in Config!Keys
      BY <2>2, <2>4 DEF ConfigAsked
    <3>4. ConfigAsked(q1)'
      BY <3>2, <3>3 DEF ConfigAsked
    <3> QED BY <2>1, <3>4 DEF ConfigAsked
  <2>5. CASE p # r /\ q.pc = "hold" /\ k = "flag" /\ q1 # q
    <3>1. q1 = [q EXCEPT !.patched = TRUE]
      BY <2>1, <2>5 DEF Config!Overtake
    <3>2. /\ q1 = [pc |-> q1.pc, locked |-> q1.locked, saw |-> q1.saw, patched |-> q1.patched]
          /\ q1.pc = "hold" /\ q1.locked = q.locked /\ q1.patched = TRUE /\ q.locked \in BOOLEAN
      BY <2>2, <2>5, <3>1 DEF ConfigAsked
    <3>3. ConfigAsked(q1)'
      BY <3>2 DEF ConfigAsked
    <3> QED BY <2>1, <3>3 DEF ConfigAsked
  <2>6. CASE p # r /\ q1 = q /\ ~(q.pc = "fill" /\ q.key = k)
    <3>1. q.pc = "hold" /\ k = "flag" => q.locked # TRUE \/ q.patched = TRUE
      <4>1. CASE q.pc = "hold" /\ k = "flag" /\ q1 = Config!Overtake(q, k)
        <5>1. q1 = [q EXCEPT !.patched = TRUE]
          BY <4>1 DEF Config!Overtake
        <5>2. q1.patched = TRUE
          BY <2>2, <4>1, <5>1 DEF ConfigAsked
        <5> QED BY <2>6, <5>2
      <4>2. CASE q1 # Config!Overtake(q, k)
        BY <2>1, <2>6, <4>2
      <4> QED BY <4>1, <4>2
    <3>2. ConfigAsked(q)'
      BY <1>1, <1>3, <2>2, <2>6, <3>1 DEF ConfigAsked
    <3> QED BY <2>1, <2>6, <3>2 DEF ConfigAsked
  <2>7. p # r => (q.pc = "fill" /\ q.key = k) \/ q1 = q \/ (q.pc = "hold" /\ k = "flag")
    BY <2>1 DEF Config!Overtake
  <2> QED BY <2>3, <2>4, <2>5, <2>6, <2>7
<1>5. Config!NotBypassed' /\ Config!SuccessIsWritten' /\ faults' \in Nat
  BY DEF ConfigInv, Config!NotBypassed, Config!SuccessIsWritten
<1>6. value' = [z \in Config!Keys |-> value'[z]] /\ cache' = [z \in Config!Keys |-> cache'[z]]
  BY DEF ConfigInv
<1> QED BY <1>2, <1>4, <1>5, <1>6 DEF ConfigInv

LEMMA ConfigStep == ConfigInv /\ [Config!Next]_(Config!vars) => ConfigInv'
<1> SUFFICES ASSUME ConfigInv, [Config!Next]_(Config!vars) PROVE ConfigInv'
  OBVIOUS
<1>1. faults \in Nat /\ (skipped # {} => faults > 0)
  BY DEF ConfigInv, Config!SuccessIsWritten
<1>2. ASSUME NEW r \in Callers, NEW k \in Config!Keys, Config!ReadMiss(r, k) PROVE ConfigInv'
  <2>1. PICK rec : rec = [pc |-> "fill", key |-> k, value |-> Config!Resolved(k), late |-> FALSE]
    OBVIOUS
  <2>2. UNCHANGED <<value, cache, late, raised, skipped, faults>> /\ Config!Goto(r, rec) /\ req[r].pc = "idle"
    BY <1>2, <2>1 DEF Config!ReadMiss, Config!Begin
  <2>3. ConfigAsked(rec)
    BY <2>1 DEF ConfigAsked
  <2> QED BY <1>1, <2>2, <2>3, ConfigMoves
<1>3. ASSUME NEW r \in Callers, Config!Fill(r) PROVE ConfigInv'
  <2>1. PICK q, k, c : q = req[r] /\ k = q.key /\ c = q.value
    OBVIOUS
  <2>2. /\ q.pc = "fill" /\ Config!Goto(r, Config!Idle) /\ cache' = [cache EXCEPT ![k] = c]
        /\ late' = IF q.late THEN late \union {k} ELSE late \ {k}
        /\ UNCHANGED <<value, raised, skipped, faults>>
    BY <1>3, <2>1 DEF Config!Fill, Config!Done
  <2>3. k \in Config!Keys /\ q.late \in BOOLEAN /\ (q.late = FALSE => c = Config!Resolved(k))
    BY <2>1, <2>2 DEF ConfigInv, ConfigAsked
  <2>4. late \ {k} \subseteq late' /\ (c \notin {"none", Config!Resolved(k)} => k \in late')
    BY <2>2, <2>3
  <2>5. req' = [p \in Callers |-> req'[p]] /\ \A p \in Callers : req'[p] = req[p] \/ (p = r /\ req'[p] = Config!Idle)
    BY <2>2 DEF Config!Goto, ConfigInv
  <2>6. \A z : ~ConfigDrops(q, z)
    BY <2>2 DEF ConfigDrops
  <2> QED BY <2>1, <2>2, <2>3, <2>4, <2>5, <2>6, ConfigRests, ConfigStores
<1>4. ASSUME NEW k \in Config!Keys, Config!CacheExpires(k) PROVE ConfigInv'
  <2>1. /\ cache' = [cache EXCEPT ![k] = "none"] /\ late' = late \ {k}
        /\ UNCHANGED <<value, raised, skipped, faults>> /\ req' = req
    BY <1>4 DEF Config!CacheExpires, Config!Forget
  <2>2. req' = [p \in Callers |-> req'[p]] /\ \A p \in Callers : req'[p] = req[p]
    BY <2>1 DEF ConfigInv
  <2>3. PICK c : c = "none"
    OBVIOUS
  <2> QED BY <2>1, <2>2, <2>3, ConfigStores
<1>5. ASSUME NEW r \in Callers, Config!PatchBegins(r) PROVE ConfigInv'
  <2>1. PICK s \in SettingPatches : Config!Begin(r, [pc |-> "check", todo |-> s])
    BY <1>5 DEF Config!PatchBegins
  <2>2. PICK rec : rec = [pc |-> "check", todo |-> s]
    OBVIOUS
  <2>3. UNCHANGED <<value, cache, late, raised, skipped, faults>> /\ Config!Goto(r, rec) /\ req[r].pc = "idle"
    BY <1>5, <2>1, <2>2 DEF Config!PatchBegins, Config!Begin
  <2>4. ConfigAsked(rec)
    BY <2>2 DEF ConfigAsked
  <2> QED BY <1>1, <2>3, <2>4, ConfigMoves
<1>6. ASSUME NEW r \in Callers, Config!PatchChecks(r) PROVE ConfigInv'
  <2>1. PICK q, k, before : q = req[r] /\ k = q.todo[1][1] /\ before = IF value[k] = "none" THEN Config!Default[k] ELSE value[k]
    OBVIOUS
  <2>2. PICK rec : rec = IF ~Config!MayPatch(k, before, q.todo[1][2]) THEN Config!Idle
                         ELSE [pc |-> IF k \in row THEN "write" ELSE "create", todo |-> q.todo, before |-> before]
    OBVIOUS
  <2>3. /\ q.pc = "check" /\ Config!Goto(r, rec)
        /\ UNCHANGED <<value, cache, late, raised, skipped, faults>>
    BY <1>6, <2>1, <2>2 DEF Config!PatchChecks
  <2>4. ConfigAsked(rec)
    <3>1. CASE ~Config!MayPatch(k, before, q.todo[1][2])
      BY <2>2, <3>1, ConfigRests
    <3>2. CASE Config!MayPatch(k, before, q.todo[1][2])
      <4>1. rec = [pc |-> rec.pc, todo |-> rec.todo, before |-> rec.before]
            /\ rec.pc \in {"create", "write"} /\ rec.todo = q.todo /\ rec.before = before
        BY <2>2, <3>2
      <4>2. ~(k = "flag" /\ before = "off" /\ q.todo[1][2] = "on")
        BY <3>2 DEF Config!MayPatch
      <4> QED BY <2>1, <4>1, <4>2 DEF ConfigAsked
    <3> QED BY <3>1, <3>2
  <2> QED BY <1>1, <2>1, <2>3, <2>4, ConfigMoves
<1>7. ASSUME NEW r \in Callers PROVE ConfigAsked(Config!After(r)) /\ Config!After(r).pc \in {"idle", "check"}
  BY DEF Config!After, ConfigAsked, Config!Idle
<1>8. ASSUME NEW r \in Callers, Config!PatchCreates(r) PROVE ConfigInv'
  <2>1. PICK q : q = req[r]
    OBVIOUS
  <2>2. q.pc = "create" /\ UNCHANGED <<value, cache, late, raised>>
    BY <1>8, <2>1 DEF Config!PatchCreates
  <2>3. ConfigAsked(q)
    BY <2>1 DEF ConfigInv
  <2>4. CASE Config!Goto(r, [q EXCEPT !.pc = "write"]) /\ UNCHANGED <<skipped, faults>>
    <3>1. PICK rec : rec = [q EXCEPT !.pc = "write"]
      OBVIOUS
    <3>2. rec = [pc |-> rec.pc, todo |-> rec.todo, before |-> rec.before] /\ rec.pc = "write"
          /\ rec.todo = q.todo /\ rec.before = q.before
      BY <2>2, <2>3, <3>1 DEF ConfigAsked
    <3>3. ConfigAsked(rec)
      BY <2>2, <2>3, <3>2 DEF ConfigAsked
    <3> QED BY <1>1, <2>1, <2>2, <2>4, <3>1, <3>3, ConfigMoves
  <2>5. CASE Config!Fault /\ Config!Goto(r, Config!After(r))
    <3>1. PICK rec : rec = Config!After(r)
      OBVIOUS
    <3>2. faults' \in Nat /\ faults' > 0
      BY <1>1, <2>5 DEF Config!Fault
    <3> QED BY <1>7, <2>1, <2>2, <2>5, <3>1, <3>2, ConfigMoves
  <2> QED BY <1>8, <2>1, <2>4, <2>5 DEF Config!PatchCreates, Config!Created
<1>9. ASSUME NEW r \in Callers, Config!PatchWrites(r) PROVE ConfigInv'
  <2>1. PICK q, k, new : q = req[r] /\ k = q.todo[1][1] /\ new = q.todo[1][2]
    OBVIOUS
  <2>2. PICK rec : rec = [q EXCEPT !.pc = "drop"]
    OBVIOUS
  <2>3. /\ q.pc = "write" /\ value' = [value EXCEPT ![k] = new]
        /\ raised' = IF k = "flag" /\ new = "on" /\ value[k] = "off"
                     THEN IF q.before = "off" THEN "bypassed" ELSE "overtaken" ELSE raised
        /\ req' = [p \in Callers |-> IF p = r THEN rec ELSE Config!Overtake(req[p], k)]
        /\ UNCHANGED <<cache, late, skipped, faults>>
    BY <1>9, <2>1, <2>2 DEF Config!PatchWrites
  <2>4. ConfigAsked(q)
    BY <2>1 DEF ConfigInv
  <2>5. raised' # "bypassed"
    BY <2>1, <2>3, <2>4 DEF ConfigAsked, ConfigInv, Config!NotBypassed
  <2>6. rec.pc = "drop" /\ rec.todo = q.todo
    BY <2>2, <2>3, <2>4 DEF ConfigAsked
  <2>7. ConfigDrops(rec, k)
    BY <2>1, <2>6 DEF ConfigDrops
  <2>8. req' = [p \in Callers |-> req'[p]] /\ req'[r] = rec /\ \A p \in Callers \ {r} : req'[p] = Config!Overtake(req[p], k)
    BY <2>3
  <2> QED BY <2>1, <2>3, <2>5, <2>6, <2>7, <2>8, ConfigWrites
<1>10. ASSUME NEW r \in Callers, Config!PatchDrops(r) PROVE ConfigInv'
  <2>1. PICK q, k, rec, c : q = req[r] /\ k = q.todo[1][1] /\ rec = Config!After(r) /\ c = "none"
    OBVIOUS
  <2>2. /\ q.pc = "drop" /\ cache' = [cache EXCEPT ![k] = c] /\ late' = late \ {k} /\ Config!Goto(r, rec)
        /\ UNCHANGED <<value, raised, skipped, faults>>
    BY <1>10, <2>1 DEF Config!PatchDrops, Config!Forget
  <2>3. req' = [p \in Callers |-> req'[p]] /\ \A p \in Callers : req'[p] = req[p] \/ (p = r /\ req'[p] = rec)
    BY <2>2 DEF Config!Goto, ConfigInv
  <2>4. \A z : z # k => ~ConfigDrops(q, z)
    BY <2>1, <2>2 DEF ConfigDrops
  <2>5. CASE k \in Config!Keys
    BY <1>7, <2>1, <2>2, <2>3, <2>4, <2>5, ConfigStores
  <2>6. CASE k \notin Config!Keys
    <3>1. cache' = cache
      BY <2>2, <2>6 DEF ConfigInv
    <3>6. \A y \in Config!Keys : ConfigCached(y)'
      <4>1. \A y \in Config!Keys : ConfigCached(y) /\ (y \in late' <=> y \in late)
        BY <2>2, <2>6 DEF ConfigInv
      <4>2. ASSUME NEW y \in Config!Keys, NEW p \in Callers, ConfigDrops(req[p], y) PROVE ConfigDrops(req'[p], y)
        <5>1. y # k
          BY <2>6
        <5>2. p # r
          BY <2>1, <2>4, <4>2, <5>1
        <5> QED BY <2>3, <4>2, <5>2
      <4>3. \A y : Config!Resolved(y)' = Config!Resolved(y)
        BY <2>2 DEF Config!Resolved
      <4> QED BY <3>1, <4>1, <4>2, <4>3 DEF ConfigCached, ConfigDrops
    <3>7. ASSUME NEW p \in Callers PROVE ConfigAsked(req[p])'
      <4>1. PICK x : x = req'[p]
        OBVIOUS
      <4>2. ConfigAsked(x)
        BY <1>7, <2>1, <2>3, <4>1 DEF ConfigInv
      <4>3. ConfigAsked(x)'
        BY <2>2, <4>2 DEF ConfigAsked, Config!Resolved
      <4> QED BY <4>1, <4>3 DEF ConfigAsked
    <3> QED BY <1>1, <2>2, <2>3, <3>1, <3>6, <3>7 DEF ConfigInv, Config!NotBypassed, Config!SuccessIsWritten
  <2> QED BY <2>5, <2>6
<1>11. ASSUME NEW r \in Callers, Config!EnableLocks(r) PROVE ConfigInv'
  <2>1. PICK rec : rec = [pc |-> "apply", locked |-> "flag" \in row]
    OBVIOUS
  <2>2. UNCHANGED <<value, cache, late, raised, skipped, faults>> /\ Config!Goto(r, rec) /\ req[r].pc = "idle"
    BY <1>11, <2>1 DEF Config!EnableLocks, Config!Begin
  <2>3. ConfigAsked(rec)
    BY <2>1 DEF ConfigAsked
  <2> QED BY <1>1, <2>2, <2>3, ConfigMoves
<1>12. ASSUME NEW r \in Callers, Config!EnableCommits(r) PROVE ConfigInv'
  <2>1. PICK rec, k, new : rec = [pc |-> "invalidate"] /\ k = "flag" /\ new = "on"
    OBVIOUS
  <2>2. /\ req[r].pc = "apply" /\ ~Config!Waits(r) /\ value' = [value EXCEPT ![k] = new]
        /\ raised' = IF value["flag"] = "off" THEN "enabled" ELSE raised
        /\ req' = [q \in Callers |-> IF q = r THEN rec ELSE IF req[q].pc = "fill" THEN Config!Overtake(req[q], k) ELSE req[q]]
        /\ UNCHANGED <<cache, late, skipped, faults>>
    BY <1>12, <2>1 DEF Config!EnableCommits
  <2>3. raised' # "bypassed"
    BY <2>2 DEF ConfigInv, Config!NotBypassed
  <2>4. ConfigDrops(rec, k) /\ rec.pc \in {"drop", "invalidate"}
    BY <2>1 DEF ConfigDrops
  <2>5. \A q \in Callers \ {r} : ~(req[q].pc = "hold" /\ req[q].locked = TRUE)
    BY <2>2 DEF Config!Waits, Config!Shared
  <2>6. /\ req' = [q \in Callers |-> req'[q]] /\ req'[r] = rec
        /\ \A q \in Callers \ {r} : req'[q] = Config!Overtake(req[q], k) \/ (req'[q] = req[q] /\ req[q].pc # "fill")
    BY <2>2
  <2>7. \A q \in Callers \ {r} :
           req'[q] = Config!Overtake(req[q], k)
             \/ (req'[q] = req[q] /\ ~(req[q].pc = "fill" /\ req[q].key = k)
                 /\ ~(k = "flag" /\ req[q].pc = "hold" /\ req[q].locked = TRUE))
    BY <2>5, <2>6
  <2> QED BY <2>2, <2>3, <2>4, <2>6, <2>7, ConfigWrites
<1>13. ASSUME NEW r \in Callers, Config!EnableFails(r) PROVE ConfigInv'
  <2>1. UNCHANGED <<value, cache, late, raised, skipped>> /\ Config!Goto(r, Config!Idle) /\ req[r].pc = "apply" /\ Config!Fault
    BY <1>13 DEF Config!EnableFails, Config!Done
  <2>2. faults' \in Nat /\ faults' > 0
    BY <1>1, <2>1 DEF Config!Fault
  <2> QED BY <2>1, <2>2, ConfigRests, ConfigMoves
<1>14. ASSUME NEW r \in Callers, Config!EnableInvalidates(r) PROVE ConfigInv'
  <2>1. PICK q, k, rec, c : q = req[r] /\ k = "flag" /\ rec = Config!Idle /\ c = "none"
    OBVIOUS
  <2>2. /\ q.pc = "invalidate" /\ cache' = [cache EXCEPT ![k] = c] /\ late' = late \ {k} /\ Config!Goto(r, rec)
        /\ UNCHANGED <<value, raised, skipped, faults>>
    BY <1>14, <2>1 DEF Config!EnableInvalidates, Config!Invalidate, Config!Forget, Config!Done
  <2>3. req' = [p \in Callers |-> req'[p]] /\ \A p \in Callers : req'[p] = req[p] \/ (p = r /\ req'[p] = rec)
    BY <2>2 DEF Config!Goto, ConfigInv
  <2>4. \A z : z # k => ~ConfigDrops(q, z)
    BY <2>1, <2>2 DEF ConfigDrops
  <2>5. k \in Config!Keys
    BY <2>1 DEF Config!Keys
  <2> QED BY <2>1, <2>2, <2>3, <2>4, <2>5, ConfigRests, ConfigStores
<1>15. ASSUME NEW r \in Callers, Config!IngestReads(r) PROVE ConfigInv'
  <2>1. PICK rec : rec = [pc |-> "hold", locked |-> "flag" \in row, saw |-> Config!Resolved("flag"), patched |-> FALSE]
    OBVIOUS
  <2>2. UNCHANGED <<value, cache, late, raised, skipped, faults>> /\ Config!Goto(r, rec) /\ req[r].pc = "idle"
    BY <1>15, <2>1 DEF Config!IngestReads, Config!Begin
  <2>3. ConfigAsked(rec)
    <3>1. CASE "flag" \in row
      <4>1. rec = [pc |-> "hold", locked |-> TRUE, saw |-> Config!Resolved("flag"), patched |-> FALSE]
        BY <2>1, <3>1
      <4> QED BY <4>1 DEF ConfigAsked
    <3>2. CASE "flag" \notin row
      <4>1. ("flag" \in row) = FALSE
        BY <3>2
      <4>2. rec = [pc |-> "hold", locked |-> FALSE, saw |-> Config!Resolved("flag"), patched |-> FALSE]
        BY <2>1, <4>1, Zenon
      <4> QED BY <4>2 DEF ConfigAsked
    <3> QED BY <3>1, <3>2
  <2> QED BY <1>1, <2>2, <2>3, ConfigMoves
<1>16. ASSUME NEW r \in Callers, Config!IngestCommits(r) PROVE ConfigInv'
  <2>1. UNCHANGED <<value, cache, late, raised, skipped, faults>> /\ Config!Goto(r, Config!Idle) /\ req[r].pc = "hold"
    BY <1>16 DEF Config!IngestCommits, Config!Done
  <2> QED BY <1>1, <2>1, ConfigRests, ConfigMoves
<1>17. CASE UNCHANGED Config!vars
  <2>1. UNCHANGED <<value, cache, late, raised, skipped, faults, req>>
    BY <1>17 DEF Config!vars
  <2> QED BY <2>1 DEF ConfigInv, ConfigCached, ConfigDrops, ConfigAsked, Config!Resolved, Config!NotBypassed, Config!SuccessIsWritten
<1> QED
  BY <1>2, <1>3, <1>4, <1>5, <1>6, <1>8, <1>9, <1>10, <1>11, <1>12, <1>13, <1>14, <1>15, <1>16, <1>17 DEF Config!Next, Config!RequestStep

LEMMA ConfigSound == ConfigInv => Config!SettingsSound
<1> SUFFICES ASSUME ConfigInv PROVE Config!SettingsSound
  OBVIOUS
<1>1. Config!CacheIsCurrent
  BY DEF ConfigInv, ConfigCached, ConfigDrops, Config!CacheIsCurrent
<1>2. Config!LockedReadHolds
  BY DEF ConfigInv, ConfigAsked, Config!LockedReadHolds
<1> QED BY <1>1, <1>2 DEF ConfigInv, Config!SettingsSound

-----------------------------------------------------------------------------
(* Attachments.                                                            *)

Attached == INSTANCE Attachments WITH
    Requests <- Callers, MaxRequests <- AttachedRequests

AttachedLimits == AttachedRequests \in Nat

AttachedReqs == [pc : {"idle", "put", "create", "unlink", "dropObject", "dropRow"}, id : 0..AttachedRequests]

\* What has not begun has left no trace.
AttachedTyped ==
    /\ owners \subseteq Attached!Places /\ placeOf \in [Attached!Ids -> Attached!Places \union {"none"}]
    /\ rows \subseteq Attached!Ids /\ files \subseteq Attached!Ids /\ left \subseteq Attached!Ids /\ lost \subseteq Attached!Ids
    /\ req \in [Callers -> AttachedReqs] /\ begun \in 0..AttachedRequests
    /\ \A i \in Attached!Ids : i > begun => placeOf[i] = "none" /\ i \notin rows \union files
    /\ \A i \in rows : placeOf[i] \in Attached!Places

\* What a request knows of its attachment: an upload has it to itself, and a removal in
\* the bucket has deleted the object before the row.
AttachedKnows(r) ==
    /\ req[r].pc # "idle" => req[r].id \in Attached!Ids /\ req[r].id <= begun /\ placeOf[req[r].id] \in Attached!Places
    /\ req[r].pc \in {"put", "create"} =>
          /\ req[r].id \notin rows
          /\ \A q \in Callers : q # r /\ req[q].pc # "idle" => req[q].id # req[r].id
    /\ req[r].pc = "create" => req[r].id \in files
    /\ req[r].pc = "unlink" => req[r].id \notin rows
    /\ req[r].pc = "dropObject" => placeOf[req[r].id] = "bucket"
    /\ req[r].pc = "dropRow" /\ placeOf[req[r].id] = "bucket" => req[r].id \notin files

\* A file has its row, or a request that is about to write or take it away.
AttachedKept ==
    \A i \in files : i \in rows \union left \/ \E r \in Callers : req[r].id = i /\ req[r].pc \in {"create", "unlink"}

AttachedInv == AttachedTyped /\ (\A r \in Callers : AttachedKnows(r)) /\ Attached!RowHasFile /\ AttachedKept

LEMMA AttachedInit == ASSUME AttachedLimits PROVE Attached!Init => AttachedInv
  BY DEF AttachedLimits, Attached!Init, Attached!Idle, AttachedInv, AttachedTyped, AttachedReqs, AttachedKnows, Attached!RowHasFile, AttachedKept, Attached!Ids, Attached!Places

\* How a request goes on.
LEMMA AttachedGoes ==
  ASSUME AttachedLimits, AttachedInv, NEW r \in Callers, NEW pc \in {"idle", "put", "create", "unlink", "dropObject", "dropRow"},
         NEW i \in 0..AttachedRequests, req' = [req EXCEPT ![r] = [pc |-> pc, id |-> i]]
  PROVE  /\ req' \in [Callers -> AttachedReqs]
         /\ req'[r] = [pc |-> pc, id |-> i]
         /\ \A q \in Callers : q # r => req'[q] = req[q]
<1>1. [pc |-> pc, id |-> i] \in AttachedReqs
  BY DEF AttachedReqs
<1> QED BY <1>1 DEF AttachedInv, AttachedTyped

LEMMA AttachedTo ==
  ASSUME AttachedInv, NEW r \in Callers, NEW pc, Attached!To(r, pc)
  PROVE  /\ req' = [req EXCEPT ![r] = [pc |-> pc, id |-> req[r].id]] /\ req[r].id \in 0..AttachedRequests
         /\ req[r].pc # "idle" => req[r].id \in Attached!Ids
<1>1. req[r] \in AttachedReqs
  BY DEF AttachedInv, AttachedTyped
<1>2. [req[r] EXCEPT !.pc = pc] = [pc |-> pc, id |-> req[r].id]
  BY <1>1 DEF AttachedReqs
<1>3. req' = [req EXCEPT ![r] = [req[r] EXCEPT !.pc = pc]]
  BY DEF Attached!To
<1>4. req[r].pc # "idle" => req[r].id \in Attached!Ids
  BY DEF AttachedInv, AttachedKnows
<1>5. req[r].id \in 0..AttachedRequests
  BY <1>1 DEF AttachedReqs
<1> QED BY <1>2, <1>3, <1>4, <1>5

LEMMA AttachedUploads ==
  ASSUME AttachedLimits, AttachedInv, NEW r \in Callers, NEW w \in Attached!Places, Attached!UploadBegins(r, w)
  PROVE  AttachedInv'
<1> USE DEF AttachedInv
<1>1. PICK i \in Attached!Ids : i = begun + 1 /\ i > begun
  BY DEF Attached!UploadBegins, Attached!Fresh, AttachedTyped, AttachedLimits, Attached!Ids
<1>2. /\ placeOf' = [placeOf EXCEPT ![i] = w] /\ req' = [req EXCEPT ![r] = [pc |-> "put", id |-> i]] /\ begun' = i
      /\ UNCHANGED <<owners, rows, files, left, lost>> /\ req[r].pc = "idle"
  BY <1>1 DEF Attached!UploadBegins, Attached!Fresh, Attached!Goto
<1>3. /\ req' \in [Callers -> AttachedReqs] /\ req'[r] = [pc |-> "put", id |-> i]
      /\ \A q \in Callers : q # r => req'[q] = req[q]
  <2>1. i \in 0..AttachedRequests /\ req' = [req EXCEPT ![r] = [pc |-> "put", id |-> i]]
    BY <1>2 DEF Attached!Ids
  <2> QED BY <2>1, AttachedGoes
<1>4. \A j \in Attached!Ids : j # i => placeOf'[j] = placeOf[j]
  BY <1>2 DEF AttachedTyped
<1>5. placeOf'[i] = w /\ i \notin rows /\ i \notin files
  BY <1>1, <1>2 DEF AttachedTyped
<1>6. AttachedTyped'
  <2>1. \A j \in Attached!Ids : j > begun' => placeOf'[j] = "none" /\ j \notin rows \union files
    BY <1>1, <1>2, <1>4 DEF AttachedTyped, Attached!Ids
  <2>2. begun' \in 0..AttachedRequests /\ placeOf' \in [Attached!Ids -> Attached!Places \union {"none"}]
    BY <1>1, <1>2 DEF AttachedTyped, Attached!Ids
  <2>3. \A j \in rows : placeOf'[j] \in Attached!Places
    BY <1>4, <1>5 DEF AttachedTyped
  <2> QED BY <1>2, <1>3, <2>1, <2>2, <2>3 DEF AttachedTyped
<1>7. ASSUME NEW q \in Callers PROVE AttachedKnows(q)'
  <2>1. ASSUME NEW p \in Callers, req[p].pc # "idle" PROVE req[p].id # i /\ req[p].id \in Attached!Ids /\ req[p].id <= begun'
    <3>1. req[p].id \in Attached!Ids /\ req[p].id <= begun
      BY <2>1 DEF AttachedKnows
    <3>2. begun \in 0..AttachedRequests
      BY DEF AttachedTyped
    <3> QED BY <1>1, <1>2, <3>1, <3>2 DEF Attached!Ids
  <2>2. CASE q = r
    <3>1. i <= begun'
      BY <1>1, <1>2 DEF Attached!Ids
    <3> QED BY <1>2, <1>3, <1>5, <2>1, <2>2, <3>1 DEF AttachedKnows
  <2>3. CASE q # r
    BY <1>2, <1>3, <1>4, <2>1, <2>3 DEF AttachedKnows
  <2> QED BY <2>2, <2>3
<1>8. Attached!RowHasFile'
  <2>1. ASSUME NEW j \in rows PROVE j # i /\ j \in Attached!Ids /\ placeOf'[j] = placeOf[j]
    BY <1>4, <1>5 DEF AttachedTyped
  <2> QED BY <1>2, <1>3, <2>1 DEF Attached!RowHasFile
<1>9. AttachedKept'
  BY <1>2, <1>3 DEF AttachedKept
<1> QED BY <1>6, <1>7, <1>8, <1>9

LEMMA AttachedPut ==
  ASSUME AttachedLimits, AttachedInv, NEW r \in Callers, Attached!PutFile(r) \/ Attached!CreateRow(r) \/ Attached!RowFails(r)
  PROVE  AttachedInv'
<1> USE DEF AttachedInv
<1>1. PICK i \in Attached!Ids : i = req[r].id
  BY DEF Attached!PutFile, Attached!CreateRow, Attached!RowFails, AttachedKnows
<1>2. req[r].pc \in {"put", "create"} /\ i \notin rows /\ i <= begun /\ placeOf[i] \in Attached!Places
      /\ (req[r].pc = "create" => i \in files)
      /\ \A q \in Callers : q # r /\ req[q].pc # "idle" => req[q].id # i
  BY <1>1 DEF Attached!PutFile, Attached!CreateRow, Attached!RowFails, AttachedKnows
<1>3. ASSUME NEW pc \in {"create", "unlink"}, Attached!To(r, pc)
      PROVE  /\ req' \in [Callers -> AttachedReqs] /\ req'[r] = [pc |-> pc, id |-> i]
             /\ \A q \in Callers : q # r => req'[q] = req[q]
  <2>1. req' = [req EXCEPT ![r] = [pc |-> pc, id |-> i]] /\ i \in 0..AttachedRequests
    BY <1>1, <1>3, AttachedTo
  <2>2. pc \in {"idle", "put", "create", "unlink", "dropObject", "dropRow"}
    OBVIOUS
  <2> QED BY <2>1, <2>2, AttachedGoes
<1>4. ASSUME Attached!Done(r)
      PROVE  /\ req' \in [Callers -> AttachedReqs] /\ req'[r] = [pc |-> "idle", id |-> 0]
             /\ \A q \in Callers : q # r => req'[q] = req[q]
  <2>1. req' = [req EXCEPT ![r] = [pc |-> "idle", id |-> 0]]
    BY <1>4 DEF Attached!Done, Attached!Idle
  <2>2. 0 \in 0..AttachedRequests
    BY DEF AttachedLimits
  <2> QED BY <2>1, <2>2, AttachedGoes
<1>5. CASE Attached!PutFile(r) /\ Attached!To(r, "create") /\ files' = files \union {i}
  <2>1. UNCHANGED <<owners, rows, placeOf, begun, left, lost>> /\ req[r].pc = "put"
    BY <1>5 DEF Attached!PutFile
  <2>2. req'[r] = [pc |-> "create", id |-> i] /\ (\A q \in Callers : q # r => req'[q] = req[q])
        /\ req' \in [Callers -> AttachedReqs]
    BY <1>3, <1>5
  <2>7. ~(i > begun)
    <3>1. begun \in 0..AttachedRequests
      BY DEF AttachedTyped
    <3> QED BY <1>2, <3>1 DEF Attached!Ids
  <2>3. AttachedTyped'
    BY <1>2, <1>5, <2>1, <2>2, <2>7 DEF AttachedTyped
  <2>4. ASSUME NEW q \in Callers PROVE AttachedKnows(q)'
    BY <1>2, <1>5, <2>1, <2>2 DEF AttachedKnows
  <2>5. Attached!RowHasFile'
    <3>1. ASSUME NEW j \in rows, NEW p \in Callers, req[p] = [pc |-> "dropRow", id |-> j] PROVE p # r
      BY <2>1, <3>1
    <3> QED BY <1>5, <2>1, <2>2, <3>1 DEF Attached!RowHasFile
  <2>6. AttachedKept'
    <3>1. ASSUME NEW p \in Callers, req[p].pc \in {"create", "unlink"} PROVE p # r
      BY <2>1, <3>1
    <3> QED BY <1>5, <2>1, <2>2, <3>1 DEF AttachedKept
  <2> QED BY <2>3, <2>4, <2>5, <2>6
<1>6. CASE Attached!PutFile(r) /\ Attached!Done(r) /\ UNCHANGED files
  BY <1>2, <1>4, <1>6 DEF Attached!PutFile, AttachedTyped, AttachedKnows, Attached!RowHasFile, AttachedKept
<1>7. CASE Attached!CreateRow(r)
  <2>1. rows' = rows \union {i} /\ Attached!Done(r) /\ UNCHANGED <<owners, files, placeOf, begun, left, lost>> /\ i \in files
    BY <1>1, <1>2, <1>7 DEF Attached!CreateRow
  <2>2. AttachedTyped'
    BY <1>2, <1>4, <2>1 DEF AttachedTyped, Attached!Ids
  <2>3. ASSUME NEW q \in Callers PROVE AttachedKnows(q)'
    BY <1>2, <1>4, <2>1 DEF AttachedKnows
  <2>4. Attached!RowHasFile'
    <3>1. ASSUME NEW j \in rows, NEW p \in Callers, req[p] = [pc |-> "dropRow", id |-> j] PROVE p # r
      BY <1>2, <3>1
    <3> QED BY <1>4, <2>1, <3>1 DEF Attached!RowHasFile
  <2>5. AttachedKept'
    BY <1>1, <1>4, <2>1 DEF AttachedKept
  <2> QED BY <2>2, <2>3, <2>4, <2>5
<1>8. CASE Attached!RowFails(r) /\ Attached!OnDisk(r)
  <2>1. Attached!To(r, "unlink") /\ UNCHANGED <<owners, rows, files, placeOf, begun, left, lost>>
    BY <1>8 DEF Attached!RowFails
  <2> QED BY <1>1, <1>2, <1>3, <1>8, <2>1 DEF Attached!RowFails, AttachedTyped, AttachedKnows, Attached!RowHasFile, AttachedKept
<1>9. CASE Attached!RowFails(r) /\ ~Attached!OnDisk(r)
  <2>1. Attached!Done(r) /\ left' = left \union {i} /\ UNCHANGED <<owners, rows, files, placeOf, begun, lost>> /\ req[r].pc = "create"
    BY <1>1, <1>9 DEF Attached!RowFails
  <2> QED BY <1>1, <1>2, <1>4, <1>9, <2>1 DEF AttachedTyped, AttachedKnows, Attached!RowHasFile, AttachedKept
<1>10. Attached!PutFile(r) => (Attached!To(r, "create") /\ files' = files \union {i}) \/ (Attached!Done(r) /\ UNCHANGED files)
  BY <1>1 DEF Attached!PutFile
<1> QED BY <1>5, <1>6, <1>7, <1>8, <1>9, <1>10

LEMMA AttachedRemoves ==
  ASSUME AttachedLimits, AttachedInv, NEW r \in Callers, NEW i \in Attached!Ids, Attached!RemoveBegins(r, i)
  PROVE  AttachedInv'
<1> USE DEF AttachedInv
<1>1. i \in rows /\ req[r].pc = "idle" /\ begun < AttachedRequests /\ begun' = begun + 1
      /\ UNCHANGED <<owners, rows, files, placeOf, left, lost>>
  BY DEF Attached!RemoveBegins, Attached!Fresh
<1>2. PICK pc \in {"dropRow", "dropObject"} : pc = IF placeOf[i] = "disk" THEN "dropRow" ELSE "dropObject"
  OBVIOUS
<1>3. req' = [req EXCEPT ![r] = [pc |-> pc, id |-> i]]
  BY <1>2 DEF Attached!RemoveBegins, Attached!Goto
<1>4. /\ req' \in [Callers -> AttachedReqs] /\ req'[r] = [pc |-> pc, id |-> i]
      /\ \A q \in Callers : q # r => req'[q] = req[q]
  <2>1. i \in 0..AttachedRequests /\ pc \in {"idle", "put", "create", "unlink", "dropObject", "dropRow"}
    BY DEF Attached!Ids
  <2> QED BY <1>3, <2>1, AttachedGoes
<1>5. placeOf[i] \in Attached!Places /\ placeOf[i] # "none" /\ begun \in 0..AttachedRequests
  BY <1>1 DEF AttachedTyped, Attached!Places
<1>10. ~(i > begun)
  BY <1>5 DEF AttachedTyped
<1>11. begun' \in 0..AttachedRequests /\ i <= begun'
  BY <1>1, <1>5, <1>10 DEF Attached!Ids, AttachedLimits
<1>12. \A j \in Attached!Ids : (j > begun' => j > begun) /\ (j <= begun => j <= begun')
  BY <1>1, <1>5 DEF Attached!Ids
<1>6. AttachedTyped'
  <2>1. \A j \in Attached!Ids : j > begun' => placeOf'[j] = "none" /\ j \notin rows' \union files'
    BY <1>1, <1>12 DEF AttachedTyped
  <2> QED BY <1>1, <1>4, <1>11, <2>1 DEF AttachedTyped
<1>7. ASSUME NEW q \in Callers PROVE AttachedKnows(q)'
  <2>1. CASE q = r
    BY <1>1, <1>2, <1>4, <1>5, <1>11, <2>1 DEF AttachedKnows, Attached!Places
  <2>2. CASE q # r
    <3>1. req[q].pc # "idle" => req[q].id \in Attached!Ids /\ req[q].id <= begun'
      BY <1>12 DEF AttachedKnows
    <3>2. req[q].pc \in {"put", "create"} => req[q].id # i
      BY <1>1 DEF AttachedKnows
    <3> QED BY <1>1, <1>4, <2>2, <3>1, <3>2 DEF AttachedKnows
  <2> QED BY <2>1, <2>2
<1>8. Attached!RowHasFile' /\ AttachedKept'
  BY <1>1, <1>4 DEF Attached!RowHasFile, AttachedKept
<1> QED BY <1>6, <1>7, <1>8

LEMMA AttachedDrops ==
  ASSUME AttachedLimits, AttachedInv, NEW r \in Callers, Attached!DropObject(r) \/ Attached!DropRow(r) \/ Attached!Unlink(r)
  PROVE  AttachedInv'
<1> USE DEF AttachedInv
<1>1. PICK i \in Attached!Ids : i = req[r].id
  BY DEF Attached!DropObject, Attached!DropRow, Attached!Unlink, AttachedKnows
<1>2. req[r].pc \in {"dropObject", "dropRow", "unlink"} /\ i <= begun /\ placeOf[i] \in Attached!Places
      /\ (req[r].pc = "unlink" => i \notin rows) /\ (req[r].pc = "dropObject" => placeOf[i] = "bucket")
      /\ (req[r].pc = "dropRow" /\ placeOf[i] = "bucket" => i \notin files)
      /\ \A q \in Callers : req[q].pc \in {"put", "create"} => req[q].id # i
  BY <1>1 DEF Attached!DropObject, Attached!DropRow, Attached!Unlink, AttachedKnows
<1>3. ASSUME NEW pc \in {"dropRow", "unlink"}, Attached!To(r, pc)
      PROVE  /\ req' \in [Callers -> AttachedReqs] /\ req'[r] = [pc |-> pc, id |-> i]
             /\ \A q \in Callers : q # r => req'[q] = req[q]
  <2>1. req' = [req EXCEPT ![r] = [pc |-> pc, id |-> i]] /\ i \in 0..AttachedRequests
    BY <1>1, <1>3, AttachedTo
  <2>2. pc \in {"idle", "put", "create", "unlink", "dropObject", "dropRow"}
    OBVIOUS
  <2> QED BY <2>1, <2>2, AttachedGoes
<1>4. ASSUME Attached!Done(r)
      PROVE  /\ req' \in [Callers -> AttachedReqs] /\ req'[r] = [pc |-> "idle", id |-> 0]
             /\ \A q \in Callers : q # r => req'[q] = req[q]
  <2>1. req' = [req EXCEPT ![r] = [pc |-> "idle", id |-> 0]]
    BY <1>4 DEF Attached!Done, Attached!Idle
  <2>2. 0 \in 0..AttachedRequests
    BY DEF AttachedLimits
  <2> QED BY <2>1, <2>2, AttachedGoes
<1>5. CASE Attached!DropObject(r) /\ Attached!To(r, "dropRow") /\ files' = files \ {i}
  <2>1. UNCHANGED <<owners, rows, placeOf, begun, left, lost>> /\ placeOf[i] = "bucket" /\ req[r].pc = "dropObject"
    BY <1>2, <1>5 DEF Attached!DropObject
  <2>2. AttachedTyped'
    BY <1>3, <1>5, <2>1 DEF AttachedTyped
  <2>3. ASSUME NEW q \in Callers PROVE AttachedKnows(q)'
    BY <1>2, <1>3, <1>5, <2>1 DEF AttachedKnows
  <2>4. Attached!RowHasFile'
    <3>1. ASSUME NEW j \in rows, NEW p \in Callers, req[p] = [pc |-> "dropRow", id |-> j] PROVE p # r
      BY <2>1, <3>1
    <3>2. req'[r] = [pc |-> "dropRow", id |-> i]
      BY <1>3, <1>5
    <3> QED BY <1>3, <1>5, <2>1, <3>1, <3>2 DEF Attached!RowHasFile
  <2>5. AttachedKept'
    <3>1. ASSUME NEW p \in Callers, req[p].pc \in {"create", "unlink"} PROVE p # r
      BY <2>1, <3>1
    <3> QED BY <1>3, <1>5, <2>1, <3>1 DEF AttachedKept
  <2> QED BY <2>2, <2>3, <2>4, <2>5
<1>6. CASE Attached!DropObject(r) /\ Attached!Done(r) /\ UNCHANGED files
  <2>1. UNCHANGED <<owners, rows, files, placeOf, begun, left, lost>> /\ req[r].pc = "dropObject"
    BY <1>6 DEF Attached!DropObject
  <2>2. AttachedTyped' /\ \A q \in Callers : AttachedKnows(q)'
    BY <1>4, <1>6, <2>1 DEF AttachedTyped, AttachedKnows
  <2>3. ASSUME NEW p \in Callers, req[p].pc \in {"create", "unlink", "dropRow"} PROVE req'[p] = req[p]
    BY <1>4, <1>6, <2>1, <2>3
  <2>4. Attached!RowHasFile'
    BY <2>1, <2>3 DEF Attached!RowHasFile
  <2>5. AttachedKept'
    BY <2>1, <2>3 DEF AttachedKept
  <2> QED BY <2>2, <2>4, <2>5
<1>7. CASE Attached!DropRow(r) /\ rows' = rows \ {i} /\ UNCHANGED lost /\ (IF Attached!OnDisk(r) THEN Attached!To(r, "unlink") ELSE Attached!Done(r))
  <2>1. UNCHANGED <<owners, files, placeOf, begun, left, lost>> /\ req[r].pc = "dropRow"
    BY <1>7 DEF Attached!DropRow
  <2>2. /\ req' \in [Callers -> AttachedReqs] /\ \A q \in Callers : q # r => req'[q] = req[q]
        /\ \/ placeOf[i] = "disk" /\ req'[r] = [pc |-> "unlink", id |-> i]
           \/ placeOf[i] = "bucket" /\ i \notin files /\ req'[r] = [pc |-> "idle", id |-> 0]
    BY <1>1, <1>2, <1>3, <1>4, <1>7, <2>1 DEF Attached!OnDisk, Attached!Places
  <2>3. AttachedTyped'
    BY <1>7, <2>1, <2>2 DEF AttachedTyped
  <2>4. ASSUME NEW q \in Callers PROVE AttachedKnows(q)'
    BY <1>2, <1>7, <2>1, <2>2 DEF AttachedKnows
  <2>5. Attached!RowHasFile'
    <3>1. ASSUME NEW j \in rows', NEW p \in Callers, req[p] = [pc |-> "dropRow", id |-> j] PROVE p # r
      BY <1>1, <1>7, <3>1
    <3> QED BY <1>7, <2>1, <2>2, <3>1 DEF Attached!RowHasFile
  <2>6. AttachedKept'
    <3>1. ASSUME NEW p \in Callers, req[p].pc \in {"create", "unlink"} PROVE p # r
      BY <2>1, <3>1
    <3> QED BY <1>7, <2>1, <2>2, <3>1 DEF AttachedKept
  <2> QED BY <2>3, <2>4, <2>5, <2>6
<1>8. CASE Attached!DropRow(r) /\ Attached!Done(r) /\ UNCHANGED rows /\ lost' = lost \union (IF Attached!OnDisk(r) THEN {} ELSE {i})
  <2>1. UNCHANGED <<owners, rows, files, placeOf, begun, left>> /\ req[r].pc = "dropRow"
    BY <1>8 DEF Attached!DropRow
  <2>2. AttachedTyped'
    BY <1>4, <1>8, <2>1 DEF AttachedTyped
  <2>3. \A q \in Callers : AttachedKnows(q)'
    BY <1>4, <1>8, <2>1 DEF AttachedKnows
  <2>4. Attached!RowHasFile'
    BY <1>1, <1>4, <1>8, <2>1 DEF Attached!RowHasFile, Attached!OnDisk
  <2>5. AttachedKept'
    <3>1. ASSUME NEW p \in Callers, req[p].pc \in {"create", "unlink"} PROVE p # r
      BY <2>1, <3>1
    <3> QED BY <1>4, <1>8, <2>1, <3>1 DEF AttachedKept
  <2> QED BY <2>2, <2>3, <2>4, <2>5
<1>9. CASE Attached!Unlink(r)
  <2>1. UNCHANGED <<owners, rows, placeOf, begun, lost>> /\ req[r].pc = "unlink" /\ Attached!Done(r)
        /\ \/ files' = files \ {i} /\ left' = left
           \/ left' = left \union {i} /\ files' = files
    BY <1>1, <1>9 DEF Attached!Unlink
  <2>2. AttachedTyped'
    BY <1>4, <2>1 DEF AttachedTyped
  <2>3. \A q \in Callers : AttachedKnows(q)'
    BY <1>2, <1>4, <2>1 DEF AttachedKnows
  <2>4. Attached!RowHasFile'
    <3>1. ASSUME NEW p \in Callers, req[p].pc = "dropRow" PROVE p # r
      BY <2>1, <3>1
    <3> QED BY <1>2, <1>4, <2>1, <3>1 DEF Attached!RowHasFile
  <2>5. AttachedKept'
    BY <1>1, <1>4, <2>1 DEF AttachedKept
  <2> QED BY <2>2, <2>3, <2>4, <2>5
<1>10. Attached!DropObject(r) => (Attached!To(r, "dropRow") /\ files' = files \ {i}) \/ (Attached!Done(r) /\ UNCHANGED files)
  BY <1>1 DEF Attached!DropObject
<1>11. Attached!DropRow(r) => \/ rows' = rows \ {i} /\ UNCHANGED lost /\ (IF Attached!OnDisk(r) THEN Attached!To(r, "unlink") ELSE Attached!Done(r))
                              \/ Attached!Done(r) /\ UNCHANGED rows /\ lost' = lost \union (IF Attached!OnDisk(r) THEN {} ELSE {i})
  BY <1>1 DEF Attached!DropRow
<1> QED BY <1>5, <1>6, <1>7, <1>8, <1>9, <1>10, <1>11

LEMMA AttachedOwner ==
  ASSUME AttachedInv, NEW w \in Attached!Places, Attached!OwnerRemoved(w)
  PROVE  AttachedInv'
  BY DEF Attached!OwnerRemoved, AttachedInv, AttachedTyped, AttachedKnows, Attached!RowHasFile, AttachedKept

LEMMA AttachedCrash == ASSUME AttachedLimits, AttachedInv, Attached!Crash PROVE AttachedInv'
<1> USE DEF AttachedInv
<1>1. /\ req' = [r \in Callers |-> Attached!Idle] /\ UNCHANGED <<owners, rows, files, placeOf, begun>>
      /\ left' = left \union {req[r].id : r \in {q \in Callers : req[q].pc \in {"create", "unlink"}}}
      /\ lost' = lost \union {i \in {req[r].id : r \in {q \in Callers : req[q].pc \in {"dropRow"}}} : placeOf[i] = "bucket"}
  BY DEF Attached!Crash
<1>2. \A r \in Callers : req'[r] = [pc |-> "idle", id |-> 0]
  BY <1>1 DEF Attached!Idle
<1>3. \A r \in Callers : req[r].pc # "idle" => req[r].id \in Attached!Ids
  BY DEF AttachedKnows
<1>4. AttachedTyped'
  <2>1. req' \in [Callers -> AttachedReqs]
    BY <1>1 DEF Attached!Idle, AttachedReqs, AttachedLimits
  <2>2. left' \subseteq Attached!Ids
    BY <1>1, <1>3 DEF AttachedTyped
  <2>3. lost' \subseteq Attached!Ids
    BY <1>1, <1>3 DEF AttachedTyped
  <2> QED BY <1>1, <2>1, <2>2, <2>3 DEF AttachedTyped
<1>5. \A r \in Callers : AttachedKnows(r)'
  BY <1>2 DEF AttachedKnows
<1>6. Attached!RowHasFile'
  <2>1. ASSUME NEW i \in rows, NEW r \in Callers, req[r] = [pc |-> "dropRow", id |-> i], placeOf[i] = "bucket"
        PROVE  i \in lost'
    <3>1. req[r].pc \in {"dropRow"} /\ req[r].id = i
      BY <2>1
    <3> QED BY <1>1, <2>1, <3>1
  <2> QED BY <1>1, <2>1 DEF Attached!RowHasFile
<1>7. AttachedKept'
  <2>1. ASSUME NEW r \in Callers, req[r].pc \in {"create", "unlink"} PROVE req[r].id \in left'
    BY <1>1, <2>1
  <2> QED BY <1>1, <2>1 DEF AttachedKept
<1> QED BY <1>4, <1>5, <1>6, <1>7

LEMMA AttachedStep == ASSUME AttachedLimits PROVE AttachedInv /\ [Attached!Next]_(Attached!vars) => AttachedInv'
<1> SUFFICES ASSUME AttachedInv, [Attached!Next]_(Attached!vars) PROVE AttachedInv'
  OBVIOUS
<1>1. CASE UNCHANGED Attached!vars
  BY <1>1 DEF Attached!vars, AttachedInv, AttachedTyped, AttachedKnows, Attached!RowHasFile, AttachedKept
<1> QED BY <1>1, AttachedUploads, AttachedPut, AttachedRemoves, AttachedDrops, AttachedOwner, AttachedCrash DEF Attached!Next

LEMMA AttachedSound == AttachedInv => Attached!AttachmentsSound
  BY DEF AttachedInv, Attached!AttachmentsSound, AttachedKept, Attached!NoStrayFiles

-----------------------------------------------------------------------------
(* Roles.                                                                  *)

Roles == INSTANCE Roles WITH
    Requests <- Callers, Users <- RoleUsers, Keys <- RoleKeys,
    MaxRequests <- RoleRequests

\* Somebody starts as an owner.
RoleLimits == FirstOwners \subseteq RoleUsers /\ FirstOwners # {}

RoleAssigns == [pc : {"count", "assign"}, user : RoleUsers, role : {"owner", "team"}, id : Nat, stale : BOOLEAN]
RoleCreates == [pc : {"create"}, keys : SUBSET RoleKeys]
RoleClears == [pc : {"clear"}, id : Nat, keys : SUBSET RoleKeys]
RoleFills == [pc : {"fill"}, id : Nat, keys : SUBSET RoleKeys, seen : SUBSET RoleKeys, stale : BOOLEAN]
RoleDeletes == [pc : {"delete"}, id : Nat]
RoleReqs == {Roles!Idle} \union RoleAssigns \union RoleCreates \union RoleClears \union RoleFills \union RoleDeletes

RoleTyped ==
    /\ roleOf \in [RoleUsers -> {"owner", "team", "none"}]
    /\ team \in [exists : BOOLEAN, id : Nat, keys : SUBSET RoleKeys]
    /\ req \in [Callers -> RoleReqs]
    /\ mixed \in BOOLEAN

\* What a request that nobody has overtaken still knows: moving an owner leaves another
\* one, and the keys are those that it has deleted.
RoleKnows(r) ==
    /\ req[r].pc = "assign" /\ ~req[r].stale /\ req[r].role = "team" /\ roleOf[req[r].user] = "owner" =>
          \E o \in RoleUsers : o # req[r].user /\ roleOf[o] = "owner"
    /\ req[r].pc = "fill" =>
          /\ req[r].id <= team.id
          /\ team.exists /\ team.id = req[r].id /\ ~req[r].stale => team.keys = req[r].seen

RoleInv ==
    /\ RoleTyped
    /\ \A r \in Callers : RoleKnows(r)
    /\ Roles!RolesSound

LEMMA RoleInit == ASSUME RoleLimits PROVE Roles!Init => RoleInv
<1> SUFFICES ASSUME Roles!Init PROVE RoleInv
  OBVIOUS
<1>1. RoleTyped /\ \A r \in Callers : req[r].pc = "idle"
  BY DEF Roles!Init, RoleTyped, RoleReqs, Roles!Idle
<1>2. \A r \in Callers : RoleKnows(r)
  BY <1>1 DEF RoleKnows
<1>3. Roles!RolesSound
  BY DEF RoleLimits, Roles!Init, Roles!RolesSound, Roles!OwnerRemains, Roles!RoleIsKept, Roles!KeysAreAForm, Roles!Owners, Roles!Members
<1> QED BY <1>1, <1>2, <1>3 DEF RoleInv

\* Who is counted beside another owner is not the last one.
LEMMA RoleAnother ==
  ASSUME Roles!AnotherOwner, NEW u PROVE \E o \in RoleUsers : o # u /\ roleOf[o] = "owner"
<1>1. SUFFICES ASSUME \A o \in RoleUsers : roleOf[o] = "owner" => o = u PROVE FALSE
  OBVIOUS
<1>2. Roles!Owners = {} \/ Roles!Owners = {u}
  BY <1>1 DEF Roles!Owners
<1>3. Cardinality(Roles!Owners) \in {0, 1}
  BY <1>2, FS_EmptySet, FS_Singleton
<1> QED BY <1>3 DEF Roles!AnotherOwner, Roles!Cardinality, Cardinality

\* A request that begins or ends, and changes nothing else, keeps what the others know.
LEMMA RoleGoes ==
  ASSUME RoleInv, NEW r \in Callers, NEW next \in RoleReqs, req' = [req EXCEPT ![r] = next],
         UNCHANGED <<roleOf, team, form, mixed, demoted, dropped>>,
         next.pc = "fill" => next.id = team.id /\ next.seen = team.keys,
         next.pc = "assign" /\ next.role = "team" /\ roleOf[next.user] = "owner" =>
            \E o \in RoleUsers : o # next.user /\ roleOf[o] = "owner"
  PROVE  RoleInv'
<1>1. RoleTyped'
  BY DEF RoleInv, RoleTyped
<1>2. ASSUME NEW q \in Callers PROVE RoleKnows(q)'
  <2>1. CASE q = r
    <3>1. req'[q] = next
      BY <2>1 DEF RoleInv, RoleTyped
    <3>2. next.pc = "fill" => next.id \in Nat
      BY DEF RoleReqs, RoleAssigns, RoleCreates, RoleClears, RoleFills, RoleDeletes, Roles!Idle
    <3> QED BY <3>1, <3>2 DEF RoleKnows
  <2>2. CASE q # r
    <3>1. req'[q] = req[q]
      BY <2>2 DEF RoleInv, RoleTyped
    <3> QED BY <3>1 DEF RoleInv, RoleKnows
  <2> QED BY <2>1, <2>2
<1>3. Roles!RolesSound'
  BY DEF RoleInv, Roles!RolesSound, Roles!OwnerRemains, Roles!RoleIsKept, Roles!KeysAreAForm, Roles!Owners, Roles!Members
<1> QED BY <1>1, <1>2, <1>3 DEF RoleInv

LEMMA RoleIdle == Roles!Idle \in RoleReqs /\ Roles!Idle.pc = "idle"
  BY DEF RoleReqs, Roles!Idle

LEMMA RoleBegins ==
  ASSUME RoleInv, NEW r \in Callers,
         \/ \E a, u \in RoleUsers, role \in {"owner", "team"} : Roles!AssignBegins(r, a, u, role)
         \/ \E ks \in SUBSET RoleKeys : Roles!CreateBegins(r, ks) \/ Roles!UpdateBegins(r, ks)
         \/ Roles!DeleteBegins(r)
  PROVE  RoleInv'
<1>1. ASSUME NEW a \in RoleUsers, NEW u \in RoleUsers, NEW role \in {"owner", "team"}, Roles!AssignBegins(r, a, u, role) PROVE RoleInv'
  <2>1. team.id \in Nat
    BY DEF RoleInv, RoleTyped
  <2> DEFINE rec(pc) == [pc |-> pc, user |-> u, role |-> role, id |-> team.id, stale |-> FALSE]
  <2>2. \A pc \in {"count", "assign"} : rec(pc) \in RoleReqs
    BY <2>1 DEF RoleReqs, RoleAssigns
  <2>3. CASE roleOf[u] = "owner" /\ role # "owner"
    BY <1>1, <2>2, <2>3, RoleGoes DEF Roles!AssignBegins, Roles!Goto
  <2>4. CASE ~(roleOf[u] = "owner" /\ role # "owner") /\ roleOf[u] = role
    BY <1>1, <2>4, RoleIdle, RoleGoes DEF Roles!AssignBegins, Roles!Goto
  <2>5. CASE ~(roleOf[u] = "owner" /\ role # "owner") /\ roleOf[u] # role
    <3>1. ~(rec("assign").role = "team" /\ roleOf[rec("assign").user] = "owner")
      BY <2>5
    <3> QED BY <1>1, <2>2, <2>5, <3>1, RoleGoes DEF Roles!AssignBegins, Roles!Goto
  <2> QED BY <2>3, <2>4, <2>5
<1>2. ASSUME NEW ks \in SUBSET RoleKeys, Roles!CreateBegins(r, ks) PROVE RoleInv'
  <2>1. [pc |-> "create", keys |-> ks] \in RoleReqs
    BY DEF RoleReqs, RoleCreates
  <2> QED BY <1>2, <2>1, RoleGoes DEF Roles!CreateBegins, Roles!Goto
<1>3. ASSUME NEW ks \in SUBSET RoleKeys, Roles!UpdateBegins(r, ks) PROVE RoleInv'
  <2>1. [pc |-> "clear", id |-> team.id, keys |-> ks] \in RoleReqs
    BY DEF RoleReqs, RoleClears, RoleInv, RoleTyped
  <2>2. CASE ks = team.keys
    BY <1>3, <2>2, RoleIdle, RoleGoes DEF Roles!UpdateBegins, Roles!Goto
  <2>3. CASE ks # team.keys
    BY <1>3, <2>1, <2>3, RoleGoes DEF Roles!UpdateBegins, Roles!Goto
  <2> QED BY <2>2, <2>3
<1>4. CASE Roles!DeleteBegins(r)
  <2>1. [pc |-> "delete", id |-> team.id] \in RoleReqs
    BY DEF RoleReqs, RoleDeletes, RoleInv, RoleTyped
  <2>2. CASE Roles!Members = {}
    BY <1>4, <2>1, <2>2, RoleGoes DEF Roles!DeleteBegins, Roles!Goto
  <2>3. CASE Roles!Members # {}
    BY <1>4, <2>3, RoleIdle, RoleGoes DEF Roles!DeleteBegins, Roles!Goto
  <2> QED BY <2>2, <2>3
<1> QED BY <1>1, <1>2, <1>3, <1>4

LEMMA RoleCounts == ASSUME RoleInv, NEW r \in Callers, Roles!CountOwners(r) PROVE RoleInv'
<1>1. req[r] \in RoleAssigns
  BY DEF Roles!CountOwners, RoleInv, RoleTyped, RoleReqs, RoleCreates, RoleClears, RoleFills, RoleDeletes, Roles!Idle
<1>2. CASE Roles!AnotherOwner
  <2>1. PICK next : next = [req[r] EXCEPT !.pc = "assign"]
    OBVIOUS
  <2>2. next \in RoleAssigns /\ next.pc = "assign"
    BY <1>1, <2>1 DEF RoleAssigns
  <2>3. req' = [req EXCEPT ![r] = next]
    BY <1>2, <2>1 DEF Roles!CountOwners, Roles!To
  <2>4. \E o \in RoleUsers : o # next.user /\ roleOf[o] = "owner"
    BY <1>2, RoleAnother
  <2> QED BY <2>2, <2>3, <2>4, RoleGoes DEF Roles!CountOwners, RoleReqs
<1>3. CASE ~Roles!AnotherOwner
  BY <1>3, RoleIdle, RoleGoes DEF Roles!CountOwners, Roles!Goto
<1> QED BY <1>2, <1>3

\* The write of a role puts every assignment behind.
LEMMA RoleAssigned == ASSUME RoleInv, NEW r \in Callers, Roles!Assign(r) PROVE RoleInv'
<1>1. req[r] \in RoleAssigns
  BY DEF Roles!Assign, RoleInv, RoleTyped, RoleReqs, RoleCreates, RoleClears, RoleFills, RoleDeletes, Roles!Idle
<1>2. CASE ~(req[r].role = "owner" \/ Roles!Still(r))
  BY <1>2, RoleIdle, RoleGoes DEF Roles!Assign, Roles!Goto
<1>3. CASE req[r].role = "owner" \/ Roles!Still(r)
  <2>1. PICK u \in RoleUsers, role \in {"owner", "team"} : u = req[r].user /\ role = req[r].role
    BY <1>1 DEF RoleAssigns
  <2>2. /\ roleOf' = [roleOf EXCEPT ![u] = role]
        /\ demoted' = (demoted \/ (roleOf[u] = "owner" /\ req[r].stale))
        /\ UNCHANGED <<team, begun, form, mixed, dropped>>
    BY <1>3, <2>1 DEF Roles!Assign
  <2>3. ASSUME NEW q \in Callers
        PROVE  /\ req'[q] \in RoleReqs
               /\ req'[q].pc = "assign" => req'[q].stale
               /\ req'[q].pc = "fill" => req'[q] = req[q]
    <3>1. req'[q] = IF q = r THEN Roles!Idle ELSE IF req[q].pc = "assign" THEN [req[q] EXCEPT !.stale = TRUE] ELSE req[q]
      BY <1>3 DEF Roles!Assign
    <3>2. CASE q = r
      BY <3>1, <3>2, RoleIdle
    <3>3. CASE q # r /\ req[q].pc = "assign"
      <4>1. req[q] \in RoleAssigns
        BY <3>3 DEF RoleInv, RoleTyped, RoleReqs, RoleCreates, RoleClears, RoleFills, RoleDeletes, Roles!Idle
      <4>2. [req[q] EXCEPT !.stale = TRUE] \in RoleAssigns /\ [req[q] EXCEPT !.stale = TRUE].stale
            /\ [req[q] EXCEPT !.stale = TRUE].pc = "assign"
        BY <3>3, <4>1 DEF RoleAssigns
      <4> QED BY <3>1, <3>3, <4>2 DEF RoleReqs
    <3>4. CASE q # r /\ req[q].pc # "assign"
      BY <3>1, <3>4 DEF RoleInv, RoleTyped
    <3> QED BY <3>2, <3>3, <3>4
  <2>4. RoleTyped'
    <3>1. req' \in [Callers -> RoleReqs]
      <4>1. req' = [q \in Callers |-> req'[q]]
        BY <1>3 DEF Roles!Assign
      <4> QED BY <4>1, <2>3
    <3> QED BY <2>2, <3>1 DEF RoleInv, RoleTyped
  <2>5. \A q \in Callers : RoleKnows(q)'
    BY <2>2, <2>3 DEF RoleInv, RoleKnows
  <2>6. Roles!OwnerRemains'
    <3>1. CASE roleOf[u] = "owner" /\ role = "team" /\ ~req[r].stale
      <4>1. PICK o \in RoleUsers : o # u /\ roleOf[o] = "owner"
        BY <2>1, <3>1 DEF Roles!Assign, RoleInv, RoleKnows
      <4> QED BY <2>2, <4>1 DEF RoleInv, RoleTyped, Roles!OwnerRemains, Roles!Owners
    <3>2. CASE roleOf[u] = "owner" /\ role = "team" /\ req[r].stale
      BY <2>2, <3>2 DEF Roles!OwnerRemains
    <3>3. CASE roleOf[u] # "owner" \/ role = "owner"
      BY <2>2, <3>3 DEF RoleInv, RoleTyped, Roles!RolesSound, Roles!OwnerRemains, Roles!Owners
    <3> QED BY <3>1, <3>2, <3>3
  <2>7. Roles!RoleIsKept'
    <3>1. role = "team" => team.exists
      BY <1>3, <2>1 DEF Roles!Still
    <3> QED BY <2>2, <3>1 DEF RoleInv, RoleTyped, Roles!RolesSound, Roles!RoleIsKept, Roles!Owners, Roles!Members
  <2>8. Roles!KeysAreAForm'
    BY <2>2 DEF RoleInv, Roles!RolesSound, Roles!KeysAreAForm
  <2> QED BY <2>4, <2>5, <2>6, <2>7, <2>8 DEF RoleInv, Roles!RolesSound
<1> QED BY <1>2, <1>3

LEMMA RoleCreated == ASSUME RoleInv, NEW r \in Callers, Roles!Create(r) PROVE RoleInv'
<1>1. req[r] \in RoleCreates
  BY DEF Roles!Create, RoleInv, RoleTyped, RoleReqs, RoleAssigns, RoleClears, RoleFills, RoleDeletes, Roles!Idle
<1>2. CASE team.exists
  BY <1>2, RoleIdle, RoleGoes DEF Roles!Create, Roles!Goto
<1>3. CASE ~team.exists
  <2>1. PICK ks \in SUBSET RoleKeys : ks = req[r].keys
    BY <1>1 DEF RoleCreates
  <2>2. /\ team' = [exists |-> TRUE, id |-> team.id + 1, keys |-> ks] /\ form' = ks /\ mixed' = FALSE
        /\ req' = [req EXCEPT ![r] = Roles!Idle] /\ UNCHANGED <<roleOf, demoted, dropped>>
    BY <1>3, <2>1 DEF Roles!Create, Roles!Goto
  <2>3. RoleTyped'
    <3>1. team.id + 1 \in Nat
      BY DEF RoleInv, RoleTyped
    <3>2. team' \in [exists : BOOLEAN, id : Nat, keys : SUBSET RoleKeys]
      BY <2>2, <3>1
    <3> QED BY <2>2, <3>2, RoleIdle DEF RoleInv, RoleTyped
  <2>4. ASSUME NEW q \in Callers PROVE RoleKnows(q)'
    <3>1. req'[q] = req[q] \/ req'[q] = Roles!Idle
      BY <2>2 DEF RoleInv, RoleTyped
    <3>2. req[q].pc = "fill" => req[q].id \in Nat
      BY DEF RoleInv, RoleTyped, RoleReqs, RoleAssigns, RoleCreates, RoleClears, RoleFills, RoleDeletes, Roles!Idle
    <3>3. team.id \in Nat
      BY DEF RoleInv, RoleTyped
    <3> QED BY <2>2, <3>1, <3>2, <3>3, RoleIdle DEF RoleInv, RoleKnows
  <2>5. Roles!RolesSound'
    BY <2>2 DEF RoleInv, Roles!RolesSound, Roles!OwnerRemains, Roles!RoleIsKept, Roles!KeysAreAForm, Roles!Owners, Roles!Members
  <2> QED BY <2>3, <2>4, <2>5 DEF RoleInv
<1> QED BY <1>2, <1>3

LEMMA RoleCleared == ASSUME RoleInv, NEW r \in Callers, Roles!Clear(r) PROVE RoleInv'
<1>1. req[r] \in RoleClears
  BY DEF Roles!Clear, RoleInv, RoleTyped, RoleReqs, RoleAssigns, RoleCreates, RoleFills, RoleDeletes, Roles!Idle
<1>2. CASE ~Roles!Still(r)
  BY <1>2, RoleIdle, RoleGoes DEF Roles!Clear, Roles!Goto
<1>3. CASE Roles!Still(r)
  <2>1. [pc |-> "fill", id |-> team.id, keys |-> req[r].keys, seen |-> team.keys, stale |-> FALSE] \in RoleReqs
    BY <1>1 DEF RoleReqs, RoleClears, RoleFills, RoleInv, RoleTyped
  <2> QED BY <1>3, <2>1, RoleGoes DEF Roles!Clear, Roles!Goto
<1> QED BY <1>2, <1>3

\* The write of the keys puts every other one behind.
LEMMA RoleFilled == ASSUME RoleInv, NEW r \in Callers, Roles!Fill(r) PROVE RoleInv'
<1>1. req[r] \in RoleFills
  BY DEF Roles!Fill, RoleInv, RoleTyped, RoleReqs, RoleAssigns, RoleCreates, RoleClears, RoleDeletes, Roles!Idle
<1>2. CASE ~Roles!Still(r)
  BY <1>2, RoleIdle, RoleGoes DEF Roles!Fill, Roles!Goto
<1>3. CASE Roles!Still(r)
  <2>1. PICK ks \in SUBSET RoleKeys, seen \in SUBSET RoleKeys : ks = req[r].keys /\ seen = req[r].seen
    BY <1>1 DEF RoleFills
  <2>2. team' = [exists |-> team.exists, id |-> team.id, keys |-> (team.keys \ seen) \union ks]
    BY <1>3, <2>1 DEF Roles!Fill, RoleInv, RoleTyped
  <2>3. form' = ks /\ mixed' = req[r].stale /\ req[r].stale \in BOOLEAN /\ UNCHANGED <<roleOf, demoted, dropped>>
    BY <1>1, <1>3, <2>1 DEF Roles!Fill, RoleFills
  <2>4. ASSUME NEW q \in Callers
        PROVE  /\ req'[q] \in RoleReqs
               /\ req'[q].pc = "fill" => req[q].pc = "fill" /\ req'[q].stale /\ req'[q].id = req[q].id
               /\ req'[q].pc = "assign" => req'[q] = req[q]
    <3>1. req'[q] = IF q = r THEN Roles!Idle ELSE IF req[q].pc = "fill" THEN [req[q] EXCEPT !.stale = TRUE] ELSE req[q]
      BY <1>3 DEF Roles!Fill
    <3>2. CASE q = r
      BY <3>1, <3>2, RoleIdle
    <3>3. CASE q # r /\ req[q].pc = "fill"
      <4>1. req[q] \in RoleFills
        BY <3>3 DEF RoleInv, RoleTyped, RoleReqs, RoleCreates, RoleClears, RoleAssigns, RoleDeletes, Roles!Idle
      <4>2. [req[q] EXCEPT !.stale = TRUE] \in RoleFills /\ [req[q] EXCEPT !.stale = TRUE].stale
            /\ [req[q] EXCEPT !.stale = TRUE].pc = "fill" /\ [req[q] EXCEPT !.stale = TRUE].id = req[q].id
        BY <3>3, <4>1 DEF RoleFills
      <4> QED BY <3>1, <3>3, <4>2 DEF RoleReqs
    <3>4. CASE q # r /\ req[q].pc # "fill"
      BY <3>1, <3>4 DEF RoleInv, RoleTyped
    <3> QED BY <3>2, <3>3, <3>4
  <2>5. RoleTyped'
    <3>1. req' \in [Callers -> RoleReqs]
      <4>1. req' = [q \in Callers |-> req'[q]]
        BY <1>3 DEF Roles!Fill
      <4> QED BY <4>1, <2>4
    <3> QED BY <2>2, <2>3, <3>1 DEF RoleInv, RoleTyped
  <2>6. \A q \in Callers : RoleKnows(q)'
    BY <2>2, <2>3, <2>4 DEF RoleInv, RoleKnows
  <2>7. Roles!KeysAreAForm'
    <3>1. ~req[r].stale => team.keys = seen
      BY <1>3, <2>1 DEF Roles!Still, Roles!Fill, RoleInv, RoleKnows
    <3> QED BY <2>2, <2>3, <3>1 DEF Roles!KeysAreAForm
  <2>8. Roles!OwnerRemains' /\ Roles!RoleIsKept'
    BY <2>2, <2>3 DEF RoleInv, Roles!RolesSound, Roles!OwnerRemains, Roles!RoleIsKept, Roles!Owners, Roles!Members
  <2> QED BY <2>5, <2>6, <2>7, <2>8 DEF RoleInv, Roles!RolesSound
<1> QED BY <1>2, <1>3

LEMMA RoleDeleted == ASSUME RoleInv, NEW r \in Callers, Roles!Delete(r) PROVE RoleInv'
<1>1. req' = [req EXCEPT ![r] = Roles!Idle] /\ UNCHANGED <<form, mixed, demoted>>
  BY DEF Roles!Delete, Roles!Goto
<1>2. CASE ~Roles!Still(r)
  BY <1>2, RoleIdle, RoleGoes DEF Roles!Delete, Roles!Goto
<1>3. CASE Roles!Still(r)
  <2>1. /\ team' = [exists |-> FALSE, id |-> team.id, keys |-> {}]
        /\ roleOf' = [u \in RoleUsers |-> IF u \in Roles!Members THEN "none" ELSE roleOf[u]]
        /\ dropped' = dropped \union Roles!Members
    BY <1>3 DEF Roles!Delete, RoleInv, RoleTyped
  <2>2. RoleTyped'
    BY <1>1, <2>1, RoleIdle DEF RoleInv, RoleTyped
  <2>3. \A u \in RoleUsers : (roleOf'[u] = "owner") <=> (roleOf[u] = "owner")
    BY <2>1 DEF Roles!Members
  <2>4. ASSUME NEW q \in Callers PROVE RoleKnows(q)'
    <3>1. req'[q] = req[q] \/ req'[q] = Roles!Idle
      BY <1>1 DEF RoleInv, RoleTyped
    <3>2. req[q].pc = "assign" => req[q].user \in RoleUsers
      BY DEF RoleInv, RoleTyped, RoleReqs, RoleAssigns, RoleCreates, RoleClears, RoleFills, RoleDeletes, Roles!Idle
    <3> QED BY <2>1, <2>3, <3>1, <3>2, RoleIdle DEF RoleInv, RoleKnows
  <2>5. Roles!RolesSound'
    BY <1>1, <2>1, <2>3 DEF RoleInv, RoleTyped, Roles!RolesSound, Roles!OwnerRemains, Roles!RoleIsKept, Roles!KeysAreAForm, Roles!Owners, Roles!Members
  <2> QED BY <2>2, <2>4, <2>5 DEF RoleInv
<1> QED BY <1>2, <1>3

LEMMA RoleStep == RoleInv /\ [Roles!Next]_(Roles!vars) => RoleInv'
<1> SUFFICES ASSUME RoleInv, [Roles!Next]_(Roles!vars) PROVE RoleInv'
  OBVIOUS
<1>1. CASE UNCHANGED Roles!vars
  BY <1>1 DEF Roles!vars, RoleInv, RoleTyped, RoleKnows, Roles!RolesSound, Roles!OwnerRemains, Roles!RoleIsKept, Roles!KeysAreAForm, Roles!Owners, Roles!Members
<1> QED BY <1>1, RoleBegins, RoleCounts, RoleAssigned, RoleCreated, RoleCleared, RoleFilled, RoleDeleted DEF Roles!Next

LEMMA RoleSound == RoleInv => Roles!RolesSound
  BY DEF RoleInv

-----------------------------------------------------------------------------
(* Credentials.                                                            *)

Vault == INSTANCE CredentialHistory WITH
    Requests <- Callers, Forms <- SecretForms, Names <- ProfileNames,
    MaxRequests <- VaultRequests, MaxRestarts <- VaultRestarts

\* What the account has held is whole, and is there, or in its history, or was trampled.
VaultKept ==
    /\ row # Vault!NoCipher => row \in past
    /\ Vault!NothingLost
    /\ Vault!HistoryIsPast
    /\ \A c \in past : DOMAIN c.secret = Vault!Fields

\* A change under way starts from what the account has held, which it has filed before it
\* writes, and stores a whole secret; a slug goes with its name.
VaultAsked(q) ==
    /\ q.pc \in {"insert", "version", "write"} => DOMAIN q.next.secret = Vault!Fields
    /\ q.pc \in {"version", "write"} =>
          /\ q = [pc |-> q.pc, base |-> q.base, next |-> q.next]
          /\ q.base \in past
    /\ q.pc = "write" => row = Vault!NoCipher \/ q.base \in versions
    /\ q.pc = "profile" => q.to.slug[1] = q.to.name

VaultInv ==
    /\ req = [r \in Callers |-> req[r]]
    /\ VaultKept
    /\ \A r \in Callers : VaultAsked(req[r])
    /\ Vault!SlugOfName

LEMMA VaultNone == /\ Vault!NoReq.pc = "idle"
                   /\ VaultAsked(Vault!NoReq) /\ VaultAsked(Vault!NoReq)'
  BY DEF Vault!NoReq, VaultAsked

LEMMA VaultInit == Vault!Init => VaultInv
<1> SUFFICES ASSUME Vault!Init PROVE VaultInv
  OBVIOUS
<1>1. req = [r \in Callers |-> Vault!NoReq] /\ row = Vault!NoCipher /\ versions = {} /\ past = {} /\ trampled = {}
  BY DEF Vault!Init
<1>2. Vault!SlugOfName
  <2>1. PICK first : first = [name |-> Vault!Min(ProfileNames), slug |-> <<Vault!Min(ProfileNames), 1>>]
    OBVIOUS
  <2>2. first.slug[1] = first.name
    BY <2>1
  <2>3. profile = [p \in {Vault!Owner} |-> first]
    BY <2>1 DEF Vault!Init
  <2> QED BY <2>2, <2>3 DEF Vault!SlugOfName
<1>3. VaultKept
  BY <1>1 DEF VaultKept, Vault!NothingLost, Vault!HistoryIsPast
<1> QED BY <1>1, <1>2, <1>3, VaultNone DEF VaultInv

\* A request that arrives and changes nothing else.
LEMMA VaultArrives ==
  ASSUME VaultInv, NEW r \in Callers, NEW next, Vault!Arrives(r, next), VaultAsked(next)
  PROVE  VaultInv'
<1>1. UNCHANGED <<profile, row, versions, past, trampled, keys>>
  BY DEF Vault!Arrives, Vault!accountVars
<1>2. VaultKept' /\ Vault!SlugOfName'
  BY <1>1 DEF VaultInv, VaultKept, Vault!NothingLost, Vault!HistoryIsPast, Vault!SlugOfName
<1>3. /\ req' = [q \in Callers |-> req'[q]]
      /\ \A q \in Callers : req'[q] = next \/ req'[q] = req[q]
  BY DEF VaultInv, Vault!Arrives
<1>4. VaultAsked(next)'
  BY <1>1 DEF VaultAsked
<1>5. \A q \in Callers : VaultAsked(req[q])'
  BY <1>1, <1>3 DEF VaultAsked, VaultInv
<1> QED BY <1>2, <1>3, <1>5 DEF VaultInv

LEMMA VaultStep == VaultInv /\ [Vault!Next]_(Vault!vars) => VaultInv'
<1> SUFFICES ASSUME VaultInv, [Vault!Next]_(Vault!vars) PROVE VaultInv'
  OBVIOUS
<1>1. ASSUME NEW r \in Callers, NEW s \in {[pw |-> 1, ans |-> 1]}, Vault!CreateAccount(r, s) PROVE VaultInv'
  <2>1. PICK next : next = [pc |-> "insert", next |-> Vault!Encrypt(s)]
    OBVIOUS
  <2>2. DOMAIN s = Vault!Fields
    BY DEF Vault!Fields
  <2>3. VaultAsked(next)
    BY <2>1, <2>2 DEF VaultAsked, Vault!Encrypt
  <2> QED BY <1>1, <2>1, <2>3, VaultArrives DEF Vault!CreateAccount
<1>2. ASSUME NEW r \in Callers, NEW f \in SecretForms, Vault!Update(r, f) PROVE VaultInv'
  <2>1. PICK m : m = Vault!Merged(f)
    OBVIOUS
  <2>2. PICK next : next = (IF Vault!Diff(Vault!Read(row), m) # {}
                            THEN [pc |-> "version", base |-> row, next |-> Vault!Encrypt(m)]
                            ELSE [pc |-> "details"])
    OBVIOUS
  <2>3. row # Vault!NoCipher /\ Vault!Arrives(r, next)
    BY <1>2, <2>1, <2>2 DEF Vault!Update
  <2>4. row \in past
    BY <2>3 DEF VaultInv, VaultKept
  <2>5. DOMAIN m = Vault!Fields
    BY <2>1 DEF Vault!Merged
  <2>6. CASE next = [pc |-> "version", base |-> row, next |-> Vault!Encrypt(m)]
    <3>1. next.pc = "version" /\ next.base = row /\ next.next.secret = m
      BY <2>6 DEF Vault!Encrypt
    <3>2. next = [pc |-> next.pc, base |-> next.base, next |-> next.next]
      BY <2>6
    <3>3. VaultAsked(next)
      BY <3>1, <3>2, <2>4, <2>5 DEF VaultAsked
    <3> QED BY <2>3, <3>3, VaultArrives
  <2>7. CASE next = [pc |-> "details"]
    <3>1. VaultAsked(next)
      BY <2>7 DEF VaultAsked
    <3> QED BY <2>3, <3>1, VaultArrives
  <2> QED BY <2>2, <2>6, <2>7
<1>3. ASSUME NEW r \in Callers, NEW v \in versions, Vault!RestoreVersion(r, v) PROVE VaultInv'
  <2>1. PICK next : next = [pc |-> "version", base |-> row, next |-> v]
    OBVIOUS
  <2>2. row # Vault!NoCipher /\ Vault!Arrives(r, next)
    BY <1>3, <2>1 DEF Vault!RestoreVersion
  <2>3. row \in past /\ DOMAIN v.secret = Vault!Fields
    BY <2>2 DEF VaultInv, VaultKept, Vault!HistoryIsPast
  <2>4. next.pc = "version" /\ next.base = row /\ next.next = v
    BY <2>1
  <2>5. next = [pc |-> next.pc, base |-> next.base, next |-> next.next]
    BY <2>1
  <2>6. VaultAsked(next)
    BY <2>3, <2>4, <2>5 DEF VaultAsked
  <2> QED BY <2>2, <2>6, VaultArrives
<1>4. ASSUME NEW r \in Callers, Vault!HardDelete(r) PROVE VaultInv'
  <2>1. PICK next : next = [pc |-> "delete"]
    OBVIOUS
  <2>2. VaultAsked(next)
    BY <2>1 DEF VaultAsked
  <2> QED BY <1>4, <2>1, <2>2, VaultArrives DEF Vault!HardDelete
<1>5. ASSUME NEW r \in Callers, Vault!Insert(r) PROVE VaultInv'
  <2>1. /\ req' = [req EXCEPT ![r] = Vault!NoReq] /\ req[r].pc = "insert"
        /\ UNCHANGED <<profile, versions, trampled, keys>>
    BY <1>5 DEF Vault!Insert, Vault!Ends
  <2>2. req' = [q \in Callers |-> req'[q]] /\ \A q \in Callers : req'[q] \in {req[q], Vault!NoReq}
    BY <2>1 DEF VaultInv
  <2>3. Vault!SlugOfName'
    BY <2>1 DEF VaultInv, Vault!SlugOfName
  <2>4. CASE UNCHANGED <<row, past>>
    <3>1. VaultKept'
      BY <2>1, <2>4 DEF VaultInv, VaultKept, Vault!NothingLost, Vault!HistoryIsPast
    <3>2. \A q \in Callers : VaultAsked(req[q])'
      BY <2>1, <2>2, <2>4, VaultNone DEF VaultInv, VaultAsked
    <3> QED BY <2>2, <2>3, <3>1, <3>2 DEF VaultInv
  <2>5. CASE past = {} /\ row' = req[r].next /\ past' = {req[r].next}
    <3>1. versions = {} /\ DOMAIN req[r].next.secret = Vault!Fields
      BY <2>1, <2>5 DEF VaultInv, VaultKept, Vault!HistoryIsPast, VaultAsked
    <3>2. VaultKept'
      BY <2>1, <2>5, <3>1 DEF VaultKept, Vault!NothingLost, Vault!HistoryIsPast
    <3>3. \A q \in Callers : req[q].pc \notin {"version", "write"}
      BY <2>5 DEF VaultInv, VaultAsked
    <3>4. \A q \in Callers : VaultAsked(req[q])'
      BY <2>1, <2>2, <3>3, VaultNone DEF VaultInv, VaultAsked
    <3> QED BY <2>2, <2>3, <3>2, <3>4 DEF VaultInv
  <2> QED BY <1>5, <2>4, <2>5 DEF Vault!Insert
<1>6. ASSUME NEW r \in Callers, Vault!Details(r) PROVE VaultInv'
  <2>1. req' = [req EXCEPT ![r] = Vault!NoReq] /\ UNCHANGED <<profile, row, versions, past, trampled, keys>>
    BY <1>6 DEF Vault!Details, Vault!Ends, Vault!accountVars
  <2>2. req' = [q \in Callers |-> req'[q]] /\ \A q \in Callers : req'[q] \in {req[q], Vault!NoReq}
    BY <2>1 DEF VaultInv
  <2>3. Vault!SlugOfName' /\ VaultKept'
    BY <2>1 DEF VaultInv, Vault!SlugOfName, VaultKept, Vault!NothingLost, Vault!HistoryIsPast
  <2>4. \A q \in Callers : VaultAsked(req[q])'
    BY <2>1, <2>2, VaultNone DEF VaultInv, VaultAsked
  <2> QED BY <2>2, <2>3, <2>4 DEF VaultInv
<1>7. ASSUME NEW r \in Callers, Vault!Snapshot(r) PROVE VaultInv'
  <2>1. req[r].pc = "version" /\ UNCHANGED <<profile, row, past, trampled, keys>>
    BY <1>7 DEF Vault!Snapshot, Vault!Ends, Vault!Goes
  <2>2. Vault!SlugOfName'
    BY <2>1 DEF VaultInv, Vault!SlugOfName
  <2>3. CASE row = Vault!NoCipher /\ UNCHANGED versions /\ req' = [req EXCEPT ![r] = Vault!NoReq]
    <3>1. req' = [q \in Callers |-> req'[q]] /\ \A q \in Callers : req'[q] \in {req[q], Vault!NoReq}
      BY <2>3 DEF VaultInv
    <3>2. VaultKept'
      BY <2>1, <2>3 DEF VaultInv, VaultKept, Vault!NothingLost, Vault!HistoryIsPast
    <3>3. \A q \in Callers : VaultAsked(req[q])'
      BY <2>1, <2>3, <3>1, VaultNone DEF VaultInv, VaultAsked
    <3> QED BY <2>2, <3>1, <3>2, <3>3 DEF VaultInv
  <2>4. CASE versions' = versions \cup {req[r].base} /\ req' = [req EXCEPT ![r] = [req[r] EXCEPT !.pc = "write"]]
    <3>1. PICK q0 : q0 = req[r]
      OBVIOUS
    <3>2. PICK q1 : q1 = [q0 EXCEPT !.pc = "write"]
      OBVIOUS
    <3>3. VaultAsked(q0)
      BY <3>1 DEF VaultInv
    <3>4. /\ q1.pc = "write" /\ q1.base = q0.base /\ q1.next = q0.next
          /\ q1 = [pc |-> q1.pc, base |-> q1.base, next |-> q1.next]
      <4>1. q0 = [pc |-> q0.pc, base |-> q0.base, next |-> q0.next]
        BY <2>1, <3>1, <3>3 DEF VaultAsked
      <4>2. q1 = [pc |-> "write", base |-> q0.base, next |-> q0.next]
        BY <3>2, <4>1
      <4> QED BY <4>2
    <3>5. q0.base \in past /\ q0.base \in versions' /\ versions \subseteq versions'
      BY <2>1, <2>4, <3>1, <3>3 DEF VaultAsked
    <3>6. VaultAsked(q1)'
      BY <2>1, <3>1, <3>3, <3>4, <3>5 DEF VaultAsked
    <3>7. req' = [q \in Callers |-> req'[q]] /\ \A q \in Callers : req'[q] \in {req[q], q1}
      BY <2>4, <3>1, <3>2 DEF VaultInv
    <3>8. VaultKept'
      BY <2>1, <2>4, <3>1, <3>5 DEF VaultInv, VaultKept, Vault!NothingLost, Vault!HistoryIsPast
    <3>9. \A q \in Callers : VaultAsked(req[q])'
      <4> SUFFICES ASSUME NEW q \in Callers PROVE VaultAsked(req[q])'
        OBVIOUS
      <4>1. CASE req'[q] = q1
        BY <3>6, <4>1 DEF VaultAsked
      <4>2. CASE req'[q] = req[q]
        BY <2>1, <3>5, <4>2 DEF VaultInv, VaultAsked
      <4> QED BY <3>7, <4>1, <4>2
    <3> QED BY <2>2, <3>7, <3>8, <3>9 DEF VaultInv
  <2> QED BY <1>7, <2>3, <2>4 DEF Vault!Snapshot, Vault!Ends, Vault!Goes, Vault!Filed
<1>8. ASSUME NEW r \in Callers, Vault!Write(r) PROVE VaultInv'
  <2>1. /\ req[r].pc = "write" /\ req' = [req EXCEPT ![r] = Vault!NoReq]
        /\ UNCHANGED <<profile, versions, keys>>
    BY <1>8 DEF Vault!Write, Vault!Ends
  <2>2. req' = [q \in Callers |-> req'[q]] /\ \A q \in Callers : req'[q] \in {req[q], Vault!NoReq}
    BY <2>1 DEF VaultInv
  <2>3. Vault!SlugOfName'
    BY <2>1 DEF VaultInv, Vault!SlugOfName
  <2>4. VaultAsked(req[r])
    BY DEF VaultInv
  <2>5. CASE UNCHANGED <<row, past, trampled>>
    <3>1. VaultKept'
      BY <2>1, <2>5 DEF VaultInv, VaultKept, Vault!NothingLost, Vault!HistoryIsPast
    <3>2. \A q \in Callers : VaultAsked(req[q])'
      BY <2>1, <2>2, <2>5, VaultNone DEF VaultInv, VaultAsked
    <3> QED BY <2>2, <2>3, <3>1, <3>2 DEF VaultInv
  <2>6. CASE /\ row # Vault!NoCipher /\ row' = req[r].next /\ past' = past \cup {row'}
             /\ trampled' = IF row = req[r].base THEN trampled ELSE trampled \cup {row}
    <3>1. req[r].base \in versions /\ DOMAIN req[r].next.secret = Vault!Fields
      BY <2>1, <2>4, <2>6 DEF VaultAsked
    <3>2. Vault!NothingLost'
      BY <2>1, <2>6, <3>1 DEF VaultInv, VaultKept, Vault!NothingLost
    <3>3. VaultKept'
      BY <2>1, <2>6, <3>1, <3>2 DEF VaultInv, VaultKept, Vault!HistoryIsPast
    <3>4. \A q \in Callers : VaultAsked(req[q])'
      BY <2>1, <2>2, <2>6, VaultNone DEF VaultInv, VaultAsked
    <3> QED BY <2>2, <2>3, <3>3, <3>4 DEF VaultInv
  <2> QED BY <1>8, <2>5, <2>6 DEF Vault!Write
<1>9. ASSUME NEW r \in Callers, Vault!Delete(r) PROVE VaultInv'
  <2>1. /\ row' = Vault!NoCipher /\ versions' = {} /\ req' = [req EXCEPT ![r] = Vault!NoReq]
        /\ UNCHANGED <<profile, past, trampled, keys>>
    BY <1>9 DEF Vault!Delete, Vault!Gone, Vault!Ends
  <2>2. req' = [q \in Callers |-> req'[q]] /\ \A q \in Callers : req'[q] \in {req[q], Vault!NoReq}
    BY <2>1 DEF VaultInv
  <2>3. Vault!SlugOfName' /\ VaultKept'
    BY <2>1 DEF VaultInv, Vault!SlugOfName, VaultKept, Vault!NothingLost, Vault!HistoryIsPast
  <2>4. \A q \in Callers : VaultAsked(req[q])'
    BY <2>1, <2>2, VaultNone DEF VaultInv, VaultAsked
  <2> QED BY <2>2, <2>3, <2>4 DEF VaultInv
<1>10. ASSUME NEW r \in Callers, NEW p \in Vault!Profiles, NEW n \in ProfileNames, Vault!CreateProfile(r, p, n) PROVE VaultInv'
  <2>1. PICK next : next = [pc |-> "profile", p |-> p, new |-> TRUE, to |-> [name |-> n, slug |-> Vault!Free(n, p)]]
    OBVIOUS
  <2>2. Vault!Free(n, p)[1] = n
    BY DEF Vault!Free
  <2>3. next.pc = "profile" /\ next.to.slug[1] = next.to.name
    BY <2>1, <2>2
  <2>4. VaultAsked(next)
    BY <2>3 DEF VaultAsked
  <2> QED BY <1>10, <2>1, <2>4, VaultArrives DEF Vault!CreateProfile
<1>11. ASSUME NEW r \in Callers, NEW p \in Vault!Profiles, NEW n \in ProfileNames, Vault!Rename(r, p, n) PROVE VaultInv'
  <2>1. PICK kept : kept = (IF Vault!KeptSlug(p, n) THEN profile[p].slug ELSE Vault!Free(n, p))
    OBVIOUS
  <2>2. PICK next : next = [pc |-> "profile", p |-> p, new |-> FALSE, to |-> [name |-> n, slug |-> kept]]
    OBVIOUS
  <2>3. Vault!Alive(p) /\ Vault!Arrives(r, next)
    BY <1>11, <2>1, <2>2 DEF Vault!Rename
  <2>4. kept[1] = n
    BY <2>1, <2>3 DEF Vault!KeptSlug, Vault!Free, Vault!Alive, VaultInv, Vault!SlugOfName
  <2>5. next.pc = "profile" /\ next.to.slug[1] = next.to.name
    BY <2>2, <2>4
  <2>6. VaultAsked(next)
    BY <2>5 DEF VaultAsked
  <2> QED BY <2>3, <2>6, VaultArrives
<1>12. ASSUME NEW r \in Callers, NEW p \in Vault!Profiles, Vault!DeleteProfile(r, p) PROVE VaultInv'
  <2>1. PICK next : next = [pc |-> "drop", p |-> p]
    OBVIOUS
  <2>2. VaultAsked(next)
    BY <2>1 DEF VaultAsked
  <2> QED BY <1>12, <2>1, <2>2, VaultArrives DEF Vault!DeleteProfile
<1>13. ASSUME NEW r \in Callers, Vault!WriteProfile(r) PROVE VaultInv'
  <2>1. /\ req[r].pc = "profile" /\ req' = [req EXCEPT ![r] = Vault!NoReq]
        /\ UNCHANGED <<row, versions, past, trampled, keys>>
    BY <1>13 DEF Vault!WriteProfile, Vault!Ends, Vault!accountVars
  <2>2. req' = [q \in Callers |-> req'[q]] /\ \A q \in Callers : req'[q] \in {req[q], Vault!NoReq}
    BY <2>1 DEF VaultInv
  <2>3. VaultKept'
    BY <2>1 DEF VaultInv, VaultKept, Vault!NothingLost, Vault!HistoryIsPast
  <2>4. \A q \in Callers : VaultAsked(req[q])'
    BY <2>1, <2>2, VaultNone DEF VaultInv, VaultAsked
  <2>5. req[r].to.slug[1] = req[r].to.name
    BY <2>1 DEF VaultInv, VaultAsked
  <2>6. \/ profile' = profile
        \/ profile' = [q \in DOMAIN profile \cup {req[r].p} |-> IF q = req[r].p THEN req[r].to ELSE profile[q]]
    BY <1>13 DEF Vault!WriteProfile
  <2>7. Vault!SlugOfName'
    BY <2>5, <2>6 DEF VaultInv, Vault!SlugOfName
  <2> QED BY <2>2, <2>3, <2>4, <2>7 DEF VaultInv
<1>14. ASSUME NEW r \in Callers, Vault!Drop(r) PROVE VaultInv'
  <2>1. /\ req' = [req EXCEPT ![r] = Vault!NoReq] /\ UNCHANGED <<past, trampled, keys>>
        /\ profile' = [q \in DOMAIN profile \ {req[r].p} |-> profile[q]]
        /\ (row' = Vault!NoCipher /\ versions' = {}) \/ UNCHANGED <<row, versions>>
    BY <1>14 DEF Vault!Drop, Vault!Ends, Vault!Gone, Vault!accountVars
  <2>2. req' = [q \in Callers |-> req'[q]] /\ \A q \in Callers : req'[q] \in {req[q], Vault!NoReq}
    BY <2>1 DEF VaultInv
  <2>3. Vault!SlugOfName' /\ VaultKept'
    BY <2>1 DEF VaultInv, Vault!SlugOfName, VaultKept, Vault!NothingLost, Vault!HistoryIsPast
  <2>4. \A q \in Callers : VaultAsked(req[q])'
    BY <2>1, <2>2, VaultNone DEF VaultInv, VaultAsked
  <2> QED BY <2>2, <2>3, <2>4 DEF VaultInv
<1>15. CASE Vault!Restart
  <2>1. req' = [r \in Callers |-> Vault!NoReq] /\ UNCHANGED <<profile, row, versions, past, trampled>>
    BY <1>15 DEF Vault!Restart, Vault!accountVars
  <2>2. Vault!SlugOfName' /\ VaultKept'
    BY <2>1 DEF VaultInv, Vault!SlugOfName, VaultKept, Vault!NothingLost, Vault!HistoryIsPast
  <2> QED BY <2>1, <2>2, VaultNone DEF VaultInv
<1>16. CASE UNCHANGED Vault!vars
  BY <1>16 DEF Vault!vars, Vault!accountVars, VaultInv, Vault!SlugOfName, VaultKept, Vault!NothingLost, Vault!HistoryIsPast, VaultAsked
<1> QED
  BY <1>1, <1>2, <1>3, <1>4, <1>5, <1>6, <1>7, <1>8, <1>9, <1>10, <1>11, <1>12, <1>13, <1>14, <1>15, <1>16 DEF Vault!Next

LEMMA VaultSound == VaultInv => Vault!CredentialsSound
  BY DEF VaultInv, VaultKept, Vault!CredentialsSound

-----------------------------------------------------------------------------
(* Seeds.                                                                  *)

Seeds == INSTANCE Seeding WITH
    MaxRuns <- SeedMaxRuns, MaxEdits <- SeedMaxEdits, MaxCuts <- SeedMaxCuts

\* What every release knows is known to be among all permissions.
SeedLimits == Shipped \subseteq Perms

SeedPoints == {"catalogue", "clear", "owner", "read", "add", "drop", "log", "users", "assignments", "entry", "prompts",
               "audit", "phones", "portfolio", "backups", "second", "end"}
SeedReads == Perms \union {"none", "manager", "other"} \union Seeds!Sections
SeedRuns == {Seeds!Idle} \union [kind : {"full", "system"}, pc : SeedPoints, read : SUBSET SeedReads]

SeedTyped ==
    /\ coded \subseteq Perms /\ catalogue \subseteq Perms /\ manager \subseteq catalogue
    /\ staff \in {"none", "manager", "other"}
    /\ demo \in [Seeds!Sections -> SUBSET Seeds!All] /\ touched \subseteq Seeds!Sections
    /\ run \in SeedRuns

\* A run passes the catalogue, then the owner, with all that the code knows; the
\* system seed fills only a role that it has read empty.
SeedOrder ==
    /\ catalogue # {} => coded \subseteq catalogue
    /\ complete => coded \subseteq catalogue
    /\ run.pc \notin {"idle", "catalogue"} => coded \subseteq catalogue
    /\ run.pc \notin {"idle", "catalogue", "clear", "owner"} => catalogue \subseteq owner
    /\ run.pc = "add" /\ run.kind = "system" => run.read = {}
    /\ run.pc = "second" => \E s \in Seeds!Sections : run.read = {s}

SeedInv == SeedTyped /\ SeedOrder /\ Seeds!OwnerHasAll /\ Seeds!ManagerIsSaved /\ Seeds!SectionsWhole /\ Seeds!AssignmentsLogged

LEMMA SeedInit == ASSUME SeedLimits PROVE Seeds!Init => SeedInv
  BY DEF SeedLimits, Seeds!Init, SeedInv, SeedTyped, SeedOrder, SeedRuns, Seeds!Idle, Seeds!At, Seeds!OwnerHasAll, Seeds!ManagerIsSaved, Seeds!SectionsWhole,
         Seeds!AssignmentsLogged, Seeds!All

\* The section after another, as main goes through them.
LEMMA SeedAfter == ASSUME NEW s \in Seeds!Sections PROVE Seeds!After(s) \in {"phones", "portfolio", "backups", "end"}
<1>1. PICK i \in 1..4 : Seeds!SectionOrder[i] = s
  BY DEF Seeds!SectionOrder, Seeds!Sections
<1>2. DOMAIN Seeds!SectionOrder = 1..4 /\ Len(Seeds!SectionOrder) = 4
  BY DEF Seeds!SectionOrder
<1>3. \A j \in DOMAIN Seeds!SectionOrder : Seeds!SectionOrder[j] = s => j = i
  BY <1>1, <1>2 DEF Seeds!SectionOrder, Seeds!Sections
<1>4. (CHOOSE j \in DOMAIN Seeds!SectionOrder : Seeds!SectionOrder[j] = s) = i
  BY <1>1, <1>2, <1>3
<1> QED BY <1>1, <1>2, <1>4 DEF Seeds!After, Seeds!SectionOrder

\* What a run changes of itself stays a run.
LEMMA SeedGoes ==
  ASSUME run \in SeedRuns, ~Seeds!At("idle"), NEW pc \in SeedPoints
  PROVE  /\ [run EXCEPT !.pc = pc] \in SeedRuns
         /\ [run EXCEPT !.pc = pc].pc = pc /\ [run EXCEPT !.pc = pc].read = run.read /\ [run EXCEPT !.pc = pc].kind = run.kind
         /\ \A set \in SUBSET SeedReads :
               /\ [run EXCEPT !.pc = pc, !.read = set] \in SeedRuns
               /\ [run EXCEPT !.pc = pc, !.read = set].pc = pc
               /\ [run EXCEPT !.pc = pc, !.read = set].read = set
               /\ [run EXCEPT !.pc = pc, !.read = set].kind = run.kind
<1>1. run \in [kind : {"full", "system"}, pc : SeedPoints, read : SUBSET SeedReads]
  BY DEF SeedRuns, Seeds!At, Seeds!Idle
<1>2. /\ [run EXCEPT !.pc = pc] \in [kind : {"full", "system"}, pc : SeedPoints, read : SUBSET SeedReads]
      /\ [run EXCEPT !.pc = pc].pc = pc /\ [run EXCEPT !.pc = pc].read = run.read /\ [run EXCEPT !.pc = pc].kind = run.kind
  BY <1>1
<1>3. ASSUME NEW set \in SUBSET SeedReads
      PROVE  /\ [run EXCEPT !.pc = pc, !.read = set] \in [kind : {"full", "system"}, pc : SeedPoints, read : SUBSET SeedReads]
             /\ [run EXCEPT !.pc = pc, !.read = set].pc = pc
             /\ [run EXCEPT !.pc = pc, !.read = set].read = set
             /\ [run EXCEPT !.pc = pc, !.read = set].kind = run.kind
  BY <1>1
<1> QED BY <1>2, <1>3 DEF SeedRuns

LEMMA SeedStep == ASSUME SeedLimits PROVE SeedInv /\ [Seeds!Next]_(Seeds!vars) => SeedInv'
<1> SUFFICES ASSUME SeedInv, [Seeds!Next]_(Seeds!vars) PROVE SeedInv'
  OBVIOUS
<1> USE DEF SeedInv, SeedTyped, SeedOrder
<1>1. ASSUME NEW kind \in {"full", "system"}, Seeds!Start(kind) PROVE SeedInv'
  <2>1. run' \in SeedRuns
    BY <1>1 DEF Seeds!Start, SeedRuns, SeedPoints
  <2> QED BY <1>1, <2>1 DEF Seeds!Start, Seeds!At, Seeds!OwnerHasAll, Seeds!ManagerIsSaved, Seeds!SectionsWhole, Seeds!AssignmentsLogged, Seeds!Roles, Seeds!Accounts, Seeds!Past
<1>2. CASE Seeds!WriteCatalogue
  <2>1. run' \in SeedRuns /\ run'.pc = "clear"
    BY <1>2, SeedGoes DEF Seeds!WriteCatalogue, Seeds!At, Seeds!To, SeedPoints
  <2> QED BY <1>2, <2>1 DEF Seeds!WriteCatalogue, Seeds!InCode, Seeds!At, Seeds!OwnerHasAll, Seeds!ManagerIsSaved, Seeds!SectionsWhole, Seeds!AssignmentsLogged, Seeds!Roles, Seeds!Accounts, Seeds!Past
<1>3. CASE Seeds!ClearOwner
  <2>1. run' \in SeedRuns /\ run'.pc = "owner"
    BY <1>3, SeedGoes DEF Seeds!ClearOwner, Seeds!At, Seeds!To, SeedPoints
  <2> QED BY <1>3, <2>1 DEF Seeds!ClearOwner, Seeds!At, Seeds!OwnerHasAll, Seeds!ManagerIsSaved, Seeds!SectionsWhole, Seeds!AssignmentsLogged, Seeds!Accounts, Seeds!Past
<1>4. CASE Seeds!FillOwner
  <2>1. run' \in SeedRuns /\ run'.pc = "read"
    BY <1>4, SeedGoes DEF Seeds!FillOwner, Seeds!At, Seeds!To, SeedPoints
  <2> QED BY <1>4, <2>1 DEF Seeds!FillOwner, Seeds!Granted, Seeds!At, Seeds!OwnerHasAll, Seeds!ManagerIsSaved, Seeds!SectionsWhole, Seeds!AssignmentsLogged, Seeds!Accounts, Seeds!Past
<1>5. CASE Seeds!ReadManager
  <2>1. manager \in SUBSET SeedReads
    BY DEF SeedReads
  <2>2. PICK goal \in SeedPoints : goal = IF Seeds!Full \/ manager = {} THEN "add" ELSE "end"
    BY DEF SeedPoints
  <2>3. run' = [run EXCEPT !.pc = goal, !.read = manager]
    <3>1. run \in [kind : {"full", "system"}, pc : SeedPoints, read : SUBSET SeedReads]
      BY <1>5 DEF Seeds!ReadManager, SeedRuns, Seeds!At, Seeds!Idle
    <3> QED BY <1>5, <2>2, <3>1 DEF Seeds!ReadManager
  <2>4. run' \in SeedRuns /\ run'.pc = goal /\ run'.read = manager /\ run'.kind = run.kind
    <3>1. ~Seeds!At("idle")
      BY <1>5 DEF Seeds!ReadManager, Seeds!At
    <3> QED BY <2>1, <2>3, <3>1, SeedGoes
  <2> QED BY <1>5, <2>2, <2>4 DEF Seeds!ReadManager, Seeds!Full, Seeds!At, Seeds!OwnerHasAll, Seeds!ManagerIsSaved, Seeds!SectionsWhole, Seeds!AssignmentsLogged, Seeds!Roles, Seeds!Accounts, Seeds!Past
<1>6. CASE Seeds!AddToManager
  <2>1. run' \in SeedRuns /\ run'.pc = (IF Seeds!Full THEN "drop" ELSE "end")
    <3>1. PICK goal \in SeedPoints : goal = IF Seeds!Full THEN "drop" ELSE "end"
      BY DEF SeedPoints
    <3>2. ~Seeds!At("idle") /\ run' = [run EXCEPT !.pc = goal]
      BY <1>6, <3>1 DEF Seeds!AddToManager, Seeds!At, Seeds!To
    <3> QED BY <3>1, <3>2, SeedGoes
  <2>2. ~Seeds!Full => run.read = {}
    BY <1>6 DEF Seeds!AddToManager, Seeds!At, Seeds!Full, SeedRuns, Seeds!Idle
  <2>3. manager' \subseteq catalogue
    BY <1>6 DEF Seeds!AddToManager, Seeds!Wanted
  <2>4. Seeds!ManagerIsSaved'
    BY <1>6, <2>1, <2>2 DEF Seeds!AddToManager, Seeds!Wanted, Seeds!ManagerIsSaved, Seeds!At
  <2> QED BY <1>6, <2>1, <2>3, <2>4 DEF Seeds!AddToManager, Seeds!At, Seeds!OwnerHasAll, Seeds!SectionsWhole, Seeds!AssignmentsLogged, Seeds!Accounts
<1>7. CASE Seeds!DropFromManager
  <2>1. run' \in SeedRuns /\ run'.pc = "log"
    BY <1>7, SeedGoes DEF Seeds!DropFromManager, Seeds!At, Seeds!To, SeedPoints
  <2> QED BY <1>7, <2>1 DEF Seeds!DropFromManager, Seeds!At, Seeds!OwnerHasAll, Seeds!ManagerIsSaved, Seeds!SectionsWhole, Seeds!AssignmentsLogged, Seeds!Accounts
<1>8. CASE Seeds!LogRole
  <2>1. run' \in SeedRuns /\ run'.pc = "users"
    BY <1>8, SeedGoes DEF Seeds!LogRole, Seeds!At, Seeds!To, SeedPoints
  <2> QED BY <1>8, <2>1 DEF Seeds!LogRole, Seeds!At, Seeds!OwnerHasAll, Seeds!ManagerIsSaved, Seeds!SectionsWhole, Seeds!AssignmentsLogged, Seeds!Roles, Seeds!Past
<1>9. CASE Seeds!SeedUsers
  <2>1. run' \in SeedRuns /\ run'.pc = "assignments"
    BY <1>9, SeedGoes DEF Seeds!SeedUsers, Seeds!At, Seeds!To, SeedPoints
  <2> QED BY <1>9, <2>1 DEF Seeds!SeedUsers, Seeds!At, Seeds!OwnerHasAll, Seeds!ManagerIsSaved, Seeds!SectionsWhole, Seeds!AssignmentsLogged, Seeds!Roles, Seeds!Past
<1>10. CASE Seeds!ReadAssignments
  <2>1. {staff} \in SUBSET SeedReads /\ "entry" \in SeedPoints
    BY DEF SeedReads, SeedPoints
  <2>2. run' \in SeedRuns /\ run'.pc = "entry" /\ run'.read = {staff}
    BY <1>10, <2>1, SeedGoes DEF Seeds!ReadAssignments, Seeds!At
  <2> QED BY <1>10, <2>2 DEF Seeds!ReadAssignments, Seeds!At, Seeds!OwnerHasAll, Seeds!ManagerIsSaved, Seeds!SectionsWhole, Seeds!AssignmentsLogged, Seeds!Roles, Seeds!Accounts, Seeds!Past
<1>11. CASE Seeds!LogAssignments
  <2>1. run' \in SeedRuns /\ run'.pc = "prompts"
    BY <1>11, SeedGoes DEF Seeds!LogAssignments, Seeds!At, Seeds!To, SeedPoints
  <2>2. staff \in run.read => staff \in entries'
    BY <1>11 DEF Seeds!LogAssignments, Seeds!Missing
  <2> QED BY <1>11, <2>1, <2>2 DEF Seeds!LogAssignments, Seeds!At, Seeds!OwnerHasAll, Seeds!ManagerIsSaved, Seeds!SectionsWhole, Seeds!AssignmentsLogged, Seeds!Roles, Seeds!Past
<1>12. CASE Seeds!SeedPrompts
  <2>1. run' \in SeedRuns /\ run'.pc = "audit"
    <3>1. Head(Seeds!SectionOrder) = "audit"
      BY DEF Seeds!SectionOrder
    <3>2. ~Seeds!At("idle") /\ run' = [run EXCEPT !.pc = "audit"] /\ "audit" \in SeedPoints
      BY <1>12, <3>1 DEF Seeds!SeedPrompts, Seeds!At, Seeds!To, SeedPoints
    <3> QED BY <3>2, SeedGoes
  <2> QED BY <1>12, <2>1 DEF Seeds!SeedPrompts, Seeds!At, Seeds!OwnerHasAll, Seeds!ManagerIsSaved, Seeds!SectionsWhole, Seeds!AssignmentsLogged, Seeds!Roles, Seeds!Past
<1>13. ASSUME NEW s \in Seeds!Sections, NEW present \in BOOLEAN, Seeds!SeedSection(s, present), ~present => 1 \notin demo[s]
       PROVE  SeedInv'
  <2>1. s \in SeedPoints /\ run.pc \notin {"idle", "catalogue", "clear", "owner", "drop", "second"} /\ run.pc = s
    BY <1>13 DEF Seeds!SeedSection, Seeds!At, Seeds!Sections, SeedPoints
  <2>2. UNCHANGED <<coded, catalogue, owner, manager, staff, entries, unlogged, saved, mine, mixed, touched, complete>>
    BY <1>13 DEF Seeds!SeedSection, Seeds!Roles, Seeds!Accounts, Seeds!Past
  <2>3. CASE present
    <3>1. PICK goal \in SeedPoints : goal = Seeds!After(s) /\ goal \in {"phones", "portfolio", "backups", "end"}
      BY SeedAfter DEF SeedPoints
    <3>2. ~Seeds!At("idle") /\ run' = [run EXCEPT !.pc = goal] /\ demo' = demo
      BY <1>13, <2>1, <2>3, <3>1 DEF Seeds!SeedSection, Seeds!At, Seeds!To
    <3>3. run' \in SeedRuns /\ run'.pc = goal
      BY <3>2, SeedGoes
    <3>4. run'.pc \notin {"idle", "catalogue", "clear", "owner", "add", "drop", "second"}
      BY <3>1, <3>3
    <3>5. Seeds!OwnerHasAll' /\ Seeds!ManagerIsSaved' /\ Seeds!AssignmentsLogged'
      BY <2>1, <2>2, <3>4 DEF Seeds!At, Seeds!OwnerHasAll, Seeds!ManagerIsSaved, Seeds!AssignmentsLogged
    <3>6. Seeds!SectionsWhole'
      BY <2>1, <2>2, <3>2 DEF Seeds!At, Seeds!SectionsWhole
    <3>7. SeedTyped' /\ SeedOrder'
      BY <2>1, <2>2, <3>2, <3>3, <3>4
    <3> QED BY <3>5, <3>6, <3>7
  <2>4. CASE ~present
    <3>1. {s} \in SUBSET SeedReads /\ "second" \in SeedPoints
      BY DEF SeedReads, SeedPoints
    <3>2. run' \in SeedRuns /\ run'.pc = "second" /\ run'.read = {s}
      <4>1. ~Seeds!At("idle") /\ run' = [run EXCEPT !.pc = "second", !.read = {s}]
        BY <1>13, <2>1, <2>4 DEF Seeds!SeedSection, Seeds!At
      <4> QED BY <3>1, <4>1, SeedGoes
    <3>3. demo' = [demo EXCEPT ![s] = demo[s] \union {1}] /\ demo' \in [Seeds!Sections -> SUBSET Seeds!All]
      BY <1>13, <2>4 DEF Seeds!SeedSection, Seeds!All
    <3>4. Seeds!SectionsWhole'
      BY <1>13, <2>1, <3>2, <3>3 DEF Seeds!SeedSection, Seeds!SectionsWhole, Seeds!At, Seeds!Past
    <3> QED BY <1>13, <2>1, <3>2, <3>3, <3>4 DEF Seeds!SeedSection, Seeds!At, Seeds!OwnerHasAll, Seeds!ManagerIsSaved, Seeds!AssignmentsLogged, Seeds!Roles, Seeds!Accounts, Seeds!Past
  <2> QED BY <2>3, <2>4
<1>14. CASE Seeds!SeedAuditDemoEvents
  <2> HIDE DEF SeedInv, SeedTyped, SeedOrder
  <2>1. "audit" \in Seeds!Sections /\ (demo["audit"] = {} => 1 \notin demo["audit"])
    BY DEF Seeds!Sections
  <2>2. CASE demo["audit"] # {}
    <3>1. Seeds!SeedSection("audit", TRUE)
      BY <1>14, <2>2 DEF Seeds!SeedAuditDemoEvents, Seeds!SeedSection
    <3> QED BY <2>1, <3>1, <1>13, Zenon
  <2>3. CASE demo["audit"] = {}
    <3>1. Seeds!SeedSection("audit", FALSE)
      BY <1>14, <2>3 DEF Seeds!SeedAuditDemoEvents, Seeds!SeedSection
    <3> QED BY <2>1, <2>3, <3>1, <1>13, Zenon
  <2> QED BY <2>2, <2>3
<1>15. CASE Seeds!SeedPhoneNumbers
  <2>1. (1 \in demo["phones"]) \in BOOLEAN /\ "phones" \in Seeds!Sections
    BY DEF Seeds!Sections
  <2>2. Seeds!SeedSection("phones", 1 \in demo["phones"])
    BY <1>15 DEF Seeds!SeedPhoneNumbers
  <2> QED BY <2>1, <2>2, <1>13
<1>16. CASE Seeds!SeedPortfolio
  <2>1. (1 \in demo["portfolio"]) \in BOOLEAN /\ "portfolio" \in Seeds!Sections
    BY DEF Seeds!Sections
  <2>2. Seeds!SeedSection("portfolio", 1 \in demo["portfolio"])
    BY <1>16 DEF Seeds!SeedPortfolio
  <2> QED BY <2>1, <2>2, <1>13
<1>17. CASE Seeds!SeedBackupRuns
  <2> HIDE DEF SeedInv, SeedTyped, SeedOrder
  <2>1. "backups" \in Seeds!Sections /\ (demo["backups"] = {} => 1 \notin demo["backups"])
    BY DEF Seeds!Sections
  <2>2. CASE demo["backups"] # {}
    <3>1. Seeds!SeedSection("backups", TRUE)
      BY <1>17, <2>2 DEF Seeds!SeedBackupRuns, Seeds!SeedSection
    <3> QED BY <2>1, <3>1, <1>13, Zenon
  <2>3. CASE demo["backups"] = {}
    <3>1. Seeds!SeedSection("backups", FALSE)
      BY <1>17, <2>3 DEF Seeds!SeedBackupRuns, Seeds!SeedSection
    <3> QED BY <2>1, <2>3, <3>1, <1>13, Zenon
  <2> QED BY <2>2, <2>3
<1>18. ASSUME NEW s \in Seeds!Sections, Seeds!SeedRest(s) PROVE SeedInv'
  <2>1. run.read = {s}
    BY <1>18 DEF Seeds!SeedRest, Seeds!At
  <2>2. run' \in SeedRuns /\ run'.pc \in {"idle", "phones", "portfolio", "backups", "end"}
    <3>1. PICK goal \in SeedPoints : goal = Seeds!After(s) /\ goal \in {"phones", "portfolio", "backups", "end"}
      BY SeedAfter DEF SeedPoints
    <3>2. ~Seeds!At("idle") /\ (run' = [run EXCEPT !.pc = goal] \/ run' = Seeds!Idle)
      BY <1>18, <3>1 DEF Seeds!SeedRest, Seeds!At, Seeds!To
    <3>3. Seeds!Idle \in SeedRuns /\ Seeds!Idle.pc = "idle"
      BY DEF SeedRuns, Seeds!Idle
    <3> QED BY <3>1, <3>2, <3>3, SeedGoes
  <2>3. demo' = [demo EXCEPT ![s] = Seeds!All] /\ demo' \in [Seeds!Sections -> SUBSET Seeds!All]
    BY <1>18 DEF Seeds!SeedRest, Seeds!All
  <2>4. Seeds!SectionsWhole'
    BY <1>18, <2>1, <2>3 DEF Seeds!SeedRest, Seeds!SectionsWhole, Seeds!At, Seeds!Past
  <2> QED BY <1>18, <2>2, <2>3, <2>4 DEF Seeds!SeedRest, Seeds!At, Seeds!OwnerHasAll, Seeds!ManagerIsSaved, Seeds!AssignmentsLogged, Seeds!Roles, Seeds!Accounts, Seeds!Past
<1>19. CASE Seeds!Finish
  BY <1>19 DEF Seeds!Finish, Seeds!At, Seeds!Idle, SeedRuns, Seeds!OwnerHasAll, Seeds!ManagerIsSaved, Seeds!SectionsWhole, Seeds!AssignmentsLogged, Seeds!Roles, Seeds!Accounts, Seeds!Past
<1>20. CASE Seeds!Release
  BY <1>20 DEF Seeds!Release, Seeds!At, Seeds!OwnerHasAll, Seeds!ManagerIsSaved, Seeds!SectionsWhole, Seeds!AssignmentsLogged, Seeds!Roles, Seeds!Accounts, Seeds!Past
<1>21. CASE Seeds!Cut
  <2>1. run' \in SeedRuns /\ run'.pc = "idle"
    BY <1>21 DEF Seeds!Cut, SeedRuns, Seeds!Idle
  <2>2. touched' \subseteq Seeds!Sections
    BY <1>21 DEF Seeds!Cut, Seeds!At
  <2>3. Seeds!SectionsWhole'
    BY <1>21 DEF Seeds!Cut, Seeds!SectionsWhole, Seeds!At
  <2> QED BY <1>21, <2>1, <2>2, <2>3 DEF Seeds!Cut, Seeds!At, Seeds!OwnerHasAll, Seeds!ManagerIsSaved, Seeds!AssignmentsLogged, Seeds!Roles, Seeds!Accounts
<1>22. ASSUME NEW ks \in SUBSET Perms, Seeds!SaveManager(ks) PROVE SeedInv'
  BY <1>22 DEF Seeds!SaveManager, Seeds!At, Seeds!OwnerHasAll, Seeds!ManagerIsSaved, Seeds!SectionsWhole, Seeds!AssignmentsLogged, Seeds!Accounts
<1>23. ASSUME NEW role \in {"manager", "other"}, Seeds!Assign(role) PROVE SeedInv'
  BY <1>23 DEF Seeds!Assign, Seeds!At, Seeds!OwnerHasAll, Seeds!ManagerIsSaved, Seeds!SectionsWhole, Seeds!AssignmentsLogged, Seeds!Roles, Seeds!Past
<1>24. ASSUME NEW dies \in BOOLEAN, Seeds!LogAssigned(dies) PROVE SeedInv'
  BY <1>24 DEF Seeds!LogAssigned, Seeds!At, Seeds!OwnerHasAll, Seeds!ManagerIsSaved, Seeds!SectionsWhole, Seeds!AssignmentsLogged, Seeds!Roles, Seeds!Past
<1>25. CASE Seeds!EditPrompt
  BY <1>25 DEF Seeds!EditPrompt, Seeds!At, Seeds!OwnerHasAll, Seeds!ManagerIsSaved, Seeds!SectionsWhole, Seeds!AssignmentsLogged, Seeds!Roles, Seeds!Past
<1>26. ASSUME NEW s \in Seeds!Sections, NEW i \in Seeds!All, Seeds!DeleteDemoRow(s, i) PROVE SeedInv'
  <2>1. demo' = [demo EXCEPT ![s] = demo[s] \ {i}] /\ demo' \in [Seeds!Sections -> SUBSET Seeds!All] /\ touched' = touched \union {s}
    BY <1>26 DEF Seeds!DeleteDemoRow, Seeds!All
  <2>2. Seeds!SectionsWhole'
    BY <1>26, <2>1 DEF Seeds!DeleteDemoRow, Seeds!SectionsWhole, Seeds!At
  <2> QED BY <1>26, <2>1, <2>2 DEF Seeds!DeleteDemoRow, Seeds!At, Seeds!OwnerHasAll, Seeds!ManagerIsSaved, Seeds!AssignmentsLogged, Seeds!Roles, Seeds!Accounts
<1>27. CASE UNCHANGED Seeds!vars
  BY <1>27 DEF Seeds!vars, Seeds!At, Seeds!OwnerHasAll, Seeds!ManagerIsSaved, Seeds!SectionsWhole, Seeds!AssignmentsLogged
<1> QED BY <1>1, <1>2, <1>3, <1>4, <1>5, <1>6, <1>7, <1>8, <1>9, <1>10, <1>11, <1>12, <1>14, <1>15, <1>16, <1>17, <1>18,
           <1>19, <1>20, <1>21, <1>22, <1>23, <1>24, <1>25, <1>26, <1>27 DEF Seeds!Next

LEMMA SeedSound == SeedInv => Seeds!SeedingSound
  BY DEF SeedInv, Seeds!SeedingSound

-----------------------------------------------------------------------------
(* The cutover of the store.                                               *)

Cutover == INSTANCE BucketCutover WITH
    Keys <- StoredKeys, MaxRuns <- CutoverRuns, MaxWrites <- CutoverWrites,
    MaxFaults <- CutoverFaults

CutoverVerdicts == {"none", "sourceMissing", "plannedCopy", "alreadyPresent", "conflict", "verified"}
CutoverRows == [verdict : CutoverVerdicts, was : Cutover!Objects]

CutoverTyped ==
    /\ src \in [StoredKeys -> Cutover!Objects] /\ dst \in [StoredKeys -> Cutover!Objects] /\ row \in [StoredKeys -> CutoverRows]
    /\ mode \in {"idle", "dry-run", "apply", "verify"} /\ phase \in {"classify", "apply", "verify"}
    /\ phase # "classify" => phase = mode

\* What a verdict says of the destination, after the run as well.
CutoverKnows(k) ==
    /\ row[k].verdict = "plannedCopy" => dst[k] = "none" \/ k \in blind
    /\ row[k].verdict \in {"alreadyPresent", "verified"} => Cutover!Same(k, dst[k], row[k].was)

\* What a run has done with a key that it has passed, or is about to do.
CutoverPasses(k) ==
    /\ mode # "idle" /\ (phase # "classify" \/ k \notin todo) => row[k].verdict # "none"
    /\ phase = "apply" => (k \in todo <=> row[k].verdict = "plannedCopy")

CutoverInv ==
    /\ CutoverTyped
    /\ \A k \in StoredKeys : CutoverKnows(k) /\ CutoverPasses(k)
    /\ Cutover!NeverOverwritten /\ Cutover!ExitMeansCopied

LEMMA CutoverInit == Cutover!Init => CutoverInv
  BY DEF Cutover!Init, Cutover!NoRow, Cutover!Contents, Cutover!Objects, CutoverInv, CutoverTyped, CutoverVerdicts, CutoverRows, CutoverKnows, CutoverPasses,
         Cutover!NeverOverwritten, Cutover!ExitMeansCopied

LEMMA CutoverStart ==
  ASSUME CutoverInv, NEW m \in {"dry-run", "apply", "verify"}, Cutover!Start(m)
  PROVE  CutoverInv'
<1>1. row' = [k \in StoredKeys |-> Cutover!NoRow] /\ mode' = m /\ phase' = "classify" /\ todo' = StoredKeys /\ UNCHANGED <<src, dst, exit, blind, overwritten>>
  BY DEF Cutover!Start, Cutover!Store, Cutover!Past
<1>2. CutoverTyped'
  BY <1>1 DEF CutoverInv, CutoverTyped, Cutover!NoRow, CutoverRows, CutoverVerdicts, Cutover!Objects
<1>3. \A k \in StoredKeys : row'[k].verdict = "none"
  BY <1>1 DEF Cutover!NoRow
<1>4. \A k \in StoredKeys : CutoverKnows(k)' /\ CutoverPasses(k)'
  BY <1>1, <1>3 DEF CutoverKnows, CutoverPasses
<1> QED BY <1>1, <1>2, <1>4 DEF CutoverInv, Cutover!NeverOverwritten, Cutover!ExitMeansCopied

\* How the verdict of a key changes.
LEMMA CutoverJudged ==
  ASSUME CutoverTyped, NEW k \in StoredKeys, NEW v \in CutoverVerdicts, Cutover!Judge(k, v)
  PROVE  /\ row' \in [StoredKeys -> CutoverRows] /\ todo' = todo \ {k}
         /\ row'[k].verdict = v /\ row'[k].was = row[k].was
         /\ \A j \in StoredKeys : j # k => row'[j] = row[j]
<1>1. row[k] \in CutoverRows /\ row' = [row EXCEPT ![k] = [row[k] EXCEPT !.verdict = v]] /\ todo' = todo \ {k}
  BY DEF CutoverTyped, Cutover!Judge
<1>2. [row[k] EXCEPT !.verdict = v] = [verdict |-> v, was |-> row[k].was]
  BY <1>1 DEF CutoverRows
<1>3. [verdict |-> v, was |-> row[k].was] \in CutoverRows
  BY <1>1 DEF CutoverRows
<1> QED BY <1>1, <1>2, <1>3 DEF CutoverTyped

LEMMA CutoverClassifies ==
  ASSUME CutoverInv, NEW k \in StoredKeys, Cutover!Classify(k)
  PROVE  CutoverInv'
<1> USE DEF CutoverInv
<1>1. PICK s \in Cutover!Objects, d \in Cutover!Objects :
         /\ (Cutover!Probe(src[k], s) /\ d = dst[k]) \/ (s = src[k] /\ Cutover!Probe(dst[k], d))
         /\ row' = [row EXCEPT ![k] = [verdict |-> Cutover!Verdict(k, s, d), was |-> s]]
         /\ blind' = IF d # dst[k] THEN blind \union {k} ELSE blind
  BY DEF Cutover!Classify
<1>2. mode # "idle" /\ phase = "classify" /\ k \in todo /\ todo' = todo \ {k} /\ UNCHANGED <<src, dst, mode, phase, exit, overwritten>>
  BY DEF Cutover!Classify, Cutover!Store
<1>3. d = dst[k] \/ (d = "none" /\ k \in blind')
  BY <1>1 DEF Cutover!Probe
<1>4. PICK v \in CutoverVerdicts : v = Cutover!Verdict(k, s, d)
  BY DEF Cutover!Verdict, CutoverVerdicts
<1>5. row' = [row EXCEPT ![k] = [verdict |-> v, was |-> s]] /\ [verdict |-> v, was |-> s] \in CutoverRows
  BY <1>1, <1>4 DEF CutoverRows
<1>6. row' \in [StoredKeys -> CutoverRows] /\ row'[k] = [verdict |-> v, was |-> s] /\ \A j \in StoredKeys : j # k => row'[j] = row[j]
  BY <1>5 DEF CutoverTyped
<1>7. /\ v = "plannedCopy" => d = "none"
      /\ v \in {"alreadyPresent", "verified"} => v = "alreadyPresent" /\ Cutover!Same(k, s, d) /\ d # "none"
      /\ v # "none"
  BY <1>4 DEF Cutover!Verdict, Cutover!Same
<1>8. Cutover!Same(k, s, d) => Cutover!Same(k, d, s)
  BY DEF Cutover!Same
<1>9. blind \subseteq blind'
  BY <1>1
<1>10. ASSUME NEW j \in StoredKeys PROVE CutoverKnows(j)'
  <2>1. CASE j = k
    BY <1>2, <1>3, <1>6, <1>7, <1>8, <2>1 DEF CutoverKnows
  <2>2. CASE j # k
    <3>1. CutoverKnows(j)
      OBVIOUS
    <3> QED BY <1>2, <1>6, <1>9, <2>2, <3>1 DEF CutoverKnows, Cutover!Same
  <2> QED BY <2>1, <2>2
<1>11. ASSUME NEW j \in StoredKeys PROVE CutoverPasses(j)'
  BY <1>2, <1>6, <1>7 DEF CutoverPasses
<1>12. CutoverTyped'
  BY <1>2, <1>6 DEF CutoverTyped
<1> QED BY <1>2, <1>9, <1>10, <1>11, <1>12 DEF Cutover!NeverOverwritten, Cutover!ExitMeansCopied

LEMMA CutoverCopies ==
  ASSUME CutoverInv, NEW k \in StoredKeys, Cutover!Copy(k)
  PROVE  CutoverInv'
<1> USE DEF CutoverInv
<1>1. phase = "apply" /\ k \in todo /\ mode = "apply" /\ UNCHANGED <<src, mode, phase, exit, blind>>
  BY DEF Cutover!Copy, CutoverTyped
<1>2. row[k].verdict = "plannedCopy" /\ (dst[k] = "none" \/ k \in blind)
  BY <1>1 DEF CutoverPasses, CutoverKnows
<1>3. CASE UNCHANGED <<dst, overwritten>> /\ Cutover!Judge(k, "conflict")
  <2>1. "conflict" \in CutoverVerdicts
    BY DEF CutoverVerdicts
  <2>2. /\ row' \in [StoredKeys -> CutoverRows] /\ todo' = todo \ {k} /\ row'[k].verdict = "conflict"
        /\ \A j \in StoredKeys : j # k => row'[j] = row[j]
    BY <1>3, <2>1, CutoverJudged
  <2>3. \A j \in StoredKeys : CutoverKnows(j)' /\ CutoverPasses(j)'
    BY <1>1, <1>3, <2>2 DEF CutoverKnows, CutoverPasses, Cutover!Same
  <2>4. CutoverTyped'
    BY <1>1, <1>3, <2>2 DEF CutoverTyped
  <2> QED BY <1>1, <1>3, <2>3, <2>4 DEF Cutover!NeverOverwritten, Cutover!ExitMeansCopied
<1>4. ASSUME src[k] # "none", dst' = [dst EXCEPT ![k] = src[k]],
             overwritten' = IF dst[k] # "none" THEN overwritten \union {k} ELSE overwritten,
             NEW d \in Cutover!Objects, Cutover!Probe(src[k], d), Cutover!Judge(k, IF Cutover!Same(k, d, row[k].was) THEN "verified" ELSE "conflict")
      PROVE  CutoverInv'
  <2>1. PICK v \in CutoverVerdicts : v = IF Cutover!Same(k, d, row[k].was) THEN "verified" ELSE "conflict"
    BY DEF CutoverVerdicts
  <2>2. /\ row' \in [StoredKeys -> CutoverRows] /\ todo' = todo \ {k} /\ row'[k].verdict = v /\ row'[k].was = row[k].was
        /\ \A j \in StoredKeys : j # k => row'[j] = row[j]
    <3>1. Cutover!Judge(k, v)
      BY <1>4, <2>1
    <3> QED BY <3>1, CutoverJudged
  <2>3. dst'[k] = src[k] /\ dst' \in [StoredKeys -> Cutover!Objects] /\ \A j \in StoredKeys : j # k => dst'[j] = dst[j]
    BY <1>4 DEF CutoverTyped
  <2>4. v \in {"verified", "conflict"} /\ (v = "verified" => Cutover!Same(k, dst'[k], row'[k].was))
    BY <1>4, <2>1, <2>2, <2>3 DEF Cutover!Probe, Cutover!Same
  <2>5. ASSUME NEW j \in StoredKeys PROVE CutoverKnows(j)'
    <3>1. CASE j = k
      BY <2>2, <2>4, <3>1 DEF CutoverKnows
    <3>2. CASE j # k
      BY <1>1, <2>2, <2>3, <3>2 DEF CutoverKnows, Cutover!Same
    <3> QED BY <3>1, <3>2
  <2>6. ASSUME NEW j \in StoredKeys PROVE CutoverPasses(j)'
    BY <1>1, <2>2, <2>4 DEF CutoverPasses
  <2>7. CutoverTyped'
    BY <1>1, <2>2, <2>3 DEF CutoverTyped
  <2>8. Cutover!NeverOverwritten'
    BY <1>1, <1>2, <1>4 DEF Cutover!NeverOverwritten
  <2>9. Cutover!ExitMeansCopied'
    BY <1>1, <1>4, <2>3 DEF Cutover!ExitMeansCopied
  <2> QED BY <2>5, <2>6, <2>7, <2>8, <2>9
<1> QED BY <1>3, <1>4 DEF Cutover!Copy

LEMMA CutoverVerifies ==
  ASSUME CutoverInv, NEW k \in StoredKeys, Cutover!Verify(k)
  PROVE  CutoverInv'
<1> USE DEF CutoverInv
<1>1. PICK d \in Cutover!Objects : Cutover!Probe(dst[k], d) /\ Cutover!Judge(k, IF Cutover!Same(k, d, row[k].was) THEN "verified" ELSE "conflict")
  BY DEF Cutover!Verify
<1>2. phase = "verify" /\ mode = "verify" /\ UNCHANGED <<src, dst, mode, phase, exit, blind, overwritten>>
  BY DEF Cutover!Verify, CutoverTyped, Cutover!Store, Cutover!Past
<1>3. PICK v \in CutoverVerdicts : v = IF Cutover!Same(k, d, row[k].was) THEN "verified" ELSE "conflict"
  BY DEF CutoverVerdicts
<1>4. /\ row' \in [StoredKeys -> CutoverRows] /\ todo' = todo \ {k} /\ row'[k].verdict = v /\ row'[k].was = row[k].was
      /\ \A j \in StoredKeys : j # k => row'[j] = row[j]
  <2>1. Cutover!Judge(k, v)
    BY <1>1, <1>3
  <2> QED BY <2>1, CutoverJudged
<1>5. v \in {"verified", "conflict"} /\ (v = "verified" => Cutover!Same(k, dst[k], row'[k].was))
  BY <1>1, <1>3, <1>4 DEF Cutover!Probe, Cutover!Same
<1>6. ASSUME NEW j \in StoredKeys PROVE CutoverKnows(j)'
  <2>1. CASE j = k
    BY <1>2, <1>4, <1>5, <2>1 DEF CutoverKnows, Cutover!Same
  <2>2. CASE j # k
    BY <1>2, <1>4, <2>2 DEF CutoverKnows, Cutover!Same
  <2> QED BY <2>1, <2>2
<1>7. ASSUME NEW j \in StoredKeys PROVE CutoverPasses(j)'
  BY <1>2, <1>4, <1>5 DEF CutoverPasses
<1>8. CutoverTyped'
  BY <1>2, <1>4 DEF CutoverTyped
<1> QED BY <1>2, <1>6, <1>7, <1>8 DEF Cutover!NeverOverwritten, Cutover!ExitMeansCopied

LEMMA CutoverTurns == ASSUME CutoverInv, Cutover!SecondPass PROVE CutoverInv'
<1> USE DEF CutoverInv
<1>1. phase = "classify" /\ todo = {} /\ mode \in {"apply", "verify"} /\ phase' = mode
      /\ todo' = (IF mode = "apply" THEN Cutover!ToCopy ELSE Cutover!ToVerify)
      /\ UNCHANGED <<src, dst, mode, row, exit, blind, overwritten>>
  BY DEF Cutover!SecondPass, Cutover!Store, Cutover!Past
<1>2. ASSUME NEW k \in StoredKeys PROVE CutoverKnows(k)' /\ CutoverPasses(k)'
  BY <1>1 DEF CutoverKnows, CutoverPasses, Cutover!ToCopy, Cutover!With, Cutover!Same
<1>3. CutoverTyped'
  BY <1>1 DEF CutoverTyped
<1> QED BY <1>1, <1>2, <1>3 DEF Cutover!NeverOverwritten, Cutover!ExitMeansCopied

LEMMA CutoverEnds == ASSUME CutoverInv, Cutover!End PROVE CutoverInv'
<1> USE DEF CutoverInv
<1>1. mode # "idle" /\ todo = {} /\ (phase # "classify" \/ mode = "dry-run")
      /\ exit' = [mode |-> mode, code |-> IF Cutover!With({"sourceMissing", "conflict"}) = {} THEN 0 ELSE 1]
      /\ mode' = "idle" /\ phase' = "classify" /\ UNCHANGED <<src, dst, row, todo, blind, overwritten>>
  BY DEF Cutover!End, Cutover!Store, Cutover!Past
<1>2. CutoverTyped'
  BY <1>1 DEF CutoverTyped
<1>3. ASSUME NEW k \in StoredKeys PROVE CutoverKnows(k)' /\ CutoverPasses(k)'
  BY <1>1 DEF CutoverKnows, CutoverPasses, Cutover!Same
<1>4. ASSUME NEW k \in StoredKeys, exit'.code = 0, mode \in {"apply", "verify"}
      PROVE  /\ mode = "apply" => dst[k] # "none"
             /\ row[k].verdict # "plannedCopy" => Cutover!Same(k, dst[k], row[k].was)
  <2>1. row[k].verdict \notin {"sourceMissing", "conflict", "none"}
    BY <1>1, <1>4 DEF Cutover!With, CutoverPasses
  <2>2. row[k].verdict \in {"plannedCopy", "alreadyPresent", "verified"}
    <3>1. row[k] \in CutoverRows
      BY DEF CutoverTyped
    <3>2. row[k].verdict \in CutoverVerdicts
      BY <3>1 DEF CutoverRows
    <3> QED BY <2>1, <3>2 DEF CutoverVerdicts
  <2>3. mode = "apply" => row[k].verdict # "plannedCopy"
    BY <1>1 DEF CutoverPasses, CutoverTyped
  <2> QED BY <2>2, <2>3 DEF CutoverKnows, Cutover!Same
<1>5. Cutover!ExitMeansCopied'
  <2>1. exit' = [mode |-> "apply", code |-> 0] => mode = "apply" /\ exit'.code = 0
    BY <1>1
  <2>2. exit' = [mode |-> "verify", code |-> 0] => mode = "verify" /\ exit'.code = 0
    BY <1>1
  <2> QED BY <1>1, <1>4, <2>1, <2>2 DEF Cutover!ExitMeansCopied, Cutover!With, Cutover!Same
<1> QED BY <1>1, <1>2, <1>3, <1>5 DEF Cutover!NeverOverwritten

LEMMA CutoverOther ==
  ASSUME CutoverInv, Cutover!Cut \/ \E k \in StoredKeys, c \in {"new", "none"} : Cutover!BackendWrites(k, c)
  PROVE  CutoverInv'
<1> USE DEF CutoverInv
<1>1. CASE Cutover!Cut
  <2>1. mode' = "idle" /\ phase' = "classify" /\ exit' = [mode |-> "none", code |-> 1] /\ UNCHANGED <<src, dst, row, blind, overwritten>>
    BY <1>1 DEF Cutover!Cut, Cutover!Store, Cutover!Past
  <2> QED BY <2>1 DEF CutoverTyped, CutoverKnows, CutoverPasses, Cutover!Same, Cutover!NeverOverwritten, Cutover!ExitMeansCopied
<1>2. CASE \E k \in StoredKeys, c \in {"new", "none"} : Cutover!BackendWrites(k, c)
  <2>1. UNCHANGED <<dst, mode, row, todo, phase, exit, blind, overwritten>> /\ src' \in [StoredKeys -> Cutover!Objects]
    BY <1>2 DEF Cutover!BackendWrites, Cutover!Past, CutoverTyped, Cutover!Objects, Cutover!Contents
  <2> QED BY <2>1 DEF CutoverTyped, CutoverKnows, CutoverPasses, Cutover!Same, Cutover!NeverOverwritten, Cutover!ExitMeansCopied, Cutover!With
<1> QED BY <1>1, <1>2

LEMMA CutoverStep == CutoverInv /\ [Cutover!Next]_(Cutover!vars) => CutoverInv'
<1> SUFFICES ASSUME CutoverInv, [Cutover!Next]_(Cutover!vars) PROVE CutoverInv'
  OBVIOUS
<1>1. CASE UNCHANGED Cutover!vars
  BY <1>1 DEF Cutover!vars, Cutover!Store, Cutover!Past, CutoverInv, CutoverTyped, CutoverKnows, CutoverPasses, Cutover!Same, Cutover!NeverOverwritten, Cutover!ExitMeansCopied, Cutover!With
<1> QED BY <1>1, CutoverStart, CutoverClassifies, CutoverCopies, CutoverVerifies, CutoverTurns, CutoverEnds, CutoverOther DEF Cutover!Next

LEMMA CutoverIsSound == CutoverInv => Cutover!BucketCutoverSound
  BY DEF CutoverInv, CutoverKnows, Cutover!BucketCutoverSound, Cutover!VerifiedIsSame, Cutover!With

-----------------------------------------------------------------------------
(* Client requests.                                                        *)

Intake == INSTANCE ClientIntake WITH
    Files <- IntakeFiles, Removers <- Callers

IntakeWorks == [pc : {"folder", "row"}, bulk : BOOLEAN, folder : {{}, IntakeFiles}]

\* Every variable keeps its type, and after a crash the form is over.
IntakeTyped ==
    /\ row \in {"none", "empty", "full", "gone"}
    /\ objects \in SUBSET IntakeFiles /\ flying \in SUBSET IntakeFiles /\ keys \in SUBSET IntakeFiles
    /\ excused \in SUBSET IntakeFiles /\ taken \in SUBSET IntakeFiles
    /\ create \in {"form", "upload", "cleanup", "dropRow", "failed", "announce", "done"}
    /\ event \in BOOLEAN /\ crashed \in BOOLEAN
    /\ remove \in [Callers -> {Intake!Idle} \union IntakeWorks]
    /\ crashed => create = "failed"

\* The form, step by step: what it has put into the store, it knows of or nobody answers for.
IntakeFormInv ==
    /\ create = "form" => row = "none" /\ objects = {} /\ flying = {} /\ keys = {}
    /\ create = "upload" => row \in {"empty", "gone"} /\ objects = keys /\ IntakeFiles \subseteq flying \union objects
    /\ create = "cleanup" => objects \subseteq keys \union excused
    /\ create \in {"dropRow", "failed"} /\ ~crashed => objects \subseteq excused
    /\ create \in {"announce", "done"} => flying = {} /\ row \in {"full", "gone"}
    /\ row = "full" /\ ~crashed => create \in {"announce", "done"}
    /\ event => create = "done"

\* A removal that knows the files began when the row named them; once the folder is
\* deleted, what is left of it is excused.
IntakeRemovalInv ==
    /\ \A o \in Callers : remove[o] # Intake!Idle /\ remove[o].folder # {} /\ ~crashed =>
          /\ create \in {"announce", "done"}
          /\ remove[o].pc = "row" => objects \subseteq excused
    /\ create \in {"announce", "done"} /\ row = "gone" => objects \subseteq excused
    /\ row = "full" => IntakeFiles \subseteq objects \union taken

IntakeInv == IntakeTyped /\ IntakeFormInv /\ IntakeRemovalInv

\* Before the form is sent nothing is stored.
LEMMA IntakeInit == Intake!Init => IntakeInv
<1> SUFFICES ASSUME Intake!Init PROVE IntakeInv
  OBVIOUS
<1>1. IntakeTyped
  BY DEF Intake!Init, IntakeTyped
<1>2. IntakeFormInv
  BY DEF Intake!Init, IntakeFormInv
<1>3. IntakeRemovalInv
  BY DEF Intake!Init, IntakeRemovalInv
<1> QED BY <1>1, <1>2, <1>3 DEF IntakeInv

\* The steps of the form and of its uploads.
LEMMA IntakeFormStep ==
  ASSUME IntakeInv, Intake!CreateRow \/ Intake!SaveFiles \/ Intake!CleanupEnds \/ Intake!DropRow \/ Intake!Announce PROVE IntakeInv'
<1> USE DEF Intake!There, Intake!Cleaned, Intake!Orphans
<1>1. IntakeTyped'
  BY DEF IntakeInv, IntakeTyped, Intake!CreateRow, Intake!SaveFiles, Intake!CleanupEnds, Intake!DropRow, Intake!Announce
<1>2. IntakeFormInv'
  <2> USE DEF IntakeInv, IntakeTyped, IntakeFormInv
  <2>1. CASE Intake!CreateRow
    BY <2>1 DEF Intake!CreateRow, IntakeRemovalInv
  <2>2. CASE Intake!SaveFiles
    BY <2>2 DEF Intake!SaveFiles
  <2>3. CASE Intake!CleanupEnds
    BY <2>3 DEF Intake!CleanupEnds
  <2>4. CASE Intake!DropRow
    BY <2>4 DEF Intake!DropRow
  <2>5. CASE Intake!Announce
    BY <2>5 DEF Intake!Announce
  <2> QED BY <2>1, <2>2, <2>3, <2>4, <2>5
<1>3. IntakeRemovalInv'
  <2> USE DEF IntakeInv, IntakeTyped, IntakeFormInv, IntakeRemovalInv
  <2>1. CASE Intake!CreateRow
    BY <2>1 DEF Intake!CreateRow
  <2>2. CASE Intake!SaveFiles
    BY <2>2 DEF Intake!SaveFiles
  <2>3. CASE Intake!CleanupEnds
    BY <2>3 DEF Intake!CleanupEnds
  <2>4. CASE Intake!DropRow
    BY <2>4 DEF Intake!DropRow
  <2>5. CASE Intake!Announce
    BY <2>5 DEF Intake!Announce
  <2> QED BY <2>1, <2>2, <2>3, <2>4, <2>5
<1> QED BY <1>1, <1>2, <1>3 DEF IntakeInv

\* A file that comes in, fails or is cleaned up.
LEMMA IntakeFileStep ==
  ASSUME IntakeInv, NEW f \in IntakeFiles, Intake!Land(f) \/ Intake!Fail(f) \/ Intake!CleanKey(f) PROVE IntakeInv'
<1> USE DEF Intake!Orphans
<1>1. IntakeTyped'
  BY DEF IntakeInv, IntakeTyped, Intake!Land, Intake!Fail, Intake!CleanKey
<1>2. IntakeFormInv'
  <2> USE DEF IntakeInv, IntakeTyped, IntakeFormInv
  <2>1. CASE Intake!Land(f)
    BY <2>1 DEF Intake!Land
  <2>2. CASE Intake!Fail(f)
    BY <2>2 DEF Intake!Fail
  <2>3. CASE Intake!CleanKey(f)
    BY <2>3 DEF Intake!CleanKey
  <2> QED BY <2>1, <2>2, <2>3
<1>3. IntakeRemovalInv'
  <2> USE DEF IntakeInv, IntakeTyped, IntakeFormInv, IntakeRemovalInv
  <2>1. CASE Intake!Land(f)
    BY <2>1 DEF Intake!Land
  <2>2. CASE Intake!Fail(f)
    BY <2>2 DEF Intake!Fail
  <2>3. CASE Intake!CleanKey(f)
    BY <2>3 DEF Intake!CleanKey
  <2> QED BY <2>1, <2>2, <2>3
<1> QED BY <1>1, <1>2, <1>3 DEF IntakeInv

\* A removal begins.
LEMMA IntakeRemoveBegins ==
  ASSUME IntakeInv, NEW o \in Callers, NEW b \in BOOLEAN, Intake!RemoveBegins(o, b) PROVE IntakeInv'
<1> DEFINE w == [pc |-> "folder", bulk |-> b, folder |-> IF row = "full" THEN IntakeFiles ELSE {}]
<1>1. remove' = [remove EXCEPT ![o] = w] /\ UNCHANGED <<row, objects, flying, keys, create, event, excused, crashed, taken>>
  BY DEF Intake!RemoveBegins
<1>2. w \in IntakeWorks
  BY DEF IntakeWorks
<1>3. w.pc = "folder" /\ (w.folder # {} => row = "full")
  OBVIOUS
<1> HIDE DEF w
<1>4. IntakeTyped'
  BY <1>1, <1>2 DEF IntakeInv, IntakeTyped
<1>5. IntakeFormInv'
  BY <1>1 DEF IntakeInv, IntakeFormInv
<1>6. IntakeRemovalInv'
  BY <1>1, <1>3 DEF IntakeInv, IntakeTyped, IntakeFormInv, IntakeRemovalInv
<1> QED BY <1>4, <1>5, <1>6 DEF IntakeInv

\* A removal deletes the folder that it has worked out.
LEMMA IntakeDeleteFolder ==
  ASSUME IntakeInv, NEW o \in Callers, Intake!DeleteFolder(o) PROVE IntakeInv'
<1> DEFINE w == remove[o]
<1>1. remove[o] # Intake!Idle /\ w \in IntakeWorks /\ w.folder \in {{}, IntakeFiles} /\ w.pc = "folder"
  BY DEF Intake!DeleteFolder, Intake!Idle, IntakeInv, IntakeTyped, IntakeWorks
<1>2. PICK over \in SUBSET (objects \intersect w.folder) :
          /\ objects' = (objects \ w.folder) \union over
          /\ excused' = excused \union over /\ taken' = taken \union (w.folder \ over)
          /\ remove' = [remove EXCEPT ![o] = IF over = {} \/ @.bulk THEN [@ EXCEPT !.pc = "row"] ELSE Intake!Idle]
  BY DEF Intake!DeleteFolder
<1>3. UNCHANGED <<row, flying, keys, create, event, crashed>>
  BY DEF Intake!DeleteFolder
<1>4. PICK v \in {Intake!Idle} \union IntakeWorks :
          /\ remove' = [remove EXCEPT ![o] = v]
          /\ v # Intake!Idle => v.folder = w.folder
  <2>1. [w EXCEPT !.pc = "row"] \in IntakeWorks /\ [w EXCEPT !.pc = "row"].folder = w.folder
    BY <1>1 DEF IntakeWorks
  <2> QED BY <1>2, <2>1
<1> HIDE DEF w
<1>5. IntakeTyped'
  <2>1. objects' \in SUBSET IntakeFiles /\ excused' \in SUBSET IntakeFiles /\ taken' \in SUBSET IntakeFiles
    BY <1>1, <1>2 DEF IntakeInv, IntakeTyped
  <2> QED BY <1>3, <1>4, <2>1 DEF IntakeInv, IntakeTyped
<1>6. objects' \subseteq objects /\ excused \subseteq excused' /\ (w.folder = {} => objects' = objects)
  BY <1>2
<1>7. w.folder # {} /\ ~crashed => create \in {"announce", "done"}
  BY <1>1 DEF w, IntakeInv, IntakeRemovalInv
<1>8. w.folder # {} => objects' \subseteq excused'
  BY <1>1, <1>2 DEF IntakeInv, IntakeTyped
<1>9. IntakeFormInv'
  BY <1>3, <1>6, <1>7 DEF IntakeInv, IntakeTyped, IntakeFormInv
<1>10. \A q \in Callers : remove'[q] # Intake!Idle /\ remove'[q].folder # {} /\ ~crashed' =>
          /\ create' \in {"announce", "done"}
          /\ remove'[q].pc = "row" => objects' \subseteq excused'
  BY <1>3, <1>4, <1>6, <1>7, <1>8 DEF IntakeInv, IntakeTyped, IntakeRemovalInv
<1>11. row' = "full" => IntakeFiles \subseteq objects' \union taken'
  BY <1>2, <1>3 DEF IntakeInv, IntakeRemovalInv
<1>12. create' \in {"announce", "done"} /\ row' = "gone" => objects' \subseteq excused'
  BY <1>3, <1>6 DEF IntakeInv, IntakeRemovalInv
<1> QED BY <1>5, <1>9, <1>10, <1>11, <1>12 DEF IntakeInv, IntakeRemovalInv

\* A removal deletes the row; files in a folder it did not know are excused.
LEMMA IntakeDeleteRow ==
  ASSUME IntakeInv, NEW o \in Callers, Intake!DeleteRow(o) PROVE IntakeInv'
<1> USE DEF Intake!DeleteRow, Intake!There
<1>1. remove[o] # Intake!Idle /\ remove[o] \in IntakeWorks /\ remove[o].folder \in {{}, IntakeFiles} /\ remove[o].pc = "row"
  BY DEF Intake!Idle, IntakeInv, IntakeTyped, IntakeWorks
<1>2. IntakeTyped'
  BY <1>1 DEF IntakeInv, IntakeTyped
<1>3. IntakeFormInv'
  BY DEF IntakeInv, IntakeTyped, IntakeFormInv
<1>4. create \in {"announce", "done"} => objects \subseteq excused'
  BY <1>1 DEF IntakeInv, IntakeTyped, IntakeRemovalInv
<1>5. IntakeRemovalInv'
  BY <1>4 DEF IntakeInv, IntakeTyped, IntakeRemovalInv
<1> QED BY <1>2, <1>3, <1>5 DEF IntakeInv

\* The service stops.
LEMMA IntakeCrash == ASSUME IntakeInv, Intake!Crash PROVE IntakeInv'
<1>1. IntakeTyped'
  BY DEF IntakeInv, IntakeTyped, Intake!Crash
<1>2. IntakeFormInv'
  BY DEF IntakeInv, IntakeTyped, IntakeFormInv, Intake!Crash
<1>3. IntakeRemovalInv'
  BY DEF IntakeInv, IntakeTyped, IntakeRemovalInv, Intake!Crash
<1> QED BY <1>1, <1>2, <1>3 DEF IntakeInv

\* Every step keeps the invariant.
LEMMA IntakeStep == IntakeInv /\ [Intake!Next]_(Intake!vars) => IntakeInv'
<1> SUFFICES ASSUME IntakeInv, [Intake!Next]_(Intake!vars) PROVE IntakeInv'
  OBVIOUS
<1>1. CASE Intake!CreateRow \/ Intake!SaveFiles \/ Intake!CleanupEnds \/ Intake!DropRow \/ Intake!Announce
  BY <1>1, IntakeFormStep
<1>2. CASE Intake!Crash
  BY <1>2, IntakeCrash
<1>3. ASSUME NEW f \in IntakeFiles, Intake!Land(f) \/ Intake!Fail(f) \/ Intake!CleanKey(f) PROVE IntakeInv'
  BY <1>3, IntakeFileStep
<1>4. ASSUME NEW o \in Callers, NEW b \in BOOLEAN, Intake!RemoveBegins(o, b) PROVE IntakeInv'
  BY <1>4, IntakeRemoveBegins
<1>5. ASSUME NEW o \in Callers, Intake!DeleteFolder(o) \/ Intake!DeleteRow(o) PROVE IntakeInv'
  BY <1>5, IntakeDeleteFolder, IntakeDeleteRow
<1>6. CASE UNCHANGED Intake!vars
  BY <1>6 DEF Intake!vars, IntakeInv, IntakeTyped, IntakeFormInv, IntakeRemovalInv
<1> QED BY <1>1, <1>2, <1>3, <1>4, <1>5, <1>6 DEF Intake!Next

\* What the invariant says of files and notifications.
LEMMA IntakeSound == IntakeInv => Intake!ClientIntakeSound /\ Intake!TypeOK
<1> SUFFICES ASSUME IntakeInv PROVE Intake!ClientIntakeSound /\ Intake!TypeOK
  OBVIOUS
<1> USE DEF IntakeInv, IntakeTyped, IntakeFormInv, IntakeRemovalInv
<1>1. Intake!NothingLeftOver
  BY DEF Intake!NothingLeftOver
<1>2. Intake!FilesStored
  BY DEF Intake!FilesStored
<1>3. Intake!AnnouncedIsSaved
  BY DEF Intake!AnnouncedIsSaved
<1>4. Intake!TypeOK
  BY DEF Intake!TypeOK
<1> QED BY <1>1, <1>2, <1>3, <1>4 DEF Intake!ClientIntakeSound

-----------------------------------------------------------------------------
(* What the components promise.                                            *)

\* A reply has its lead, only bids spend connects, stamps follow the status unless two updates
\* overlapped or the lead was created so, and the idea of a post waits no more unless its
\* conversion failed or an operator set it back (proposal.service.ts, lead.service.ts,
\* linkedin-post.service.ts, linkedin-idea.service.ts).
THEOREM SalesFunnelIsSound == Funnel!Spec => []Funnel!SalesFunnelSound
<1>1. FunnelLimits
  BY RecordsAssumption DEF FunnelLimits, FunnelStages, FunnelTypes, LeadStages, PostStages
<1>2. Funnel!Init => FunnelInv
  BY FunnelInit
<1>3. FunnelInv /\ [Funnel!Next]_(Funnel!vars) => FunnelInv'
  BY <1>1, FunnelStep
<1>4. FunnelInv => Funnel!SalesFunnelSound
  BY FunnelSound
<1> QED BY <1>2, <1>3, <1>4, PTL DEF Funnel!Spec

\* A request that was saved has its files, one that failed leaves none and is not announced,
\* but for the failures that its module names (client-requests.service.ts).
THEOREM ClientIntakeIsSound == Intake!Spec => []Intake!ClientIntakeSound
<1>1. Intake!Init => IntakeInv
  BY IntakeInit
<1>2. IntakeInv /\ [Intake!Next]_(Intake!vars) => IntakeInv'
  BY IntakeStep
<1>3. IntakeInv => Intake!ClientIntakeSound
  BY IntakeSound
<1> QED BY <1>1, <1>2, <1>3, PTL DEF Intake!Spec

\* The cover is stored, object and row come and go together, the gallery fits its limit and
\* there is one cover, but for the causes that the module names (portfolio.service.ts).
THEOREM PortfolioIsSound == Portfolio!Spec => []Portfolio!PortfolioSound
<1>1. PortLimits
  BY RecordsAssumption DEF PortLimits
<1>2. Portfolio!Init => PortInv
  BY <1>1, PortInit
<1>3. PortInv /\ [Portfolio!Next]_(Portfolio!vars) => PortInv'
  BY <1>1, PortStep
<1>4. PortInv => Portfolio!PortfolioSound
  BY <1>1, PortIsSound
<1> QED BY <1>2, <1>3, <1>4, PTL DEF Portfolio!Spec

\* An owner remains, nobody loses a role but by an owner's call, and a role has the keys of
\* one form unless two were saved together (roles.service.ts).
THEOREM RolesAreSound == Roles!Spec => []Roles!RolesSound
<1>1. RoleLimits
  BY RecordsAssumption DEF RoleLimits
<1>2. Roles!Init => RoleInv
  BY <1>1, RoleInit
<1>3. RoleInv /\ [Roles!Next]_(Roles!vars) => RoleInv'
  BY RoleStep
<1>4. RoleInv => Roles!RolesSound
  BY RoleSound
<1> QED BY <1>2, <1>3, <1>4, PTL DEF Roles!Spec

\* What is listed can be opened, and at rest no file lies without a row, but for the failures
\* that the module names (attachments.service.ts).
THEOREM AttachmentsAreSound == Attached!Spec => []Attached!AttachmentsSound
<1>1. AttachedLimits
  BY RecordsAssumption DEF AttachedLimits
<1>2. Attached!Init => AttachedInv
  BY <1>1, AttachedInit
<1>3. AttachedInv /\ [Attached!Next]_(Attached!vars) => AttachedInv'
  BY <1>1, AttachedStep
<1>4. AttachedInv => Attached!AttachmentsSound
  BY AttachedSound
<1> QED BY <1>2, <1>3, <1>4, PTL DEF Attached!Spec

\* A seed gives the owner every permission, keeps what an operator has saved, writes a section
\* whole and logs the roles it assigns, wherever it is cut short (seed.ts).
THEOREM SeedingIsSound == Seeds!Spec => []Seeds!SeedingSound
<1>1. SeedLimits
  BY RecordsAssumption DEF SeedLimits
<1>2. Seeds!Init => SeedInv
  BY <1>1, SeedInit
<1>3. SeedInv /\ [Seeds!Next]_(Seeds!vars) => SeedInv'
  BY <1>1, SeedStep
<1>4. SeedInv => Seeds!SeedingSound
  BY SeedSound
<1> QED BY <1>2, <1>3, <1>4, PTL DEF Seeds!Spec

\* An object at the destination is never replaced unseen, and a run that ends well has copied
\* what it planned (b2-cutover.ts).
THEOREM BucketCutoverIsSound == Cutover!Spec => []Cutover!BucketCutoverSound
<1>1. Cutover!Init => CutoverInv
  BY CutoverInit
<1>2. CutoverInv /\ [Cutover!Next]_(Cutover!vars) => CutoverInv'
  BY CutoverStep
<1>3. CutoverInv => Cutover!BucketCutoverSound
  BY CutoverIsSound
<1> QED BY <1>1, <1>2, <1>3, PTL DEF Cutover!Spec

\* A restore writes only into a marked scratch database, of what was verified, and tells its
\* outcome, but for the causes that the module names (restore.ts, scratch-restore-guard.ts).
THEOREM RestoresAreSound == Scratch!Spec => []Scratch!RestoreSafe
<1>1. ScratchLimits
  BY RecordsAssumption DEF ScratchLimits
<1>2. Scratch!Init => ScratchInv
  BY <1>1, ScratchInit
<1>3. ScratchInv /\ [Scratch!Next]_(Scratch!vars) => ScratchInv'
  BY <1>1, ScratchStep
<1>4. ScratchInv => Scratch!RestoreSafe
  BY ScratchSound
<1> QED BY <1>2, <1>3, <1>4, PTL DEF Scratch!Spec

\* A value that was replaced is in the history unless two changes overlapped, the history holds
\* past values, and a profile has
\* the slug of its name (credentials-account.service.ts, credentials-profile.service.ts).
THEOREM CredentialsAreSound == Vault!Spec => []Vault!CredentialsSound
<1>1. Vault!Init => VaultInv
  BY VaultInit
<1>2. VaultInv /\ [Vault!Next]_(Vault!vars) => VaultInv'
  BY VaultStep
<1>3. VaultInv => Vault!CredentialsSound
  BY VaultSound
<1> QED BY <1>1, <1>2, <1>3, PTL DEF Vault!Spec

\* One prompt of each type is in force unless two changes of the type crossed, and the cache
\* holds it unless it was filled by a read that a change overtook (prompt.service.ts).
THEOREM PromptsAreSound == Evaluation!Spec => []Evaluation!PromptsSound
<1>1. PromptLimits
  BY RecordsAssumption DEF PromptLimits
<1>2. Evaluation!Init => PromptInv
  BY <1>1, PromptInit
<1>3. PromptInv /\ [Evaluation!Next]_(Evaluation!vars) => PromptInv'
  BY <1>1, PromptStep
<1>4. PromptInv => Evaluation!PromptsSound
  BY PromptSound
<1> QED BY <1>2, <1>3, <1>4, PTL DEF Evaluation!Spec

\* An address is one item's, the numbers before its own were taken when it was looked for,
\* an item has the tags it was last sent unless two requests replaced them at once, and the
\* key refuses only a request that another one overtook (portfolio.service.ts).
THEOREM ItemsAreSound == Items!Spec => []Items!PortfolioItemsSound
<1>1. ItemLimits
  BY RecordsAssumption DEF ItemLimits, ItemSpellings
<1>2. Items!Init => ItemInv
  BY <1>1, ItemInit
<1>3. ItemInv /\ [Items!Next]_(Items!vars) => ItemInv'
  BY <1>1, ItemStep
<1>4. ItemInv => Items!PortfolioItemsSound
  BY ItemSound
<1> QED BY <1>2, <1>3, <1>4, PTL DEF Items!Spec

\* The cache holds the value in force unless a read that a write overtook filled it or the
\* request that wrote has yet to drop it, the flag is not turned on past its own endpoint,
\* and what answers with success is written (settings.service.ts).
THEOREM SettingsAreSound == Config!Spec => []Config!SettingsSound
<1>1. Config!Init => ConfigInv
  BY ConfigInit
<1>2. ConfigInv /\ [Config!Next]_(Config!vars) => ConfigInv'
  BY ConfigStep
<1>3. ConfigInv => Config!SettingsSound
  BY ConfigSound
<1> QED BY <1>1, <1>2, <1>3, PTL DEF Config!Spec

=============================================================================

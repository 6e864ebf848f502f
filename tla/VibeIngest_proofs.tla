------------------------- MODULE VibeIngest_proofs -------------------------
(***************************************************************************)
(* Proofs about VibeIngest, for any sets of keys, jobs, requests and ticks  *)
(* and any budget of faults and deletions.                                  *)
(***************************************************************************)
EXTENDS VibeIngest, FiniteSetTheorems, TLAPS

\* What the proofs use of the constants.
LEMMA Bounds == NoJob \notin Jobs /\ NoKey \notin Keys /\ MaxFaults \in Nat /\ MaxRemovals \in Nat
  BY IngestAssumption

\* A tick works only on events that are stored, and an event that is not stored was
\* neither accepted nor linked.
EventsKnown ==
    /\ \A k \in Keys : event[k] = "none" => accepted[k] = 0 /\ jobPostId[k] = NoJob
    /\ \A d \in Drains : \A k \in drows[d] : event[k] # "none"
    /\ \A d \in Drains : dpc[d] \in {"skip", "read", "commit", "push", "failed"} => event[devent[d]] # "none"

Inv == TypeOK /\ EventsKnown /\ AcceptedOnce /\ RowsAlternate /\ LinkSound

\* The deliveries keep Inv: the unique key admits one of them.
LEMMA RequestKeeps ==
  ASSUME Inv, NEW r \in Requests,
         CaptureCreate(r) \/ \E k \in Keys, j \in Jobs \cup {NoJob} : CaptureFind(r, k, j)
  PROVE  Inv'
<1> USE Bounds DEF Inv, TypeOK, EventsKnown, AcceptedOnce, RowsAlternate, LinkSound, DrainPcs,
        inboxVars, postVars, guardVars, drainVars, faultVars, Fault, Answer
<1>1. ASSUME NEW k \in Keys, NEW j \in Jobs \cup {NoJob}, CaptureFind(r, k, j) PROVE Inv'
  BY <1>1 DEF CaptureFind
<1>2. CASE CaptureCreate(r)
  <2>1. CASE UNCHANGED <<event, payload, accepted>>
    BY <1>2, <2>1 DEF CaptureCreate
  <2>2. CASE event[rkey[r]] = "none" /\ event' = [event EXCEPT ![rkey[r]] = "RECEIVED"]
    BY <1>2, <2>2 DEF CaptureCreate
  <2> QED
    BY <1>2, <2>1, <2>2 DEF CaptureCreate
<1> QED
  BY <1>1, <1>2

\* So does every step of a tick, whether or not another tick is at work.
LEMMA DrainKeeps == ASSUME Inv, NEW d \in Drains, TickStart(d) \/ DrainStep(d) \/ TickAges(d) PROVE Inv'
<1> USE Bounds DEF Inv, TypeOK, EventsKnown, AcceptedOnce, RowsAlternate, LinkSound, DrainPcs,
        inboxVars, postVars, reqVars, guardVars, drainVars, faultVars, Fault, Goto, OneDone, TickEnds
<1>1. CASE TickStart(d) \/ TickAges(d)
  BY <1>1 DEF TickStart, TickAges
<1>2. CASE DrainSelect(d)
  <2>1. CASE /\ drows' = [drows EXCEPT ![d] = {k \in Keys : event[k] = "RECEIVED"}]
            /\ dpc' = [dpc EXCEPT ![d] = "loop"] /\ UNCHANGED <<guardVars, faultVars>>
    BY <1>2, <2>1 DEF DrainSelect
  <2>2. CASE Fault("dbError") /\ TickEnds(d) /\ UNCHANGED drows
    BY <1>2, <2>2 DEF DrainSelect
  <2> QED
    BY <1>2, <2>1, <2>2 DEF DrainSelect
<1>3. ASSUME NEW k \in Keys, DrainNext(d, k) PROVE Inv'
  BY <1>3 DEF DrainNext
<1>4. CASE TickEnd(d)
  BY <1>4 DEF TickEnd
<1>5. CASE markSkipped(d) \/ markFailed(d)
  <2>1. devent[d] \in Keys /\ event[devent[d]] # "none"
    BY <1>5 DEF markSkipped, markFailed, Mark
  <2>2. CASE UNCHANGED event
    BY <1>5, <2>2 DEF markSkipped, markFailed, Mark
  <2>3. CASE markSkipped(d) /\ event' = [event EXCEPT ![devent[d]] = "SKIPPED"]
    BY <2>1, <2>3 DEF markSkipped, Mark
  <2>4. CASE markFailed(d) /\ event' = [event EXCEPT ![devent[d]] = "FAILED"]
    BY <2>1, <2>4 DEF markFailed, Mark
  <2> QED
    BY <1>5, <2>2, <2>3, <2>4 DEF markSkipped, markFailed, Mark
<1>6. CASE LinkRead(d)
  BY <1>6 DEF LinkRead, RowOf
<1>7. CASE LinkCommit(d)
  <2> DEFINE k == devent[d]
             j == payload[k]
  <2>1. k \in Keys /\ j \in Jobs /\ event[k] # "none"
    BY <1>7 DEF LinkCommit
  <2>2. CASE Goto(d, "failed") /\ UNCHANGED <<event, jobPostId, posts, created>>
    BY <1>7, <2>1, <2>2 DEF LinkCommit
  <2>3. CASE dseen[d] = RowOf(j) /\ WriteLink(d, k, j) /\ Goto(d, "push") /\ dseen[d] = 0 /\ UNCHANGED faultVars
    <3>1. j \notin posts
      BY <2>1, <2>3 DEF RowOf
    <3>2. created'[j] = created[j] + 1 /\ posts' = posts \cup {j}
      BY <2>1, <2>3 DEF WriteLink
    <3> QED
      BY <1>7, <2>1, <2>3, <3>1, <3>2 DEF LinkCommit, WriteLink
  <2>4. CASE dseen[d] = RowOf(j) /\ WriteLink(d, k, j) /\ OneDone(d) /\ dseen[d] # 0 /\ UNCHANGED faultVars
    <3>1. j \in posts
      BY <2>1, <2>4 DEF RowOf
    <3>2. created' = created /\ posts' = posts
      BY <2>1, <2>4, <3>1 DEF WriteLink
    <3> QED
      BY <1>7, <2>1, <2>4, <3>1, <3>2 DEF LinkCommit, WriteLink
  <2> QED
    BY <1>7, <2>2, <2>3, <2>4 DEF LinkCommit
<1>8. CASE Push(d)
  BY <1>8 DEF Push
<1> QED
  BY <1>1, <1>2, <1>3, <1>4, <1>5, <1>6, <1>7, <1>8 DEF DrainStep

\* The invariant is inductive.
LEMMA InvStep == Inv /\ [Next]_vars => Inv'
<1> SUFFICES ASSUME Inv, [Next]_vars PROVE Inv'
  OBVIOUS
<1> USE Bounds DEF Inv, TypeOK, EventsKnown, AcceptedOnce, RowsAlternate, LinkSound, DrainPcs,
        inboxVars, postVars, reqVars, guardVars, drainVars, faultVars, Fault
<1>1. ASSUME NEW j \in Jobs, Remove(j) PROVE Inv'
  BY <1>1 DEF Remove
<1>2. CASE Crash
  BY <1>2 DEF Crash
<1>3. CASE UNCHANGED vars
  BY <1>3 DEF vars
<1> QED
  BY <1>1, <1>2, <1>3, RequestKeeps, DrainKeeps DEF Next

\* With no event and no tick the invariant holds.
LEMMA InvInit == Init => Inv
  BY Bounds DEF Init, Inv, TypeOK, EventsKnown, AcceptedOnce, RowsAlternate, LinkSound, DrainPcs

\* Inv holds in every reachable state.
THEOREM InboxCorrect == Spec => []Inv
  BY InvInit, InvStep, PTL DEF Spec

\* Type correctness of the inbox, the drain and the pull queue.
THEOREM TypeCorrect == Spec => []TypeOK
  BY InboxCorrect, PTL DEF Inv

\* Of any number of racing deliveries under one key one is accepted: the unique key of
\* the inbox (vibe-ingest.service.ts).
THEOREM OneAcceptance == Spec => []AcceptedOnce
  BY InboxCorrect, PTL DEF Inv

\* Insertions and deletions of a row alternate, whatever ticks overlap: the unique
\* key of the posting (vibe-scheduler.service.ts).
THEOREM OneRow == Spec => []RowsAlternate
  BY InboxCorrect, PTL DEF Inv

\* An event is linked to the present row of its own posting: row and link are one
\* transaction (vibe-scheduler.service.ts).
THEOREM LinksAreSound == Spec => []LinkSound
  BY InboxCorrect, PTL DEF Inv

-----------------------------------------------------------------------------
(* PushedOncePerRow: count the ticks that are about to push.                *)

Pushing(j) == {d \in Drains : dpc[d] = "push" /\ payload[devent[d]] = j}

\* Whoever is about to push has inserted a row that nobody has pushed.
PushInv == \A j \in Jobs : pushed[j] + Cardinality(Pushing(j)) <= created[j]

\* Finitely many ticks are about to push one row.
LEMMA PushingFinite == \A j \in Jobs : IsFiniteSet(Pushing(j)) /\ Cardinality(Pushing(j)) \in Nat
<1> SUFFICES ASSUME NEW j \in Jobs PROVE IsFiniteSet(Pushing(j)) /\ Cardinality(Pushing(j)) \in Nat
  OBVIOUS
<1>1. Pushing(j) \in SUBSET Drains /\ IsFiniteSet(Drains)
  BY IngestAssumption DEF Pushing
<1>2. IsFiniteSet(Pushing(j))
  BY <1>1, FS_Subset
<1> QED
  BY <1>2, FS_CardinalityType

\* Every step but the commit and the push leaves the pushing ticks as they are, or
\* crashes them.
LEMMA PushStep == Inv /\ PushInv /\ [Next]_vars => PushInv'
<1> SUFFICES ASSUME Inv, PushInv, [Next]_vars, NEW j \in Jobs
             PROVE  pushed'[j] + Cardinality(Pushing(j)') <= created'[j]
  BY DEF PushInv
<1> DEFINE Goal == pushed'[j] + Cardinality(Pushing(j)') <= created'[j]
<1>1. /\ IsFiniteSet(Pushing(j)) /\ Cardinality(Pushing(j)) \in Nat
      /\ pushed[j] \in Nat /\ created[j] \in Nat
      /\ pushed[j] + Cardinality(Pushing(j)) <= created[j]
  BY PushingFinite DEF Inv, TypeOK, PushInv
<1>2. ASSUME Pushing(j)' = Pushing(j), pushed' = pushed, created' = created PROVE Goal
  BY <1>1, <1>2
<1>3. ASSUME NEW d \in Drains, LinkCommit(d) PROVE Goal
  <2>1. devent[d] \in Keys /\ payload[devent[d]] \in Jobs /\ d \notin Pushing(j)
    BY <1>3 DEF Inv, TypeOK, LinkCommit, Pushing
  <2>2. CASE dpc' = [dpc EXCEPT ![d] = "push"] /\ UNCHANGED devent /\ WriteLink(d, devent[d], payload[devent[d]])
             /\ dseen[d] = 0
    <3>1. CASE payload[devent[d]] = j
      <4>1. Pushing(j)' = Pushing(j) \cup {d}
        BY <1>3, <2>1, <2>2, <3>1 DEF Inv, TypeOK, LinkCommit, Pushing
      <4>2. Cardinality(Pushing(j)') = Cardinality(Pushing(j)) + 1
        BY <1>1, <2>1, <4>1, FS_AddElement
      <4>3. created'[j] = created[j] + 1 /\ pushed' = pushed
        BY <1>3, <2>2, <3>1 DEF Inv, TypeOK, LinkCommit, WriteLink
      <4> QED
        BY <1>1, <4>2, <4>3
    <3>2. CASE payload[devent[d]] # j
      <4>1. Pushing(j)' = Pushing(j)
        BY <1>3, <2>1, <2>2, <3>2 DEF Inv, TypeOK, LinkCommit, Pushing
      <4>2. created'[j] = created[j] /\ pushed' = pushed
        BY <1>3, <2>1, <2>2, <3>2 DEF Inv, TypeOK, LinkCommit, WriteLink
      <4> QED
        BY <1>1, <4>1, <4>2
    <3> QED
      BY <3>1, <3>2
  <2>3. CASE dpc'[d] # "push" /\ created' = created
    <3>1. Pushing(j)' = Pushing(j)
      BY <1>3, <2>1, <2>3 DEF Inv, TypeOK, LinkCommit, Goto, OneDone, Pushing
    <3> QED
      BY <1>2, <1>3, <2>3, <3>1 DEF LinkCommit
  <2> QED
    BY <1>3, <2>1, <2>2, <2>3 DEF Inv, TypeOK, LinkCommit, WriteLink, Goto, OneDone
<1>4. ASSUME NEW d \in Drains, Push(d) PROVE Goal
  <2>1. CASE d \in Pushing(j)
    <3>1. Pushing(j)' = Pushing(j) \ {d}
      BY <1>4, <2>1 DEF Inv, TypeOK, Push, OneDone, Pushing, inboxVars
    <3>2. Cardinality(Pushing(j)') = Cardinality(Pushing(j)) - 1
      BY <1>1, <2>1, <3>1, FS_RemoveElement
    <3>3. pushed'[j] \in {pushed[j], pushed[j] + 1} /\ created' = created
      BY <1>4, <2>1 DEF Inv, TypeOK, Push, Pushing
    <3> QED
      BY <1>1, <3>2, <3>3
  <2>2. CASE d \notin Pushing(j)
    <3>1. Pushing(j)' = Pushing(j)
      BY <1>4, <2>2 DEF Inv, TypeOK, Push, OneDone, Pushing, inboxVars
    <3>2. pushed'[j] = pushed[j] /\ created' = created
      BY <1>4, <2>2 DEF Inv, TypeOK, Push, Pushing
    <3> QED
      BY <1>1, <3>1, <3>2
  <2> QED
    BY <2>1, <2>2
<1>5. CASE Crash
  <2>1. Pushing(j)' = {}
    BY <1>5 DEF Crash, Pushing
  <2> QED
    BY <1>1, <1>5, <2>1, FS_EmptySet DEF Crash, postVars
<1>6. ASSUME NEW r \in Requests, CaptureCreate(r) \/ \E k \in Keys, i \in Jobs \cup {NoJob} : CaptureFind(r, k, i)
      PROVE Goal
  <2>1. \A d \in Drains : dpc[d] = "push" => payload'[devent[d]] = payload[devent[d]]
    BY <1>6 DEF Inv, TypeOK, EventsKnown, CaptureCreate, CaptureFind, inboxVars
  <2>2. UNCHANGED <<pushed, created, dpc, devent>>
    BY <1>6 DEF CaptureCreate, CaptureFind, postVars, drainVars
  <2> QED
    BY <1>2, <2>1, <2>2 DEF Pushing
<1>7. ASSUME NEW d \in Drains, TickStart(d) \/ TickAges(d) \/ DrainSelect(d) \/ TickEnd(d) \/ markSkipped(d)
             \/ markFailed(d) \/ LinkRead(d) \/ \E k \in Keys : DrainNext(d, k)
      PROVE Goal
  <2>1. UNCHANGED <<pushed, created, payload>>
    BY <1>7 DEF TickStart, TickAges, DrainSelect, TickEnd, markSkipped, markFailed, Mark, LinkRead, DrainNext,
                postVars, inboxVars
  <2>2. \A i \in Drains \ {d} : dpc'[i] = dpc[i] /\ devent'[i] = devent[i]
    BY <1>7 DEF TickStart, TickAges, DrainSelect, TickEnd, markSkipped, markFailed, Mark, LinkRead, DrainNext,
                TickEnds, OneDone, Goto, Inv, TypeOK, drainVars
  <2>3. (dpc'[d] = dpc[d] /\ devent'[d] = devent[d]) \/ (dpc[d] # "push" /\ dpc'[d] # "push")
    BY <1>7 DEF TickStart, TickAges, DrainSelect, TickEnd, markSkipped, markFailed, Mark, LinkRead, DrainNext,
                TickEnds, OneDone, Goto, Inv, TypeOK, drainVars
  <2>4. Pushing(j)' = Pushing(j)
    BY <2>1, <2>2, <2>3 DEF Pushing
  <2> QED
    BY <1>2, <2>1, <2>4
<1>8. CASE UNCHANGED <<payload, created, pushed, drainVars>>
  BY <1>2, <1>8 DEF Pushing, drainVars
<1> QED
  BY <1>3, <1>4, <1>5, <1>6, <1>7, <1>8 DEF Next, DrainStep, Remove, vars, inboxVars, postVars

\* PushedOncePerRow: however ticks overlap and crash, a row is pushed to the queue by the
\* hot path at most once.
THEOREM PushedOnce == Spec => []PushedOncePerRow
<1>1. Init => PushInv
  <2> SUFFICES ASSUME Init, NEW j \in Jobs PROVE pushed[j] + Cardinality(Pushing(j)) <= created[j]
    BY DEF PushInv
  <2>1. Pushing(j) = {} /\ pushed[j] = 0 /\ created[j] = 0
    BY DEF Init, Pushing
  <2> QED
    BY <2>1, FS_EmptySet
<1>2. Inv /\ PushInv => PushedOncePerRow
  BY PushingFinite DEF Inv, TypeOK, PushInv, PushedOncePerRow
<1> QED
  BY <1>1, <1>2, InboxCorrect, PushStep, PTL DEF Spec
=============================================================================

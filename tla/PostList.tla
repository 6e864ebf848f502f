------------------------------- MODULE PostList -------------------------------
(***************************************************************************)
(* How an operator reads the job posts (JobPostService): the list with its *)
(* filters and its order, the Next and Prev of the detail page, which are  *)
(* a query of their own, the mark that a post was viewed, and the          *)
(* statistics, while posts arrive, are analysed and are removed.           *)
(***************************************************************************)
EXTENDS Integers, FiniteSets

CONSTANTS Ids,        \* numbers: the order of the uuids, any post may get any
          German,     \* those whose client is from Germany
          Scores,     \* match scores an evaluation may give
          Walks,      \* filters and orders an operator goes through
          MaxAt,      \* bound of createdAt
          MaxChanges  \* bound of the arrivals, analyses and removals

VARIABLES post,       \* the JobPost rows
          viewed,     \* posts with a view of this operator
          walk,       \* the operator on the detail page, going on with Next
          changes

vars == <<post, viewed, walk, changes>>

NoScore == -1
Absent == [at |-> 0, score |-> NoScore, status |-> "absent", gate |-> "none"]
Idle == [pc |-> "idle"]
Present == {p \in Ids : post[p] # Absent}

Columns == {"matchScore", "createdAt"}
Directions == {"asc", "desc"}
Filters == [status : {"any", "NEW"}, minScore : {NoScore, 50}, viewed : {"any", "viewed", "unviewed"},
            country : {"any", "DE"}, gate : {"any", "pass", "reject"}]

Init ==
    /\ post = [p \in Ids |-> Absent]
    /\ viewed = {}
    /\ walk = Idle
    /\ changes = 0

-----------------------------------------------------------------------------
(* findAll.                                                                *)

\* The part of the filter that findNeighbor has as well; a minimum leaves out
\* the posts without a score.
SharedFilter(p, f) ==
    /\ f.status = "any" \/ post[p].status = f.status
    /\ f.minScore = NoScore \/ post[p].score >= f.minScore
    /\ CASE f.viewed = "any"      -> TRUE
         [] f.viewed = "viewed"   -> p \in viewed
         [] f.viewed = "unviewed" -> p \notin viewed

\* Country, and whether the gate let the post through to the evaluation.
Matches(p, f) ==
    /\ SharedFilter(p, f)
    /\ f.country = "any" \/ p \in German
    /\ f.gate = "any" \/ post[p].gate = f.gate

Listed(f) == {p \in Present : Matches(p, f)}

IsNull(p, col) == col = "matchScore" /\ post[p].score = NoScore
Value(p, col) == IF col = "matchScore" THEN post[p].score ELSE post[p].at

\* buildOrderBy: a null comes last in both directions, the id breaks ties.
Before(p, q, col, dir) ==
    IF IsNull(p, col) \/ IsNull(q, col)
    THEN ~IsNull(p, col) \/ (IsNull(p, col) /\ IsNull(q, col) /\ p < q)
    ELSE \/ dir = "asc" /\ Value(p, col) < Value(q, col)
         \/ dir = "desc" /\ Value(p, col) > Value(q, col)
         \/ Value(p, col) = Value(q, col) /\ p < q

-----------------------------------------------------------------------------
(* findNeighbor.  The value of the current post is read first.             *)

\* cursorWhere of "next" and of "prev" for a current post with that value.
\* Mutant: the posts without a value are no part of what comes next.
AfterNoTail(p, id, null, val, col, dir) ==
    ~null /\ ~IsNull(p, col) /\ (\/ dir = "asc" /\ Value(p, col) > val
                                 \/ dir = "desc" /\ Value(p, col) < val
                                 \/ Value(p, col) = val /\ p > id)
After(p, id, null, val, col, dir) ==
    IF null THEN IsNull(p, col) /\ p > id
    ELSE \/ IsNull(p, col)
         \/ dir = "asc" /\ Value(p, col) > val
         \/ dir = "desc" /\ Value(p, col) < val
         \/ Value(p, col) = val /\ p > id

Ahead(p, id, null, val, col, dir) ==
    IF null THEN ~IsNull(p, col) \/ p < id
    ELSE ~IsNull(p, col) /\ (\/ dir = "asc" /\ Value(p, col) < val
                             \/ dir = "desc" /\ Value(p, col) > val
                             \/ Value(p, col) = val /\ p < id)

\* "prev" orders by the opposite direction, nulls first and greatest id first.
PrevOrder(p, q, col, dir) ==
    IF IsNull(p, col) \/ IsNull(q, col)
    THEN ~IsNull(q, col) \/ (IsNull(p, col) /\ IsNull(q, col) /\ p > q)
    ELSE \/ dir = "asc" /\ Value(p, col) > Value(q, col)
         \/ dir = "desc" /\ Value(p, col) < Value(q, col)
         \/ Value(p, col) = Value(q, col) /\ p > q

\* The current post itself is left out.
Neighbours(id, null, val, way, f, col, dir) ==
    {p \in Present \ {id} :
        /\ SharedFilter(p, f)
        /\ CASE way = "next" -> After(p, id, null, val, col, dir)
             [] way = "prev" -> Ahead(p, id, null, val, col, dir)}

FirstOf(S, way, col, dir) ==
    {p \in S : \A q \in S \ {p} : CASE way = "next" -> Before(p, q, col, dir)
                                    [] way = "prev" -> PrevOrder(p, q, col, dir)}

\* What findFirst answers: a set of one post, or none.
Neighbour(id, null, val, way, f, col, dir) ==
    FirstOf(Neighbours(id, null, val, way, f, col, dir), way, col, dir)

-----------------------------------------------------------------------------
(* The walk: from the head of the list with Next until there is no more.   *)

OpenHead(f, col, dir) ==
    /\ walk.pc = "idle" /\ Cardinality(Listed(f)) > 1
    /\ \E head \in FirstOf(Listed(f), "next", col, dir) :
         walk' = [pc |-> "open", at |-> head, val |-> 0, null |-> FALSE, f |-> f, col |-> col, dir |-> dir,
                  listed |-> Listed(f), seen |-> {head}, moved |-> {}, jumped |-> FALSE, again |-> FALSE]
    /\ UNCHANGED <<post, viewed, changes>>

\* markViewed, which the page sends when it has opened the post.
MarkViewed ==
    /\ walk.pc = "open" /\ walk.at \in Present \ viewed
    /\ viewed' = viewed \union {walk.at}
    /\ UNCHANGED <<post, walk, changes>>

ReadCurrent ==
    /\ walk.pc = "open"
    /\ walk' = IF walk.at \in Present
               THEN [walk EXCEPT !.pc = "find", !.val = Value(walk.at, walk.col), !.null = IsNull(walk.at, walk.col)]
               ELSE [walk EXCEPT !.pc = "gone"]
    /\ UNCHANGED <<post, viewed, changes>>

FindNext ==
    /\ walk.pc = "find"
    /\ LET found == Neighbour(walk.at, walk.null, walk.val, "next", walk.f, walk.col, walk.dir) IN
       walk' = IF found = {} THEN [walk EXCEPT !.pc = "end"]
               ELSE LET p == CHOOSE q \in found : TRUE IN
                    [walk EXCEPT !.pc = "open", !.at = p, !.seen = @ \union {p},
                                 !.again = @ \/ p \in walk.seen]
    /\ UNCHANGED <<post, viewed, changes>>

-----------------------------------------------------------------------------
(* What happens to the posts meanwhile.                                    *)

\* A post that changes while the operator is at it takes the walk along.
Moved(p) ==
    IF walk.pc \in {"idle", "gone", "end"} THEN walk
    ELSE [walk EXCEPT !.moved = @ \union {p}, !.jumped = @ \/ p = walk.at]

Change == changes < MaxChanges /\ changes' = changes + 1

Arrive(p, at) ==
    /\ Change /\ p \notin Present
    /\ \A q \in Present : post[q].at <= at
    /\ post' = [post EXCEPT ![p] = [at |-> at, score |-> NoScore, status |-> "NEW", gate |-> "none"]]
    /\ walk' = Moved(p)
    /\ UNCHANGED viewed

\* The gate rejects with a score of 0.
Analysed(p, score, gate) ==
    /\ Change /\ p \in Present /\ post[p].status = "NEW"
    /\ gate = "reject" <=> score = 0
    /\ post' = [post EXCEPT ![p].score = score, ![p].gate = gate, ![p].status = "PROCESSED"]
    /\ walk' = Moved(p)
    /\ UNCHANGED viewed

\* remove: the views cascade.
Remove(p) ==
    /\ Change /\ p \in Present
    /\ post' = [post EXCEPT ![p] = Absent]
    /\ viewed' = viewed \ {p}
    /\ walk' = Moved(p)

Next ==
    \/ \E w \in Walks : OpenHead(w.f, w.col, w.dir)
    \/ MarkViewed \/ ReadCurrent \/ FindNext
    \/ \E p \in Ids, at \in 0..MaxAt : Arrive(p, at)
    \/ \E p \in Ids, score \in Scores \union {0}, gate \in {"pass", "reject"} : Analysed(p, score, gate)
    \/ \E p \in Ids : Remove(p)

Spec == Init /\ [][Next]_vars

-----------------------------------------------------------------------------
(* getStats.                                                               *)

Scored == {p \in Present : post[p].status = "PROCESSED" /\ post[p].score # NoScore}

Ranges == <<90..100, 71..89, 50..70, 40..49, 0..39>>

InRange(i) == Cardinality({p \in Scored : post[p].score \in Ranges[i]})

-----------------------------------------------------------------------------
\* Every variable has its type.
TypeOK ==
    /\ post \in [Ids -> [at : 0..MaxAt, score : Scores \union {NoScore, 0},
                         status : {"absent", "NEW", "PROCESSED"}, gate : {"none", "pass", "reject"}]]
    /\ viewed \subseteq Present
    /\ walk.pc \in {"idle", "open", "find", "gone", "end"}

\* The filters that the walk shares with the list.
SharedOnly(f) == f.country = "any" /\ f.gate = "any"

\* Next and Prev answer the posts beside the current one in the list, for every
\* order and every filter they share ("Walks the EXACT same total order the list
\* uses", findNeighbor); a walk changes nothing of this.
NeighbourIsBeside ==
    walk.pc = "idle" =>
    \A f \in {g \in Filters : SharedOnly(g)}, col \in Columns, dir \in Directions :
        \A p \in Listed(f) :
            LET later == {q \in Listed(f) : Before(p, q, col, dir)}
                sooner == {q \in Listed(f) : Before(q, p, col, dir)}
            IN  /\ Neighbour(p, IsNull(p, col), Value(p, col), "next", f, col, dir) = FirstOf(later, "next", col, dir)
                /\ Neighbour(p, IsNull(p, col), Value(p, col), "prev", f, col, dir) = FirstOf(sooner, "prev", col, dir)

\* A walk that comes to its end has shown every post of the list it began with
\* that nothing has happened to, though each post it shows may leave the list by
\* being viewed; only one that changes while it is shown makes the walk jump.
WalkShowsAll ==
    walk.pc = "end" /\ SharedOnly(walk.f) /\ ~walk.jumped
        => walk.listed \subseteq walk.seen \union walk.moved

\* No walk comes back to a post, unless some post has changed on the way.
WalkGoesOn == walk.pc \in {"open", "end"} /\ walk.again => walk.moved # {}

\* The ranges of the statistics hold every scored post once (getStats).
RangesPartition ==
    InRange(1) + InRange(2) + InRange(3) + InRange(4) + InRange(5) = Cardinality(Scored)

\* What the operator is shown of the posts is consistent (findAll, findNeighbor,
\* getStats).
PostListSound ==
    /\ NeighbourIsBeside
    /\ WalkShowsAll
    /\ WalkGoesOn
    /\ RangesPartition
=============================================================================

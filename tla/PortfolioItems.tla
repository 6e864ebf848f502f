--------------------------- MODULE PortfolioItems ---------------------------
(***************************************************************************)
(* PortfolioService without the assets: the address (slug) of an item, its *)
(* tags and its status.  A free slug is looked for one query at a time,    *)
(* the rows of the tags are written before the item that bears them, and   *)
(* an update replaces the tags of its item in a transaction.               *)
(***************************************************************************)
EXTENDS Integers, FiniteSets, Sequences

CONSTANTS Requests,
          MaxRequests,   \* bound of the requests that begin, and of the items
          MaxTries,      \* numbers that are tried after a slug, 50 in the code
          Words,         \* lower-case names of tags
          Forms          \* what create and update may be sent: slug, tags, whether they are sent, status

VARIABLES slug,      \* slug of each item, NoSlug for no such item
          status, tags,
          shown,     \* displayName of each tag that has a row
          rule,      \* settings: PORTFOLIO_AUTO_SLUG and PORTFOLIO_DEFAULT_STATUS
          req,       \* the requests at work
          begun,     \* requests so far
          failed,    \* history: whether each request that the slug key refused was behind
          used,      \* history: slugs that each item has had
          last,      \* history: what was last sent for each item, and how its slug was found
          raced      \* history: items whose tags two requests replaced at once

vars == <<slug, status, tags, shown, rule, req, begun, failed, used, last, raced>>

\* Slugs by the numbers after the first title: "alpha" is <<>>, "alpha-2" is <<2>>.
Items == 0..MaxRequests
NoSlug == <<0>>
Title == <<>>
None == [word |-> "", caps |-> FALSE, blank |-> FALSE]
Idle == [pc |-> "idle"]
Live == {i \in Items : slug[i] # NoSlug}

Init ==
    /\ slug = [i \in Items |-> IF i = 0 THEN Title ELSE NoSlug]
    /\ status = [i \in Items |-> "DRAFT"] /\ tags = [i \in Items |-> {}]
    /\ shown = [w \in Words |-> None]
    /\ rule \in [auto : BOOLEAN, status : {"DRAFT", "READY"}]
    /\ req = [r \in Requests |-> Idle] /\ begun = 0
    /\ failed = {} /\ used = [i \in Items |-> IF i = 0 THEN {Title} ELSE {}]
    /\ last = [i \in Items |-> [tags |-> {}, status |-> "DRAFT", base |-> Title, n |-> 1]] /\ raced = {}

Begins(r) == req[r].pc = "idle" /\ begun < MaxRequests /\ begun' = begun + 1
Goto(r, rec) == req' = [req EXCEPT ![r] = rec]
rows == <<slug, status, tags>>
past == <<failed, used, last, raced>>

-----------------------------------------------------------------------------
(* resolveUniqueSlug.                                                      *)

Candidate(base, n) == IF n = 1 THEN base ELSE Append(base, n)
HeldBy(x) == {i \in Items : slug[i] = x}

\* Mutant: an item stands in its own way.
FreeForNone(x, i) == HeldBy(x) = {}
FreeFor(x, i) == HeldBy(x) \subseteq {i}

\* The records that an operation starts from: what it was sent, and where it looks
\* for a slug first.
Fresh(i, form, base) == [pc |-> IF base = NoSlug THEN "tags" ELSE "slug", item |-> i, form |-> form,
                         base |-> base, n |-> 1, new |-> NoSlug, todo |-> form.tags,
                         saw |-> {}, behind |-> FALSE]

CreateBegins(r, form) ==
    /\ Begins(r)
    /\ Goto(r, IF form.slug # NoSlug THEN Fresh(begun + 1, form, form.slug)
               ELSE IF rule.auto THEN Fresh(begun + 1, form, Title) ELSE Idle)
    /\ UNCHANGED <<rows, shown, rule>> /\ UNCHANGED past
\* A slug that is exactly the present one is not looked for; another spelling of it is.
UpdateBegins(r, i, form) ==
    /\ Begins(r) /\ i \in Live
    /\ \E base \in {form.slug} \union (IF form.slug = slug[i] THEN {NoSlug} ELSE {}) : Goto(r, Fresh(i, form, base))
    /\ UNCHANGED <<rows, shown, rule>> /\ UNCHANGED past

TrySlug(r) ==
    LET q == req[r]  x == Candidate(q.base, q.n) IN
    /\ q.pc = "slug"
    /\ Goto(r, IF FreeFor(x, q.item) THEN [q EXCEPT !.pc = "tags", !.new = x]
               ELSE IF q.n < MaxTries THEN [q EXCEPT !.n = @ + 1] ELSE Idle)
    /\ UNCHANGED <<rows, shown, rule, begun>> /\ UNCHANGED past

-----------------------------------------------------------------------------
(* ensureTags: one row for every spelling of a name, the last one is shown. *)

Trimmed(tag) == [tag EXCEPT !.blank = FALSE]
Lower(tag) == [tag EXCEPT !.caps = FALSE]
\* Mutant: the case is kept.
NormalizedCased(tag) == Trimmed(tag)
Normalized(tag) == Lower(Trimmed(tag))

\* Of two spellings of one name in a form only the first counts.
Counts(form, n) == \A m \in 1..(n - 1) : Normalized(form[m]) # Normalized(form[n])
Names(form) == {Normalized(form[n]) : n \in DOMAIN form}

Upsert(r) ==
    LET q == req[r]  t == Head(q.todo)  n == Len(q.form.tags) - Len(q.todo) + 1 IN
    /\ q.pc = "tags" /\ q.todo # <<>>
    /\ shown' = IF Counts(q.form.tags, n) THEN [shown EXCEPT ![Normalized(t).word] = Trimmed(t)] ELSE shown
    /\ Goto(r, [q EXCEPT !.todo = Tail(@)])
    /\ UNCHANGED <<rows, rule, begun>> /\ UNCHANGED past

-----------------------------------------------------------------------------
(* The writes.                                                             *)

\* A slug is unique: the write of one that was taken meanwhile is refused.
Wanted(q) == IF q.new = NoSlug THEN slug[q.item] ELSE q.new
Fits(q) == HeldBy(Wanted(q)) \subseteq {q.item}
Others(r, rec) ==
    req' = [p \in Requests |-> IF p = r THEN rec
                               ELSE IF req[p].pc = "idle" THEN Idle ELSE [req[p] EXCEPT !.behind = TRUE]]
Refused(r) ==
    /\ failed' = failed \union {req[r].behind} /\ Goto(r, Idle)
    /\ UNCHANGED <<rows, used, last, raced>>

\* Mutant: a status that was not sent is written back as it was read.
StatusBack(q) == IF q.form.status = "" THEN "DRAFT" ELSE q.form.status
StatusOf(q) == IF q.form.status = "" THEN status[q.item] ELSE q.form.status

Create(r) ==
    LET q == req[r]
        st == IF q.form.status = "" THEN rule.status ELSE q.form.status IN
    /\ q.pc = "tags" /\ q.todo = <<>> /\ q.item \notin Live /\ used[q.item] = {}
    /\ \/ /\ Fits(q)
          /\ slug' = [slug EXCEPT ![q.item] = q.new]
          /\ status' = [status EXCEPT ![q.item] = st]
          /\ tags' = [tags EXCEPT ![q.item] = Names(q.form.tags)]
          /\ used' = [used EXCEPT ![q.item] = {q.new}]
          /\ last' = [last EXCEPT ![q.item] = [tags |-> Names(q.form.tags), status |-> st, base |-> q.base, n |-> q.n]]
          /\ Others(r, Idle) /\ UNCHANGED <<failed, raced>>
       \/ ~Fits(q) /\ Refused(r)
    /\ UNCHANGED <<shown, rule, begun>>

\* The transaction of an update: it deletes the tags that it can see, another one's
\* being in sight only after its commit, then writes its own and the item.
Replace(r) ==
    LET q == req[r] IN
    /\ q.pc = "tags" /\ q.todo = <<>> /\ used[q.item] # {}
    /\ Goto(r, [q EXCEPT !.pc = "save", !.saw = tags[q.item]])
    /\ UNCHANGED <<rows, shown, rule, begun>> /\ UNCHANGED past
Save(r) ==
    LET q == req[r] IN
    /\ q.pc = "save"
    /\ \/ /\ q.item \in Live /\ Fits(q)
          /\ slug' = [slug EXCEPT ![q.item] = Wanted(q)]
          /\ status' = [status EXCEPT ![q.item] = StatusOf(q)]
          /\ tags' = IF q.form.sent THEN [tags EXCEPT ![q.item] = (@ \ q.saw) \union Names(q.form.tags)] ELSE tags
          /\ used' = [used EXCEPT ![q.item] = @ \union {Wanted(q)}]
          /\ last' = [last EXCEPT ![q.item] =
                        [tags |-> IF q.form.sent THEN Names(q.form.tags) ELSE @.tags,
                         status |-> IF q.form.status = "" THEN @.status ELSE q.form.status,
                         base |-> IF q.new = NoSlug THEN @.base ELSE q.base,
                         n |-> IF q.new = NoSlug THEN @.n ELSE q.n]]
          /\ raced' = IF q.form.sent /\ tags[q.item] # q.saw THEN raced \union {q.item} ELSE raced
          /\ Others(r, Idle) /\ UNCHANGED failed
       \/ q.item \in Live /\ ~Fits(q) /\ Refused(r)
       \/ q.item \notin Live /\ Goto(r, Idle) /\ UNCHANGED rows /\ UNCHANGED past
    /\ UNCHANGED <<shown, rule, begun>>

\* archive, and remove, which takes the tags of the item along but not their rows.
Archive(r, i) ==
    /\ Begins(r) /\ i \in Live
    /\ status' = [status EXCEPT ![i] = "ARCHIVED"] /\ last' = [last EXCEPT ![i].status = "ARCHIVED"]
    /\ UNCHANGED <<slug, tags, shown, rule, req, failed, used, raced>>
Remove(r, i) ==
    /\ Begins(r) /\ i \in Live
    /\ slug' = [slug EXCEPT ![i] = NoSlug] /\ tags' = [tags EXCEPT ![i] = {}]
    /\ Others(r, req[r])
    /\ UNCHANGED <<status, shown, rule>> /\ UNCHANGED past

\* What list shows for a tag: the name in lower case, not trimmed.
Listed(tag) == {i \in Live : Lower(tag) \in tags[i]}

Next ==
    \E r \in Requests :
        \/ \E f \in Forms : CreateBegins(r, f) \/ \E i \in Items : UpdateBegins(r, i, f)
        \/ TrySlug(r) \/ Upsert(r) \/ Create(r) \/ Replace(r) \/ Save(r)
        \/ \E i \in Items : Archive(r, i) \/ Remove(r, i)

Spec == Init /\ [][Next]_vars

-----------------------------------------------------------------------------
(* Properties.                                                             *)

\* Every variable keeps its type.
TypeOK ==
    /\ status \in [Items -> {"DRAFT", "READY", "ARCHIVED"}]
    /\ begun \in 0..MaxRequests /\ raced \subseteq Items /\ failed \subseteq BOOLEAN
    /\ \A i \in Items : slug[i] \in {NoSlug} \union UNION {used[j] : j \in Items}

\* Items have addresses of their own, and a number is put after one only for a reason:
\* each candidate before it has been another item's.
SlugsAreNeeded ==
    /\ \A i, j \in Live : slug[i] = slug[j] => i = j
    /\ \A i \in Live : \A m \in 1..(last[i].n - 1) :
          \E j \in Items \ {i} : Candidate(last[i].base, m) \in used[j]

\* A request that the database refuses has been overtaken since it looked for a slug.
FailuresAreRaces == \A b \in failed : b

\* The tags of an item are those of the last form that had any, and more only after
\* two forms that replaced them at once; two spellings are one tag, which has a row, and
\* the item is found by the name that is shown.
TagsAreTheForm ==
    \A i \in Live :
        /\ IF i \in raced THEN last[i].tags \subseteq tags[i] ELSE tags[i] = last[i].tags
        /\ \A t \in tags[i] : i \in Listed(shown[t.word])
        /\ \A t, u \in tags[i] : t.word = u.word => t = u

\* A status changes only on request, whatever other changes overlap with it.
StatusIsAsked == \A i \in Live : status[i] = last[i].status

PortfolioItemsSound ==
    /\ SlugsAreNeeded
    /\ FailuresAreRaces
    /\ TagsAreTheForm
    /\ StatusIsAsked
=============================================================================

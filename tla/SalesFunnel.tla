------------------------------ MODULE SalesFunnel ------------------------------
(***************************************************************************)
(* ProposalService, LeadService, LinkedInPostService and                   *)
(* LinkedInIdeaService: a proposal, the lead its first reply opens, a lead  *)
(* that was entered by hand (the enquiry), and a post with the idea it came *)
(* from.  Each update reads its row, decides, and then writes only the      *)
(* columns of its form, so an update in between makes the decision a stale  *)
(* one.  The idea is converted in a statement of its own after the post.    *)
(***************************************************************************)
EXTENDS Integers, FiniteSets

CONSTANTS Requests,
          Forms,         \* the columns of the update forms, per kind of row
          MaxRequests    \* bound of the requests that begin

VARIABLES row,       \* the proposal, the leads and the post
          idea,      \* the idea behind the post: its status, and two histories:
                     \* what an operator last made of it, and whether the post has lost its
                     \* hold on it, as its conversion failed or an operator changed it after
          req,       \* the requests at work
          begun,     \* requests so far
          raced,     \* history: kinds decided from a stale row
          dropped    \* history: kinds whose row was deleted; it does not come back

vars == <<row, idea, req, begun, raced, dropped>>

Kinds == {"proposal", "lead", "enquiry", "post"}
Leads == {"lead", "enquiry"}
LeadStatuses == {"NEW", "ON_HOLD", "WON"}
IdeaStatuses == {"NEW", "IN_PROGRESS", "CONVERTED", "ARCHIVED"}
Waiting == {"NEW", "IN_PROGRESS"}
NoRow == [status |-> "gone"]
Idle == [pc |-> "idle"]
There(k) == row[k].status # "gone"

Init ==
    /\ row = [k \in Kinds |-> NoRow]
    /\ idea = [status |-> "NEW", asked |-> "NEW", loose |-> FALSE]
    /\ req = [r \in Requests |-> Idle] /\ begun = 0 /\ raced = {} /\ dropped = {}

Goto(r, rec) == req' = [req EXCEPT ![r] = rec]
Begins == begun < MaxRequests /\ begun' = begun + 1
Fresh(r) == req[r].pc = "idle" /\ Begins
New(k) == ~There(k) /\ k \notin dropped

Carries(form, column) == column \in DOMAIN form
Of(form, old, column) == IF Carries(form, column) THEN form[column] ELSE old[column]

-----------------------------------------------------------------------------
(* What each kind of update works out from the row it read.                *)

\* Only a bid spends connects, and only a boost spends boosted ones.
SpentConnects(form, old) ==
    LET type == Of(form, old, "type")
        boosted == Of(form, old, "boosted")
    IN IF type # "Bid" THEN [boosted |-> FALSE, connects |-> 0, extra |-> 0]
       ELSE [boosted |-> boosted, connects |-> Of(form, old, "connects"),
             extra |-> IF ~Carries(form, "boosted") THEN old.extra
                       ELSE IF boosted /\ Carries(form, "extra") THEN form.extra ELSE 0]
\* The columns that this update writes: none of those that its form leaves out,
\* except that what is no bid writes all three.
BidColumns(form, read) ==
    IF Of(form, read, "type") # "Bid" THEN {"boosted", "connects", "extra"}
    ELSE (DOMAIN form \intersect {"boosted", "connects"}) \union
         (IF Carries(form, "boosted") THEN {"extra"} ELSE {})

\* A reply opens a lead when the status that was read was no reply.
\* Mutant: the lead is opened when the proposal is sent.
OpensLeadWhenSent(form, read) == Carries(form, "status") /\ form.status = "Sent" /\ read.status # "Sent"
OpensLead(form, read) == Carries(form, "status") /\ form.status = "Replied" /\ read.status # "Replied"

Becomes(form, read, status) == Carries(form, "status") /\ form.status = status /\ read.status # status

\* validateStatus, over the row that was read under the form.
ValidPost(form, read) ==
    /\ Of(form, read, "status") = "SCHEDULED" => Of(form, read, "scheduledAt")
    /\ Of(form, read, "status") = "PUBLISHED" => Of(form, read, "publishedAt")

\* `born`, a history, is the status a lead was created with, until it has another.
NewLead(status) == [status |-> status, held |-> FALSE, won |-> FALSE, born |-> status]
NewBid(type) == [type |-> type, boosted |-> FALSE, connects |-> 0, extra |-> 0]
NewPost == [status |-> "DRAFT", scheduledAt |-> FALSE, publishedAt |-> FALSE]

-----------------------------------------------------------------------------
(* create.                                                                 *)

CreateProposal(r, type, form) ==
    LET spent == SpentConnects(form, NewBid(type))
    IN /\ New("proposal") /\ Fresh(r)
       /\ row' = [row EXCEPT !["proposal"] =
                    [status |-> "Draft", type |-> Of(form, NewBid(type), "type"), boosted |-> spent.boosted,
                     connects |-> spent.connects, extra |-> spent.extra]]
       /\ UNCHANGED <<idea, req, raced, dropped>>

\* A lead of the form is created with any status of it, and with no date.
CreateEnquiry(r, status) ==
    /\ New("enquiry") /\ Fresh(r)
    /\ row' = [row EXCEPT !["enquiry"] = NewLead(status)]
    /\ UNCHANGED <<idea, req, raced, dropped>>

\* The post, and then, apart from it, the idea it came from.
CreatePost(r, form) ==
    /\ New("post") /\ idea.status # "gone" /\ ValidPost(form, NewPost) /\ Fresh(r)
    /\ row' = [row EXCEPT !["post"] = [c \in DOMAIN NewPost |-> Of(form, NewPost, c)]]
    /\ Goto(r, [pc |-> "convert"])
    /\ UNCHANGED <<idea, raced, dropped>>

ConvertIdea(r) ==
    /\ req[r].pc = "convert"
    /\ idea' = IF idea.status \in Waiting THEN [idea EXCEPT !.status = "CONVERTED", !.loose = FALSE] ELSE idea
    /\ Goto(r, Idle)
    /\ UNCHANGED <<row, begun, raced, dropped>>

\* The second statement fails, or the process ends before it; the post stays.
ConvertFails(r) ==
    /\ req[r].pc = "convert"
    /\ idea' = [idea EXCEPT !.loose = TRUE]
    /\ Goto(r, Idle)
    /\ UNCHANGED <<row, begun, raced, dropped>>

-----------------------------------------------------------------------------
(* The idea: update writes any status of its form; remove.                 *)

PatchIdea(status) ==
    /\ idea.status # "gone" /\ Begins
    /\ idea' = [status |-> status, asked |-> status, loose |-> idea.loose \/ There("post")]
    /\ UNCHANGED <<row, req, raced, dropped>>

RemoveIdea ==
    /\ idea.status # "gone" /\ Begins
    /\ idea' = [idea EXCEPT !.status = "gone", !.asked = "gone"]
    /\ UNCHANGED <<row, req, raced, dropped>>

-----------------------------------------------------------------------------
(* update.                                                                 *)

UpdateBegins(r, k, form) ==
    /\ There(k) /\ Fresh(r)
    /\ Goto(r, IF k = "post" /\ ~ValidPost(form, row[k]) THEN Idle
               ELSE [pc |-> "write", kind |-> k, form |-> form, read |-> row[k], stale |-> FALSE])
    /\ UNCHANGED <<row, idea, raced, dropped>>

Overtaken(q, k) == IF q.pc = "write" /\ q.kind = k THEN [q EXCEPT !.stale = TRUE] ELSE q
Written(r, k) ==
    /\ raced' = raced \union (IF req[r].stale THEN {k} ELSE {})
    /\ req' = [q \in Requests |-> IF q = r THEN Idle ELSE Overtaken(req[q], k)]

\* One transaction: a second lead of the same proposal breaks the unique index
\* and takes the update back with it.
WriteProposal(r, k) ==
    LET form == req[r].form
        read == req[r].read
        old == row[k]
        spent == SpentConnects(form, read)
        columns == BidColumns(form, read)
        pick(c) == IF c \in columns THEN spent[c] ELSE old[c]
        next == [status |-> Of(form, old, "status"), type |-> Of(form, old, "type"),
                 boosted |-> pick("boosted"), connects |-> pick("connects"), extra |-> pick("extra")]
        opens == OpensLead(form, read)
    IN IF opens /\ There("lead") THEN Goto(r, Idle) /\ UNCHANGED <<row, raced>>
       ELSE /\ row' = [row EXCEPT ![k] = next, !["lead"] = IF opens THEN NewLead("NEW") ELSE @]
            /\ Written(r, k)

WriteLead(r, k) ==
    LET form == req[r].form
        read == req[r].read
    IN /\ row' = [row EXCEPT ![k] =
                    [status |-> Of(form, @, "status"),
                     born |-> IF Of(form, @, "status") = @.status THEN @.born ELSE "none",
                     held |-> @.held \/ Becomes(form, read, "ON_HOLD"),
                     won |-> @.won \/ Becomes(form, read, "WON")]]
       /\ Written(r, k)

WritePost(r, k) ==
    /\ row' = [row EXCEPT ![k] = [c \in DOMAIN @ |-> Of(req[r].form, @, c)]]
    /\ Written(r, k)

Write(r) ==
    /\ req[r].pc = "write"
    /\ LET k == req[r].kind
       IN \/ k = "proposal" /\ WriteProposal(r, k)
          \/ k \in Leads /\ WriteLead(r, k)
          \/ k = "post" /\ WritePost(r, k)
    /\ UNCHANGED <<idea, begun, dropped>>

\* remove; a lead outlives its proposal.  A write under way finds no row any more.
Remove(k) ==
    /\ There(k) /\ Begins
    /\ row' = [row EXCEPT ![k] = NoRow]
    /\ dropped' = dropped \union {k}
    /\ req' = [q \in Requests |-> IF req[q].pc = "write" /\ req[q].kind = k THEN Idle ELSE req[q]]
    /\ UNCHANGED <<idea, raced>>

Next ==
    \/ \E s \in IdeaStatuses : PatchIdea(s)
    \/ RemoveIdea
    \/ \E k \in Kinds : Remove(k)
    \/ \E r \in Requests :
          \/ \E t \in {"Bid", "Invite"}, f \in Forms["proposal"] : CreateProposal(r, t, f)
          \/ \E s \in LeadStatuses : CreateEnquiry(r, s)
          \/ \E f \in Forms["post"] : CreatePost(r, f)
          \/ ConvertIdea(r) \/ ConvertFails(r)
          \/ \E k \in Kinds : \E f \in Forms[k] : UpdateBegins(r, k, f)
          \/ Write(r)

Spec == Init /\ [][Next]_vars

-----------------------------------------------------------------------------
(* Properties.                                                             *)

\* Every variable keeps its type.
TypeOK ==
    /\ DOMAIN row = Kinds /\ (There("post") => row["post"].scheduledAt \in BOOLEAN)
    /\ There("proposal") => row["proposal"].connects \in 0..3 /\ row["proposal"].extra \in 0..3
    /\ \A k \in Leads : There(k) => row[k].held \in BOOLEAN
    /\ idea.status \in IdeaStatuses \union {"gone"} /\ raced \union dropped \subseteq Kinds

\* A proposal that has a reply has a lead, unless the lead was deleted, whatever order
\* its updates take.
ReplyHasLead ==
    There("proposal") /\ row["proposal"].status = "Replied" /\ "lead" \notin dropped => There("lead")

\* Only bids spend connects and only boosted ones spend more, unless the type was
\* changed between another update's read and its write.
OnlyBidsSpend ==
    There("proposal") /\ "proposal" \notin raced =>
        /\ row["proposal"].type # "Bid" => row["proposal"].connects = 0 /\ row["proposal"].extra = 0
        /\ row["proposal"].extra > 0 => row["proposal"].boosted

\* A lead that has become won, or been put on hold, has the date of it, unless updates
\* overlapped; one that was created so, and has kept that status, has none.
LeadStamped ==
    \A k \in Leads : There(k) /\ k \notin raced =>
        /\ row[k].status = "WON" => row[k].won \/ row[k].born = "WON"
        /\ row[k].status = "ON_HOLD" => row[k].held \/ row[k].born = "ON_HOLD"

\* A scheduled post has a time and a published one a date, unless one update
\* emptied what the other relied on.
PostDated == There("post") /\ "post" \notin raced => ValidPost([status |-> row["post"].status], row["post"])

\* Once a post has been made of an idea, the idea waits no more to be taken up, unless the
\* second statement failed or an operator set it back after it; and a post never takes up
\* again what an operator has archived.
IdeaTaken ==
    /\ There("post") /\ (\A r \in Requests : req[r].pc # "convert") => idea.status \notin Waiting \/ idea.loose
    /\ idea.status # idea.asked => idea.status = "CONVERTED" /\ idea.asked \in Waiting

SalesFunnelSound ==
    /\ ReplyHasLead
    /\ OnlyBidsSpend
    /\ LeadStamped
    /\ PostDated
    /\ IdeaTaken
=============================================================================

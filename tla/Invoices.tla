-------------------------------- MODULE Invoices --------------------------------
(***************************************************************************)
(* InvoiceService: one invoice, its line items and its PDF in the bucket,   *)
(* which two requests may work on at a time.  A form replaces the items in  *)
(* a transaction under READ COMMITTED; a PDF is made by an outside service  *)
(* from the row as it was read, stored under a name taken from the          *)
(* counterparty, and recorded last.                                         *)
(***************************************************************************)
EXTENDS Integers

CONSTANTS Requests,
          MaxRequests,   \* bound of the requests that begin
          MaxFaults      \* bound of failed calls

VARIABLES row,         \* status and pdfUrl of the invoice, or NoRow
          items,       \* its line items: the numbers of the forms they came with
          name,        \* the name of the counterparty
          objects,     \* the files of the bucket
          req, begun, faults,
          overlap,     \* history: two transactions replaced the items side by side
          crossed      \* history: a removal and the making of a PDF overlapped

vars == <<row, items, name, objects, req, begun, faults, overlap, crossed>>

NoRow == [status |-> "none", pdf |-> 0]
Idle == [pc |-> "idle"]
Names == 1..2

Init ==
    /\ row = NoRow /\ items = {} /\ name = 1 /\ objects = {}
    /\ req = [r \in Requests |-> Idle]
    /\ begun = 0 /\ faults = 0 /\ overlap = FALSE /\ crossed = FALSE

Exists == row.status # "none"
Goto(r, rec) == req' = [req EXCEPT ![r] = rec]
Fault == faults < MaxFaults /\ faults' = faults + 1
Begin(r, rec) == begun < MaxRequests /\ req[r].pc = "idle" /\ begun' = begun + 1 /\ Goto(r, rec)

\* Is another request at one of these steps?
Others(r, pcs) == \E q \in Requests \ {r} : req[q].pc \in pcs

-----------------------------------------------------------------------------
(* create and update.                                                      *)

Create(r) ==
    /\ ~Exists /\ items = {} /\ begun = 0 /\ Begin(r, Idle)
    /\ row' = [status |-> "draft", pdf |-> 0] /\ items' = {begun'}
    /\ UNCHANGED <<name, objects, faults, overlap, crossed>>

\* Paid needs a PDF; any other status may be chosen.
\* Mutant: the status of the form is taken as it is.
MayBecomeAny(status) == TRUE
MayBecome(status) == status = "paid" => row.pdf # 0

UpdateReads(r, status, replaces) ==
    /\ Exists /\ MayBecome(status)
    /\ Begin(r, [pc |-> IF replaces THEN "items" ELSE "write", status |-> status,
                 form |-> IF replaces THEN begun' ELSE 0, old |-> {}])
    /\ UNCHANGED <<row, items, name, objects, faults, overlap, crossed>>

\* deleteMany deletes what is committed when the statement begins.
DeleteItems(r) ==
    /\ req[r].pc = "items"
    /\ Goto(r, [req[r] EXCEPT !.pc = "write", !.old = items])
    /\ overlap' = (overlap \/ \E q \in Requests \ {r} : req[q].pc = "write" /\ req[q].form # 0)
    /\ UNCHANGED <<row, items, name, objects, begun, faults, crossed>>

\* Mutant: the items of the form are added to those there are.
NewItemsAdded(r) == IF req[r].form = 0 THEN items ELSE items \union {req[r].form}
NewItems(r) == IF req[r].form = 0 THEN items ELSE (items \ req[r].old) \union {req[r].form}

WriteForm(r) ==
    /\ req[r].pc = "write" /\ Goto(r, Idle)
    /\ \/ /\ Exists /\ UNCHANGED faults
          /\ items' = NewItems(r)
          /\ row' = IF req[r].status = "same" THEN row ELSE [row EXCEPT !.status = req[r].status]
       \/ ~Exists /\ UNCHANGED <<row, items, faults>>
       \/ Fault /\ UNCHANGED <<row, items>>
    /\ UNCHANGED <<name, objects, begun, overlap, crossed>>

-----------------------------------------------------------------------------
(* generate.                                                                *)

\* The outside service answers with the PDF, or the request ends.
GenerateReads(r) ==
    /\ Exists
    /\ Begin(r, [pc |-> "service", file |-> name])
    /\ crossed' = (crossed \/ Others(r, {"remove", "drop"}))
    /\ UNCHANGED <<row, items, name, objects, faults, overlap>>
ServiceAnswers(r) ==
    /\ req[r].pc = "service"
    /\ \/ Goto(r, [req[r] EXCEPT !.pc = "replace"]) /\ UNCHANGED faults
       \/ Fault /\ Goto(r, Idle)
    /\ UNCHANGED <<row, items, name, objects, begun, overlap, crossed>>

\* StorageService.replace: the old file goes before the new one is there.
ReplaceDeletes(r) ==
    /\ req[r].pc = "replace"
    /\ \/ objects' = objects \ {req[r].file} /\ UNCHANGED faults
          /\ Goto(r, [req[r] EXCEPT !.pc = "upload"])
       \/ Fault /\ Goto(r, Idle) /\ UNCHANGED objects
    /\ UNCHANGED <<row, items, name, begun, overlap, crossed>>
ReplaceUploads(r) ==
    /\ req[r].pc = "upload"
    /\ \/ objects' = objects \union {req[r].file} /\ UNCHANGED faults
          /\ Goto(r, [req[r] EXCEPT !.pc = "record"])
       \/ Fault /\ Goto(r, Idle) /\ UNCHANGED objects
    /\ UNCHANGED <<row, items, name, begun, overlap, crossed>>

Record(r) ==
    /\ req[r].pc = "record" /\ Goto(r, Idle)
    /\ \/ row' = (IF Exists THEN [status |-> "open", pdf |-> req[r].file] ELSE row) /\ UNCHANGED faults
       \/ Fault /\ UNCHANGED row
    /\ UNCHANGED <<items, name, objects, begun, overlap, crossed>>

-----------------------------------------------------------------------------
(* remove, and one row of bulkRemove.                                       *)

RemoveReads(r) ==
    /\ Exists
    /\ Begin(r, [pc |-> "remove", file |-> row.pdf])
    /\ crossed' = (crossed \/ Others(r, {"service", "replace", "upload", "record"}))
    /\ UNCHANGED <<row, items, name, objects, faults, overlap>>

RemoveFile(r) ==
    /\ req[r].pc = "remove"
    /\ \/ objects' = objects \ {req[r].file} /\ UNCHANGED faults
          /\ Goto(r, [req[r] EXCEPT !.pc = "drop"])
       \/ Fault /\ Goto(r, Idle) /\ UNCHANGED objects
    /\ UNCHANGED <<row, items, name, begun, overlap, crossed>>
RemoveRow(r) ==
    /\ req[r].pc = "drop" /\ Goto(r, Idle)
    /\ \/ row' = NoRow /\ items' = {} /\ UNCHANGED faults
       \/ Fault /\ UNCHANGED <<row, items>>
    /\ UNCHANGED <<name, objects, begun, overlap, crossed>>

\* The counterparty gets another name.
Rename ==
    /\ name = 1 /\ name' = 2
    /\ UNCHANGED <<row, items, objects, req, begun, faults, overlap, crossed>>

Next ==
    \/ Rename
    \/ \E r \in Requests :
          \/ Create(r)
          \/ \E s \in {"same", "draft", "open", "paid"}, b \in BOOLEAN : UpdateReads(r, s, b)
          \/ DeleteItems(r) \/ WriteForm(r)
          \/ GenerateReads(r) \/ ServiceAnswers(r) \/ ReplaceDeletes(r) \/ ReplaceUploads(r)
          \/ Record(r)
          \/ RemoveReads(r) \/ RemoveFile(r) \/ RemoveRow(r)

Spec == Init /\ [][Next]_vars

-----------------------------------------------------------------------------
(* Properties.                                                             *)

\* Every variable keeps its type.
TypeOK ==
    /\ row \in [status : {"none", "draft", "open", "paid"}, pdf : {0} \union Names]
    /\ items \subseteq 1..MaxRequests /\ name \in Names /\ objects \subseteq Names
    /\ \A r \in Requests : req[r].pc \in {"idle", "items", "write", "service", "replace",
                                          "upload", "record", "remove", "drop"}

\* An invoice is paid only if it has a PDF; the check may be older than the write.
PaidHasPdf == row.status = "paid" => row.pdf # 0

\* The file that the row names is in the bucket, unless a request is at work
\* between its two steps, or one of them failed or was crossed.
PdfIsStored ==
    row.pdf # 0 /\ row.pdf \notin objects =>
        faults > 0 \/ crossed \/ \E r \in Requests : req[r].pc \in {"upload", "drop"}

\* A file in the bucket is the one the row names, unless it is about to be
\* recorded; a failed step, a removal meanwhile, or another name of the
\* counterparty leaves a file behind that nothing names.
FileIsNamed ==
    objects \ {row.pdf} # {} =>
        \/ faults > 0 \/ crossed \/ name = 2
        \/ \E r \in Requests : req[r].pc \in {"record", "replace", "upload"}

\* The items are those of one form, so that the total is not counted twice; two
\* forms at the same moment may each leave theirs.
ItemsOfOneForm == (\E x, y \in items : x # y) => overlap

InvoiceSound ==
    /\ PaidHasPdf
    /\ PdfIsStored
    /\ FileIsNamed
    /\ ItemsOfOneForm
=============================================================================

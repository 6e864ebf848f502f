-------------------------------- MODULE Payroll --------------------------------
(***************************************************************************)
(* PayrollService: the payroll entry of one employee and month, which two   *)
(* requests may change at a time.  A request reads the row, checks it,      *)
(* reads the coefficients from the settings and writes the whole row.       *)
(* Amounts are in cents, rates in hundredths of a percent.                  *)
(***************************************************************************)
EXTENDS Integers, FiniteSets, FiniteSetsExt

CONSTANTS Requests,
          MaxRequests,    \* bound of the requests that begin
          MaxEdits,       \* bound of the settings edits
          Sheets,         \* the inputs of an entry that a form may hold
          TaxPercents     \* values of payroll.taxPercentage

VARIABLES row,        \* the PayrollEntry, or NoRow
          req,        \* the requests at work
          tax,        \* payroll.taxPercentage
          lock,       \* payroll.lockPaidRuns: what the database and the cache say
          begun, edits

vars == <<row, req, tax, lock, begun, edits>>

NoRow == [status |-> "none"]
Idle == [pc |-> "idle"]
\* Values of fields a form may change, beside those of Sheets.
Forms == {[rate |-> 200000], [fixedBonus |-> 3000], [feePct |-> 100], [advance |-> 900000]}

Init ==
    /\ row = NoRow
    /\ req = [r \in Requests |-> Idle]
    /\ tax = 600 /\ lock = [db |-> TRUE, cache |-> TRUE]
    /\ begun = 0 /\ edits = 0

-----------------------------------------------------------------------------
(* computeAll.                                                              *)

\* Division of natural numbers, rounded half up.
Round(a, b) == (2 * a + b) \div (2 * b)

FixedTax == 4250
MinFee == 400
Hundred == 10000

Base(s) == IF s.rateType = "HOURLY" THEN Round(s.rate * s.hours, 100) ELSE s.rate

Tax(s, t) == IF Base(s) = 0 THEN 0 ELSE Round(FixedTax * Hundred + Base(s) * t, Hundred)
Bonus(s) == Round(Base(s) * s.bonusPct + s.fixedBonus * Hundred, Hundred)
Accrued(s, t) == Base(s) + Tax(s, t) + Bonus(s)
Owed(s, t) == Max({0, Accrued(s, t) - s.advance})

\* Mutant: the fee is a share of what the employee receives.
FeeOfNet(s, t) == IF Owed(s, t) = 0 THEN 0 ELSE Max({MinFee, Round(Owed(s, t) * s.feePct, Hundred)})
Fee(s, t) ==
    IF Owed(s, t) = 0 THEN 0
    ELSE Max({MinFee, Round(Owed(s, t) * s.feePct, Hundred - s.feePct)})

\* With a fee of 100 % the quotient is infinite, and the database refuses it.
Finite(s, t) == s.feePct < Hundred \/ Owed(s, t) = 0

ComputeAll(s, t) ==
    [base |-> Base(s), tax |-> Tax(s, t), bonus |-> Bonus(s), accrued |-> Accrued(s, t),
     fee |-> Fee(s, t), remaining |-> Owed(s, t) + Fee(s, t), cost |-> Accrued(s, t) + Fee(s, t)]

-----------------------------------------------------------------------------
(* The requests.                                                            *)

Exists == row.status # "none"
Set(r, rec) == req' = [req EXCEPT ![r] = rec]
Done(r) == Set(r, Idle)

Begin(r, rec) ==
    /\ begun < MaxRequests /\ req[r].pc = "idle"
    /\ begun' = begun + 1 /\ Set(r, rec)
    /\ UNCHANGED <<row, tax, lock, edits>>

\* create: the coefficients first; the unique index refuses a second row.
CreateReads(r, s) == Begin(r, [pc |-> "create", sheet |-> s, tax |-> tax])
Create(r) ==
    /\ req[r].pc = "create"
    /\ LET s == req[r].sheet
           t == req[r].tax
       IN row' = IF Exists \/ ~Finite(s, t) THEN row
                 ELSE [status |-> "DRAFT", sheet |-> s, tax |-> t, amounts |-> ComputeAll(s, t)]
    /\ Done(r)
    /\ UNCHANGED <<tax, lock, begun, edits>>

\* assertPaidMutable, with the flag as the cache has it.
\* Mutant: an entry that is paid is edited like any other.
MutableAlways(status) == status \in {"DRAFT", "PAID"}
Mutable(status) == status = "DRAFT" \/ ~lock.cache

\* Each starts with the row as it is: an update merges the form into it.
Merge(s, form) == [k \in DOMAIN s |-> IF k \in DOMAIN form THEN form[k] ELSE s[k]]
UpdateReads(r, form) ==
    /\ Exists /\ Mutable(row.status)
    /\ Begin(r, [pc |-> "update", sheet |-> Merge(row.sheet, form), tax |-> tax,
                 saw |-> row.status, locked |-> lock.cache])

\* The whole sheet is written, with the amounts that follow from it.
\* Mutant: only the fields of the form are written beside the amounts.
UpdateForm(r) ==
    /\ req[r].pc = "update"
    /\ LET s == req[r].sheet
       IN IF ~Exists \/ ~Finite(s, req[r].tax) THEN UNCHANGED row
          ELSE row' = [row EXCEPT !.sheet.rate = s.rate, !.tax = req[r].tax,
                                  !.amounts = ComputeAll(s, req[r].tax)]
    /\ Done(r)
    /\ UNCHANGED <<tax, lock, begun, edits>>
Update(r) ==
    /\ req[r].pc = "update"
    /\ LET s == req[r].sheet
       IN IF ~Exists \/ ~Finite(s, req[r].tax) THEN UNCHANGED row
          ELSE row' = [row EXCEPT !.sheet = s, !.tax = req[r].tax,
                                  !.amounts = ComputeAll(s, req[r].tax)]
    /\ Done(r)
    /\ UNCHANGED <<tax, lock, begun, edits>>

\* markPaid of a paid row changes nothing, whatever the flag says; so does reopen
\* of a draft.  What the request saw of the amounts is kept for the properties.
StatusReads(r, to) ==
    /\ Exists /\ row.status # to
    /\ Begin(r, [pc |-> "status", to |-> to, amounts |-> row.amounts])
Status(r) ==
    /\ req[r].pc = "status"
    /\ row' = IF Exists THEN [row EXCEPT !.status = req[r].to] ELSE row
    /\ Done(r)
    /\ UNCHANGED <<tax, lock, begun, edits>>

RemoveReads(r) ==
    /\ Exists /\ Mutable(row.status)
    /\ Begin(r, [pc |-> "remove", saw |-> row.status, locked |-> lock.cache])
Remove(r) ==
    /\ req[r].pc = "remove"
    /\ row' = NoRow /\ Done(r)
    /\ UNCHANGED <<tax, lock, begun, edits>>

\* The settings page; a cache that was filled from an older read is put right
\* when its 60 s are over.
EditSettings ==
    /\ edits < MaxEdits /\ edits' = edits + 1
    /\ \/ tax' \in TaxPercents \ {tax} /\ UNCHANGED lock
       \/ \E c \in {lock.cache, ~lock.db} : lock' = [db |-> ~lock.db, cache |-> c]
          /\ UNCHANGED tax
    /\ UNCHANGED <<row, req, begun>>
CacheExpires ==
    /\ lock.cache # lock.db
    /\ lock' = [lock EXCEPT !.cache = lock.db]
    /\ UNCHANGED <<row, req, tax, begun, edits>>

Next ==
    \/ \E r \in Requests :
          \/ \E s \in Sheets : CreateReads(r, s)
          \/ \E f \in Forms : UpdateReads(r, f)
          \/ \E to \in {"PAID", "DRAFT"} : StatusReads(r, to)
          \/ RemoveReads(r)
          \/ Create(r) \/ Update(r) \/ Status(r) \/ Remove(r)
    \/ EditSettings \/ CacheExpires

Spec == Init /\ [][Next]_vars

-----------------------------------------------------------------------------
(* Properties.                                                             *)

\* Every variable keeps its type.
TypeOK ==
    /\ row.status \in {"none", "DRAFT", "PAID"}
    /\ Exists => /\ row.sheet.rateType \in {"HOURLY", "MONTHLY"}
                 /\ \A k \in DOMAIN row.amounts : row.amounts[k] \in Nat
    /\ \A r \in Requests : req[r].pc \in {"idle", "create", "update", "status", "remove"}
    /\ tax \in Nat /\ lock \in [db : BOOLEAN, cache : BOOLEAN]

\* The amounts of a row are those of its own inputs and of one set of
\* coefficients, however updates overlap and settings change.
AmountsFollow == Exists => row.amounts = ComputeAll(row.sheet, row.tax)

\* After Payoneer has taken its fee, of what is sent and 4 USD at least, the
\* employee has what was owed, to the cent.
EmployeeGetsWhatIsOwed ==
    Exists =>
        LET sent == row.amounts.remaining
            owed == Owed(row.sheet, row.tax)
            taken == Max({MinFee, Round(sent * row.sheet.feePct, Hundred)})
        IN IF owed = 0 THEN sent = 0 ELSE sent - taken \in owed - 1..owed + 1

\* The company pays what is sent and the advance, and no more; an advance
\* larger than what was earned is the one amount that costs does not show.
CostIsWhatLeaves ==
    Exists =>
        row.amounts.cost = row.amounts.remaining + Min({row.sheet.advance, row.amounts.accrued})

PayrollFigures ==
    /\ EmployeeGetsWhatIsOwed
    /\ CostIsWhatLeaves

\* A paid row keeps its amounts, and stays, while the lock is on: only a request
\* that saw the row as a draft, or the flag as off, gets through.
PaidStep ==
    row.status = "PAID" /\ (row'.status = "none" \/ row'.amounts # row.amounts)
        => \E r \in Requests :
              /\ req[r].pc \in {"update", "remove"}
              /\ req[r].saw = "DRAFT" \/ ~req[r].locked
PaidIsLocked == [][PaidStep]_vars
=============================================================================

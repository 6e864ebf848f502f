------------------------ MODULE MCOperations_proofs ------------------------
(***************************************************************************)
(* Proofs of what the operations promise.  A behaviour of MCOperations is  *)
(* one of a single component, so what the component's own specification    *)
(* promises holds of it.  What runs by itself is proved in Machines, the   *)
(* requests of people here.                                                *)
(***************************************************************************)
EXTENDS MCOperations, Sequences, FiniteSetTheorems, TLAPS

-----------------------------------------------------------------------------
(* A behaviour about a component is a behaviour of its specification.      *)

\* The behaviours about backup.
LEMMA BackupBehaviour == PartsSpec => Backup!Spec \/ [](~(part = "backup"))
<1>1. PartsInit => (part = "backup" => Backup!Init)
  BY DEF PartsInit
<1>2. [PartsNext]_allVars =>
          ((part = "backup")' <=> part = "backup") /\ (part = "backup" => [Backup!Next]_(Backup!vars))
  BY DEF PartsNext, allVars, slots, Backup!vars
<1> QED BY <1>1, <1>2, PTL DEF PartsSpec, Backup!Spec

\* The behaviours about reminders.
LEMMA RemindersBehaviour == PartsSpec => Reminders!Spec \/ [](~(part = "reminders"))
<1>1. PartsInit => (part = "reminders" => Reminders!Init)
  BY DEF PartsInit
<1>2. [PartsNext]_allVars =>
          ((part = "reminders")' <=> part = "reminders") /\ (part = "reminders" => [Reminders!Next]_(Reminders!vars))
  BY DEF PartsNext, allVars, slots, Reminders!vars
<1> QED BY <1>1, <1>2, PTL DEF PartsSpec, Reminders!Spec

\* The behaviours about phone.
LEMMA PhoneBehaviour == PartsSpec => Phone!Spec \/ [](~(part = "phone"))
<1>1. PartsInit => (part = "phone" => Phone!Init)
  BY DEF PartsInit
<1>2. [PartsNext]_allVars =>
          ((part = "phone")' <=> part = "phone") /\ (part = "phone" => [Phone!Next]_(Phone!vars))
  BY DEF PartsNext, allVars, slots, Phone!vars
<1> QED BY <1>1, <1>2, PTL DEF PartsSpec, Phone!Spec

\* The behaviours about deploy.
LEMMA DeployBehaviour == PartsSpec => Deploy!Spec \/ [](~(part = "deploy"))
<1>1. PartsInit => (part = "deploy" => Deploy!Init)
  BY DEF PartsInit
<1>2. [PartsNext]_allVars =>
          ((part = "deploy")' <=> part = "deploy") /\ (part = "deploy" => [Deploy!Next]_(Deploy!vars))
  BY DEF PartsNext, allVars, slots, Deploy!vars
<1> QED BY <1>1, <1>2, PTL DEF PartsSpec, Deploy!Spec

\* The behaviours about upload.
LEMMA UploadBehaviour == PartsSpec => Upload!Spec \/ [](~(part = "upload"))
<1>1. PartsInit => (part = "upload" => Upload!Init)
  BY DEF PartsInit
<1>2. [PartsNext]_allVars =>
          ((part = "upload")' <=> part = "upload") /\ (part = "upload" => [Upload!Next]_(Upload!vars))
  BY DEF PartsNext, allVars, slots, Upload!vars
<1> QED BY <1>1, <1>2, PTL DEF PartsSpec, Upload!Spec

\* The behaviours about payroll.
LEMMA PayrollBehaviour == PartsSpec => Payroll!Spec \/ [](~(part = "payroll"))
<1>1. PartsInit => (part = "payroll" => Payroll!Init)
  BY DEF PartsInit
<1>2. [PartsNext]_allVars =>
          ((part = "payroll")' <=> part = "payroll") /\ (part = "payroll" => [Payroll!Next]_(Payroll!vars))
  BY DEF PartsNext, allVars, slots, Payroll!vars
<1> QED BY <1>1, <1>2, PTL DEF PartsSpec, Payroll!Spec

\* The behaviours about invoices.
LEMMA InvoicesBehaviour == PartsSpec => Invoices!Spec \/ [](~(part = "invoices"))
<1>1. PartsInit => (part = "invoices" => Invoices!Init)
  BY DEF PartsInit
<1>2. [PartsNext]_allVars =>
          ((part = "invoices")' <=> part = "invoices") /\ (part = "invoices" => [Invoices!Next]_(Invoices!vars))
  BY DEF PartsNext, allVars, slots, Invoices!vars
<1> QED BY <1>1, <1>2, PTL DEF PartsSpec, Invoices!Spec

\* The behaviours about weekly.
LEMMA WeeklyBehaviour == PartsSpec => Weekly!Spec \/ [](~(part = "weekly"))
<1>1. PartsInit => (part = "weekly" => Weekly!Init)
  BY DEF PartsInit
<1>2. [PartsNext]_allVars =>
          ((part = "weekly")' <=> part = "weekly") /\ (part = "weekly" => [Weekly!Next]_(Weekly!vars))
  BY DEF PartsNext, allVars, slots, Weekly!vars
<1> QED BY <1>1, <1>2, PTL DEF PartsSpec, Weekly!Spec

\* The behaviours about absences.
LEMMA AbsencesBehaviour == PartsSpec => Absences!Spec \/ [](~(part = "absences"))
<1>1. PartsInit => (part = "absences" => Absences!Init)
  BY DEF PartsInit
<1>2. [PartsNext]_allVars =>
          ((part = "absences")' <=> part = "absences") /\ (part = "absences" => [Absences!Next]_(Absences!vars))
  BY DEF PartsNext, allVars, slots, Absences!vars
<1> QED BY <1>1, <1>2, PTL DEF PartsSpec, Absences!Spec

\* The behaviours about team.
LEMMA TeamBehaviour == PartsSpec => Team!Spec \/ [](~(part = "team"))
<1>1. PartsInit => (part = "team" => Team!Init)
  BY DEF PartsInit
<1>2. [PartsNext]_allVars =>
          ((part = "team")' <=> part = "team") /\ (part = "team" => [Team!Next]_(Team!vars))
  BY DEF PartsNext, allVars, slots, Team!vars
<1> QED BY <1>1, <1>2, PTL DEF PartsSpec, Team!Spec

\* The behaviours about salaries.
LEMMA SalariesBehaviour == PartsSpec => Salaries!Spec \/ [](~(part = "salaries"))
<1>1. PartsInit => (part = "salaries" => Salaries!Init)
  BY DEF PartsInit
<1>2. [PartsNext]_allVars =>
          ((part = "salaries")' <=> part = "salaries") /\ (part = "salaries" => [Salaries!Next]_(Salaries!vars))
  BY DEF PartsNext, allVars, slots, Salaries!vars
<1> QED BY <1>1, <1>2, PTL DEF PartsSpec, Salaries!Spec

-----------------------------------------------------------------------------
(* The amounts of the row.                                                 *)

PayrollEntry(status, sheet, t, amounts) ==
    [status |-> status, sheet |-> sheet, tax |-> t, amounts |-> amounts]

\* A row has the columns of an entry; its amounts are computed from them.
Computed ==
    Payroll!Exists => row = PayrollEntry(row.status, row.sheet, row.tax, Payroll!ComputeAll(row.sheet, row.tax))

\* Every step that writes a payroll writes the amounts of the inputs it writes.
LEMMA ComputedStep == Computed /\ [Payroll!Next]_(Payroll!vars) => Computed'
<1> SUFFICES ASSUME Computed, [Payroll!Next]_(Payroll!vars), Payroll!Exists'
             PROVE  row' = PayrollEntry(row'.status, row'.sheet, row'.tax, Payroll!ComputeAll(row'.sheet, row'.tax))
  BY DEF Computed
<1>1. CASE row' = row
  BY <1>1 DEF Computed, Payroll!Exists
<1>2. ASSUME NEW r \in Callers, Payroll!Create(r), row' # row
      PROVE  row' = PayrollEntry("DRAFT", req[r].sheet, req[r].tax, Payroll!ComputeAll(req[r].sheet, req[r].tax))
  BY <1>2 DEF Payroll!Create, PayrollEntry
<1>3. ASSUME NEW r \in Callers, Payroll!Update(r), row' # row
      PROVE  row' = PayrollEntry(row.status, req[r].sheet, req[r].tax, Payroll!ComputeAll(req[r].sheet, req[r].tax))
  <2>1. row = PayrollEntry(row.status, row.sheet, row.tax, Payroll!ComputeAll(row.sheet, row.tax))
    BY <1>3 DEF Payroll!Update, Computed
  <2>2. row' = [row EXCEPT !.sheet = req[r].sheet, !.tax = req[r].tax,
                           !.amounts = Payroll!ComputeAll(req[r].sheet, req[r].tax)]
    BY <1>3 DEF Payroll!Update
  <2> QED BY <2>1, <2>2 DEF PayrollEntry
<1>4. ASSUME NEW r \in Callers, Payroll!Status(r), row' # row
      PROVE  row' = PayrollEntry(req[r].to, row.sheet, row.tax, Payroll!ComputeAll(row.sheet, row.tax))
  <2>1. row = PayrollEntry(row.status, row.sheet, row.tax, Payroll!ComputeAll(row.sheet, row.tax))
    BY <1>4 DEF Payroll!Status, Computed
  <2>2. row' = [row EXCEPT !.status = req[r].to]
    BY <1>4 DEF Payroll!Status
  <2> QED BY <2>1, <2>2 DEF PayrollEntry
<1>5. ASSUME NEW r \in Callers, Payroll!Remove(r) PROVE FALSE
  BY <1>5 DEF Payroll!Remove, Payroll!NoRow, Payroll!Exists
<1>6. row' = row \/ \E r \in Callers : Payroll!Create(r) \/ Payroll!Update(r) \/ Payroll!Status(r) \/ Payroll!Remove(r)
  BY DEF Payroll!Next, Payroll!vars, Payroll!CreateReads, Payroll!UpdateReads, Payroll!StatusReads, Payroll!RemoveReads, Payroll!Begin, Payroll!EditSettings, Payroll!CacheExpires
<1>7. ASSUME NEW st, NEW sheet, NEW t,
             row' = PayrollEntry(st, sheet, t, Payroll!ComputeAll(sheet, t))
      PROVE  row' = PayrollEntry(row'.status, row'.sheet, row'.tax, Payroll!ComputeAll(row'.sheet, row'.tax))
  <2>1. row'.status = st /\ row'.sheet = sheet /\ row'.tax = t
    BY <1>7 DEF PayrollEntry
  <2> QED BY <1>7, <2>1
<1> QED BY <1>1, <1>2, <1>3, <1>4, <1>5, <1>6, <1>7

\* The amounts of an entry are those of its own inputs and of one set of
\* coefficients, whatever overlaps (update merges the form and recomputes all).
LEMMA AmountsBelong == Payroll!Spec => []Payroll!AmountsFollow
<1>1. Payroll!Init => Computed
  BY DEF Payroll!Init, Computed, Payroll!Exists, Payroll!NoRow
<1>2. Computed => Payroll!AmountsFollow
  BY DEF Computed, Payroll!AmountsFollow, Payroll!Exists, PayrollEntry
<1> QED BY <1>1, <1>2, ComputedStep, PTL DEF Payroll!Spec

-----------------------------------------------------------------------------
(* The lock of paid entries.                                               *)

\* What a request may say of itself once assertPaidMutable has let it through.
LetThrough(q) ==
    /\ q.pc \in {"update", "remove"} => q.saw = "DRAFT" \/ ~q.locked
    /\ q.pc = "status" => q.to # "none"

ReqInv == DOMAIN req = Callers /\ \A r \in Callers : LetThrough(req[r])

\* What a request read stays what the row said then.
LEMMA ReqStep == ReqInv /\ [Payroll!Next]_(Payroll!vars) => ReqInv'
<1> SUFFICES ASSUME ReqInv, [Payroll!Next]_(Payroll!vars) PROVE ReqInv'
  OBVIOUS
<1>1. LetThrough(Payroll!Idle)
  BY DEF LetThrough, Payroll!Idle
<1>2. ASSUME NEW r \in Callers, NEW rec, LetThrough(rec), Payroll!Set(r, rec) PROVE ReqInv'
  BY <1>2 DEF ReqInv, Payroll!Set
<1>3. ASSUME NEW r \in Callers, NEW s \in Sheets, Payroll!CreateReads(r, s) PROVE ReqInv'
  <2>1. LetThrough([pc |-> "create", sheet |-> s, tax |-> tax])
    BY DEF LetThrough
  <2> QED BY <1>2, <1>3, <2>1 DEF Payroll!CreateReads, Payroll!Begin
<1>4. ASSUME NEW r \in Callers, NEW f \in Payroll!Forms, Payroll!UpdateReads(r, f) PROVE ReqInv'
  <2> DEFINE rec == [pc |-> "update", sheet |-> Payroll!Merge(row.sheet, f), tax |-> tax,
                     saw |-> row.status, locked |-> lock.cache]
  <2>1. rec.pc = "update" /\ rec.saw = row.status /\ rec.locked = lock.cache
    OBVIOUS
  <2>2. row.status = "DRAFT" \/ ~lock.cache
    BY <1>4 DEF Payroll!UpdateReads, Payroll!Mutable
  <2>3. Payroll!Set(r, rec)
    BY <1>4 DEF Payroll!UpdateReads, Payroll!Begin
  <2> HIDE DEF rec
  <2>4. LetThrough(rec)
    BY <2>1, <2>2 DEF LetThrough
  <2> QED BY <1>2, <2>3, <2>4
<1>5. ASSUME NEW r \in Callers, NEW to \in {"PAID", "DRAFT"}, Payroll!StatusReads(r, to) PROVE ReqInv'
  <2>1. LetThrough([pc |-> "status", to |-> to, amounts |-> row.amounts])
    BY DEF LetThrough
  <2> QED BY <1>2, <1>5, <2>1 DEF Payroll!StatusReads, Payroll!Begin
<1>6. ASSUME NEW r \in Callers, Payroll!RemoveReads(r) PROVE ReqInv'
  <2> DEFINE rec == [pc |-> "remove", saw |-> row.status, locked |-> lock.cache]
  <2>1. rec.pc = "remove" /\ rec.saw = row.status /\ rec.locked = lock.cache
    OBVIOUS
  <2>2. row.status = "DRAFT" \/ ~lock.cache
    BY <1>6 DEF Payroll!RemoveReads, Payroll!Mutable
  <2>3. Payroll!Set(r, rec)
    BY <1>6 DEF Payroll!RemoveReads, Payroll!Begin
  <2> HIDE DEF rec
  <2>4. LetThrough(rec)
    BY <2>1, <2>2 DEF LetThrough
  <2> QED BY <1>2, <2>3, <2>4
<1>7. ASSUME NEW r \in Callers, Payroll!Create(r) \/ Payroll!Update(r) \/ Payroll!Status(r) \/ Payroll!Remove(r) PROVE ReqInv'
  BY <1>1, <1>2, <1>7 DEF Payroll!Create, Payroll!Update, Payroll!Status, Payroll!Remove, Payroll!Done
<1>8. CASE req' = req
  BY <1>8 DEF ReqInv
<1>9. CASE Payroll!EditSettings \/ Payroll!CacheExpires \/ Payroll!vars' = Payroll!vars
  BY <1>8, <1>9 DEF Payroll!EditSettings, Payroll!CacheExpires, Payroll!vars
<1> QED BY <1>3, <1>4, <1>5, <1>6, <1>7, <1>9 DEF Payroll!Next

\* A step changes a paid and locked payroll only by unlocking it.
LEMMA PaidStepHolds == ReqInv /\ Computed /\ [Payroll!Next]_(Payroll!vars) => [Payroll!PaidStep]_(Payroll!vars)
<1> SUFFICES ASSUME ReqInv, Computed, [Payroll!Next]_(Payroll!vars), row.status = "PAID",
                    row'.status = "none" \/ row'.amounts # row.amounts
             PROVE  \E r \in Callers : /\ req[r].pc \in {"update", "remove"}
                                       /\ req[r].saw = "DRAFT" \/ ~req[r].locked
  BY DEF Payroll!PaidStep
<1>1. \E r \in Callers : Payroll!Create(r) \/ Payroll!Update(r) \/ Payroll!Status(r) \/ Payroll!Remove(r)
  <2>1. row' # row
    OBVIOUS
  <2> QED BY <2>1 DEF Payroll!Next, Payroll!vars, Payroll!CreateReads, Payroll!UpdateReads, Payroll!StatusReads, Payroll!RemoveReads, Payroll!Begin, Payroll!EditSettings, Payroll!CacheExpires
<1>2. PICK r \in Callers : Payroll!Create(r) \/ Payroll!Update(r) \/ Payroll!Status(r) \/ Payroll!Remove(r)
  BY <1>1
<1>3. ASSUME Payroll!Create(r) PROVE FALSE
  BY <1>3 DEF Payroll!Create, Payroll!Exists
<1>4. ASSUME Payroll!Status(r) PROVE FALSE
  <2>1. row = PayrollEntry(row.status, row.sheet, row.tax, Payroll!ComputeAll(row.sheet, row.tax))
    BY DEF Payroll!Exists, Computed
  <2>2. row' = [row EXCEPT !.status = req[r].to]
    BY <1>4 DEF Payroll!Status, Payroll!Exists
  <2>3. row'.amounts = row.amounts /\ row'.status = req[r].to
    BY <2>1, <2>2 DEF PayrollEntry
  <2> QED BY <1>4, <2>3 DEF Payroll!Status, ReqInv, LetThrough
<1> QED BY <1>2, <1>3, <1>4 DEF Payroll!Update, Payroll!Remove, ReqInv, LetThrough

\* A paid entry keeps its amounts and stays while the lock is on: only a request
\* that found a draft, or the lock off, gets through (assertPaidMutable).
LEMMA PaidStays == Payroll!Spec => Payroll!PaidIsLocked
<1>1. Payroll!Init => ReqInv /\ Computed
  BY DEF Payroll!Init, ReqInv, LetThrough, Payroll!Idle, Computed, Payroll!Exists, Payroll!NoRow
<1> QED BY <1>1, ReqStep, ComputedStep, PaidStepHolds, PTL DEF Payroll!Spec, Payroll!PaidIsLocked

-----------------------------------------------------------------------------
(* The figures.                                                            *)

PayrollSheet ==
    [rateType : {"HOURLY", "MONTHLY"}, rate : Nat, hours : Nat, bonusPct : Nat, fixedBonus : Nat,
     advance : Nat, feePct : 0..Payroll!Hundred]
PayrollLimits == Sheets \subseteq PayrollSheet /\ TaxPercents \subseteq Nat

\* Inputs that a form may hold, and those that a row does: the database refuses an
\* infinite fee.
Asked(sheet, t) == sheet \in PayrollSheet /\ t \in Nat
Kept(sheet, t) == Asked(sheet, t) /\ Payroll!Finite(sheet, t)

\* What a request holds of its form, or of the status it sets.
Holds(q) ==
    /\ q.pc \in {"idle", "create", "update", "status", "remove"}
    /\ q.pc \in {"create", "update"} => Asked(q.sheet, q.tax)
    /\ q.pc = "status" => q.to \in {"PAID", "DRAFT"}

PayrollInv ==
    /\ row = Payroll!NoRow \/ \E st \in {"DRAFT", "PAID"}, sheet \in PayrollSheet, t \in Nat :
                                 row = PayrollEntry(st, sheet, t, Payroll!ComputeAll(sheet, t)) /\ Kept(sheet, t)
    /\ DOMAIN req = Callers /\ \A r \in Callers : Holds(req[r])
    /\ tax \in Nat /\ lock \in [db : BOOLEAN, cache : BOOLEAN]

\* Rounding is to the nearest, half up.
LEMMA Nearest ==
    ASSUME NEW a \in Nat, NEW b \in Nat \ {0}
    PROVE  Payroll!Round(a, b) \in Nat /\ 2 * b * Payroll!Round(a, b) <= 2 * a + b /\ 2 * a + b < 2 * b * Payroll!Round(a, b) + 2 * b
<1> DEFINE n == 2 * a + b
           d == 2 * b
<1>1. n \in Nat /\ d \in Nat \ {0}
  OBVIOUS
<1>2. ASSUME NEW x \in Nat, NEW y \in Nat \ {0}
      PROVE  x \div y \in Nat /\ y * (x \div y) <= x /\ x < y * (x \div y) + y
  OBVIOUS
<1>3. n \div d \in Nat /\ d * (n \div d) <= n /\ n < d * (n \div d) + d
  <2> HIDE DEF n, d
  <2> QED BY <1>1, <1>2
<1> QED BY <1>3 DEF Payroll!Round

LEMMA Times == ASSUME NEW a \in Nat, NEW b \in Nat PROVE a * b \in Nat
  OBVIOUS

\* The greater and the smaller of two amounts.
LEMMA OfTwo ==
    ASSUME NEW a \in Int, NEW b \in Int
    PROVE  /\ Payroll!Max({a, b}) = IF a >= b THEN a ELSE b
           /\ Payroll!Min({a, b}) = IF a <= b THEN a ELSE b
<1> DEFINE G(x) == x \in {a, b} /\ \A y \in {a, b} : x >= y
           L(x) == x \in {a, b} /\ \A y \in {a, b} : x =< y
<1>1. G(IF a >= b THEN a ELSE b) /\ L(IF a <= b THEN a ELSE b)
  OBVIOUS
<1>2. G(CHOOSE x : G(x)) /\ L(CHOOSE x : L(x))
  <2> HIDE DEF G, L
  <2> QED BY <1>1
<1>3. Payroll!Max({a, b}) = (CHOOSE x : G(x)) /\ Payroll!Min({a, b}) = (CHOOSE x : L(x))
  BY DEF Payroll!Max, Payroll!Min
<1> QED BY <1>2, <1>3

\* Every amount of an entry is a number of cents.
LEMMA AmountsAreNat ==
    ASSUME NEW s, NEW t, Kept(s, t)
    PROVE  /\ Payroll!Base(s) \in Nat /\ Payroll!Tax(s, t) \in Nat /\ Payroll!Bonus(s) \in Nat /\ Payroll!Accrued(s, t) \in Nat
           /\ Payroll!Owed(s, t) \in Nat /\ Payroll!Owed(s, t) = IF Payroll!Accrued(s, t) >= s.advance THEN Payroll!Accrued(s, t) - s.advance ELSE 0
           /\ Payroll!Fee(s, t) \in Nat
<1>1. /\ s.rate \in Nat /\ s.hours \in Nat /\ s.bonusPct \in Nat /\ s.fixedBonus \in Nat /\ s.advance \in Nat
      /\ s.feePct \in 0..10000 /\ t \in Nat /\ (s.feePct < 10000 \/ Payroll!Owed(s, t) = 0)
  BY DEF Kept, Asked, Payroll!Finite, PayrollSheet, Payroll!Hundred
<1>2. Payroll!Base(s) \in Nat
  <2>1. s.rate * s.hours \in Nat
    BY <1>1
  <2>2. Payroll!Round(s.rate * s.hours, 100) \in Nat
    BY <2>1, Nearest
  <2> QED BY <1>1, <2>2 DEF Payroll!Base
<1>3. Payroll!Tax(s, t) \in Nat
  <2>1. Payroll!FixedTax * Payroll!Hundred + Payroll!Base(s) * t \in Nat /\ Payroll!Hundred \in Nat \ {0}
    BY <1>1, <1>2 DEF Payroll!FixedTax, Payroll!Hundred
  <2>2. Payroll!Round(Payroll!FixedTax * Payroll!Hundred + Payroll!Base(s) * t, Payroll!Hundred) \in Nat
    BY <2>1, Nearest
  <2> QED BY <2>2 DEF Payroll!Tax
<1>4. Payroll!Bonus(s) \in Nat
  <2>1. Payroll!Base(s) * s.bonusPct + s.fixedBonus * Payroll!Hundred \in Nat /\ Payroll!Hundred \in Nat \ {0}
    BY <1>1, <1>2 DEF Payroll!Hundred
  <2> QED BY <2>1, Nearest DEF Payroll!Bonus
<1>5. Payroll!Accrued(s, t) \in Nat
  BY <1>2, <1>3, <1>4 DEF Payroll!Accrued
<1>6. Payroll!Owed(s, t) = IF Payroll!Accrued(s, t) >= s.advance THEN Payroll!Accrued(s, t) - s.advance ELSE 0
  <2>1. Payroll!Max({0, Payroll!Accrued(s, t) - s.advance}) = IF 0 >= Payroll!Accrued(s, t) - s.advance THEN 0 ELSE Payroll!Accrued(s, t) - s.advance
    BY <1>1, <1>5, OfTwo
  <2> QED BY <1>1, <1>5, <2>1 DEF Payroll!Owed
<1>7. Payroll!Owed(s, t) \in Nat
  BY <1>1, <1>5, <1>6
<1>8. Payroll!Fee(s, t) \in Nat
  <2>1. CASE Payroll!Owed(s, t) = 0
    BY <2>1 DEF Payroll!Fee
  <2>2. CASE Payroll!Owed(s, t) # 0
    <3> DEFINE q == Payroll!Round(Payroll!Owed(s, t) * s.feePct, Payroll!Hundred - s.feePct)
    <3>1. Payroll!Owed(s, t) * s.feePct \in Nat /\ Payroll!Hundred - s.feePct \in Nat \ {0}
      <4>1. PICK f \in 0..10000 : f = s.feePct
        BY <1>1
      <4>2. f < 10000
        BY <1>1, <2>2, <4>1
      <4>3. f \in Nat /\ 10000 - f \in Nat \ {0}
        BY <4>2
      <4>4. Payroll!Owed(s, t) * f \in Nat
        BY <1>7, <4>3, Times
      <4> QED BY <4>1, <4>3, <4>4 DEF Payroll!Hundred
    <3>2. q \in Nat
      BY <3>1, Nearest
    <3>3. Payroll!Fee(s, t) = Payroll!Max({400, q})
      BY <2>2 DEF Payroll!Fee, Payroll!MinFee
    <3> HIDE DEF q
    <3> QED BY <3>2, <3>3, OfTwo
  <2> QED BY <2>1, <2>2
<1> QED BY <1>2, <1>3, <1>4, <1>5, <1>6, <1>7, <1>8

\* The fee that is added to o, and the one that is taken of what is sent, for f hundredths
\* of a percent.
FeeOf(o, f) == Payroll!Max({400, Payroll!Round(o * f, 10000 - f)})
TakenOf(gross, f) == Payroll!Max({400, Payroll!Round(gross * f, 10000)})

\* Of what is sent Payoneer takes the fee that was added, to the cent.
LEMMA FeeComesBack ==
    ASSUME NEW o \in Nat \ {0}, NEW f \in Nat, f < Payroll!Hundred,
           NEW F \in Nat, F = FeeOf(o, f), NEW gross \in Nat, gross = o + F
    PROVE  TakenOf(gross, f) = F /\ gross - TakenOf(gross, f) = o
<1>1. f \in Nat /\ o \in Nat /\ f < 10000 /\ 10000 - f \in Nat \ {0}
  BY DEF Payroll!Hundred
<1>2. PICK q \in Nat : q = Payroll!Round(o * f, 10000 - f)
  <2> DEFINE b == 10000 - f
             a == o * f
  <2>1. a \in Nat /\ b \in Nat \ {0}
    BY <1>1, Times
  <2>2. Payroll!Round(a, b) \in Nat
    <3> HIDE DEF a, b
    <3> QED BY <2>1, Nearest
  <2> QED BY <2>2
<1>3. F = IF q <= 400 THEN 400 ELSE q
  <2>1. Payroll!Max({400, q}) = IF 400 >= q THEN 400 ELSE q
    BY OfTwo
  <2> QED BY <1>2, <2>1 DEF FeeOf
<1>4. PICK T \in Nat : T = Payroll!Round(gross * f, 10000)
  <2>1. PICK a \in Nat : a = gross * f
    BY <1>1, Times
  <2>2. Payroll!Hundred \in Nat \ {0}
    BY DEF Payroll!Hundred
  <2>3. Payroll!Round(a, Payroll!Hundred) \in Nat
    BY <2>2, Nearest, Zenon
  <2> QED BY <2>1, <2>3 DEF Payroll!Hundred
<1>5. TakenOf(gross, f) = IF T <= 400 THEN 400 ELSE T
  <2>1. Payroll!Max({400, T}) = IF 400 >= T THEN 400 ELSE T
    BY OfTwo
  <2> QED BY <1>4, <2>1 DEF TakenOf
<1>6. PICK p \in Nat : p = o * f
  BY <1>1, Times
<1>7. PICK g \in Nat : g = f * F
  BY <1>1, Times
<1>8. PICK h \in Nat : h = f * q
  BY <1>1, Times
<1>9. 20000 * q - 2 * h <= 2 * p + 10000 - f /\ 2 * p + 10000 - f < 20000 * q - 2 * h + 20000 - 2 * f
  <2> DEFINE b == 10000 - f
  <2>1. b \in Nat \ {0}
    BY <1>1
  <2>2. 2 * b * q <= 2 * p + b /\ 2 * p + b < 2 * b * q + 2 * b
    <3>1. q = Payroll!Round(p, b)
      BY <1>2, <1>6
    <3> HIDE DEF b
    <3> QED BY <2>1, <3>1, Nearest
  <2>3. 2 * b * q = 20000 * q - 2 * h
    BY <1>1, <1>8
  <2> QED BY <1>1, <2>2, <2>3
<1>10. 20000 * T <= 2 * p + 2 * g + 10000 /\ 2 * p + 2 * g + 10000 < 20000 * T + 20000
  <2>1. gross * f = p + g
    BY <1>1, <1>6, <1>7
  <2>2. T = Payroll!Round(p + g, 10000) /\ p + g \in Nat
    BY <1>4, <2>1
  <2>3. 2 * 10000 * T <= 2 * (p + g) + 10000 /\ 2 * (p + g) + 10000 < 2 * 10000 * T + 2 * 10000
    BY <2>2, Nearest, 10000 \in Nat \ {0}
  <2> QED BY <2>3
<1>11. ASSUME q <= 400 PROVE TakenOf(gross, f) = F
  <2>1. F = 400 /\ g = 400 * f
    BY <1>3, <1>7, <1>11
  <2>2. h <= 400 * f
    BY <1>8, <1>11
  <2>3. 20000 * q - 2 * h <= 8000000 - 800 * f
    <3>1. (10000 - f) * (400 - q) \in Nat
      <4> DEFINE u == 10000 - f
                 v == 400 - q
      <4>1. u \in Nat /\ v \in Nat
        BY <1>1, <1>11
      <4>2. u * v \in Nat
        <5> HIDE DEF u, v
        <5> QED BY <4>1, Times
      <4> QED BY <4>2
    <3>2. (10000 - f) * (400 - q) = 4000000 - 10000 * q - 400 * f + h
      BY <1>8
    <3> QED BY <3>1, <3>2
  <2>4. 2 * p + 10000 - f < 8020000 - 802 * f
    BY <1>9, <2>3
  <2>5. 20000 * T < 8020000
    BY <1>10, <2>1, <2>4
  <2>6. T <= 400
    BY <2>5
  <2> QED BY <1>5, <2>1, <2>6
<1>12. ASSUME q > 400 PROVE TakenOf(gross, f) = F
  <2>1. F = q /\ g = h
    BY <1>3, <1>7, <1>8, <1>12
  <2>2. 20000 * T < 20000 * q + 20000
    BY <1>1, <1>9, <1>10, <2>1
  <2>3. 20000 * q < 20000 * T + 20000
    BY <1>1, <1>9, <1>10, <2>1
  <2>4. T = q
    BY <2>2, <2>3
  <2> QED BY <1>5, <1>12, <2>1, <2>4
<1>13. TakenOf(gross, f) = F
  BY <1>11, <1>12
<1>14. gross - F = o
  OBVIOUS
<1> QED BY <1>13, <1>14, Zenon

\* The figures of an entry that is kept.
LEMMA FiguresKept ==
    ASSUME NEW s, NEW t, Kept(s, t)
    PROVE  /\ Payroll!Owed(s, t) = 0 => Payroll!ComputeAll(s, t).remaining = 0
           /\ Payroll!Owed(s, t) # 0 => Payroll!ComputeAll(s, t).remaining - TakenOf(Payroll!ComputeAll(s, t).remaining, s.feePct) = Payroll!Owed(s, t)
           /\ Payroll!ComputeAll(s, t).cost = Payroll!ComputeAll(s, t).remaining + Payroll!Min({s.advance, Payroll!ComputeAll(s, t).accrued})
<1>1. PICK o \in Nat : o = Payroll!Owed(s, t)
  BY AmountsAreNat
<1>2. PICK F \in Nat : F = Payroll!Fee(s, t)
  BY AmountsAreNat
<1>3. PICK A \in Nat : A = Payroll!Accrued(s, t)
  BY AmountsAreNat
<1>4. PICK adv \in Nat : adv = s.advance
  BY DEF Kept, Asked, PayrollSheet
<1>5. PICK f \in Nat : f = s.feePct
  <2>1. s.feePct \in 0..Payroll!Hundred
    BY DEF Kept, Asked, PayrollSheet
  <2>2. \A x \in 0..Payroll!Hundred : x \in Nat
    BY DEF Payroll!Hundred
  <2> QED BY <2>1, <2>2, Zenon
<1>6. o = IF A >= adv THEN A - adv ELSE 0
  BY <1>1, <1>3, <1>4, AmountsAreNat
<1>7. f < Payroll!Hundred \/ o = 0
  BY <1>1, <1>5, Zenon DEF Kept, Payroll!Finite
<1>8. o = 0 => F = 0
  BY <1>1, <1>2 DEF Payroll!Fee
<1>9. ASSUME o # 0 PROVE F = FeeOf(o, f)
  BY <1>1, <1>2, <1>5, <1>9 DEF Payroll!Fee, FeeOf, Payroll!MinFee, Payroll!Hundred
<1>10. PICK R \in Nat : R = Payroll!ComputeAll(s, t).remaining /\ R = o + F
  BY <1>1, <1>2 DEF Payroll!ComputeAll
<1>11. PICK C \in Nat : C = Payroll!ComputeAll(s, t).cost /\ C = A + F
  BY <1>2, <1>3 DEF Payroll!ComputeAll
<1>12. R = o + F /\ C = A + F /\ Payroll!ComputeAll(s, t).accrued = A
  BY <1>3, <1>10, <1>11 DEF Payroll!ComputeAll
<1>13. o = 0 => R = 0
  BY <1>8, <1>12
<1>14. ASSUME o # 0 PROVE R - TakenOf(R, f) = o
  <2>1. o \in Nat \ {0} /\ f < Payroll!Hundred
    BY <1>7, <1>14, Zenon
  <2> QED BY <1>9, <1>12, <1>14, <2>1, FeeComesBack, Zenon
<1>15. C = R + Payroll!Min({adv, A})
  <2>1. Payroll!Min({adv, A}) = IF adv <= A THEN adv ELSE A
    BY OfTwo
  <2>2. PICK m \in Nat : m = Payroll!Min({adv, A}) /\ m = IF adv <= A THEN adv ELSE A
    BY <2>1
  <2>3. A + F = o + F + m
    BY <1>6, <2>2
  <2> QED BY <1>12, <2>2, <2>3
<1>16. /\ o = Payroll!Owed(s, t) /\ R = Payroll!ComputeAll(s, t).remaining /\ C = Payroll!ComputeAll(s, t).cost
       /\ f = s.feePct /\ adv = s.advance /\ A = Payroll!ComputeAll(s, t).accrued
  BY <1>1, <1>4, <1>5, <1>10, <1>11, <1>12
<1>17. o # 0 => R - TakenOf(R, f) = o
  BY <1>14
<1>18. Payroll!Owed(s, t) = 0 => Payroll!ComputeAll(s, t).remaining = 0
  BY <1>13, <1>16, Zenon
<1>19. Payroll!Owed(s, t) # 0 => Payroll!ComputeAll(s, t).remaining - TakenOf(Payroll!ComputeAll(s, t).remaining, s.feePct) = Payroll!Owed(s, t)
  BY <1>17, <1>16, Zenon
<1>20. Payroll!ComputeAll(s, t).cost = Payroll!ComputeAll(s, t).remaining + Payroll!Min({s.advance, Payroll!ComputeAll(s, t).accrued})
  BY <1>15, <1>16, Zenon
<1> QED BY <1>18, <1>19, <1>20, Zenon

-----------------------------------------------------------------------------
(* What every payroll is, and what its requests hold.                      *)

LEMMA PayrollInit == Payroll!Init => PayrollInv
  BY DEF PayrollInv, Payroll!Init, Payroll!Idle, Holds

\* A form changes columns, and leaves a sheet.
LEMMA MergeIsSheet ==
    ASSUME NEW s \in PayrollSheet, NEW f \in Payroll!Forms PROVE Payroll!Merge(s, f) \in PayrollSheet
<1>1. CASE f = [rate |-> 200000]
  BY <1>1 DEF Payroll!Merge, PayrollSheet
<1>2. CASE f = [fixedBonus |-> 3000]
  BY <1>2 DEF Payroll!Merge, PayrollSheet
<1>3. CASE f = [feePct |-> 100]
  <2>1. 100 \in 0..Payroll!Hundred
    BY DEF Payroll!Hundred
  <2> QED BY <1>3, <2>1 DEF Payroll!Merge, PayrollSheet
<1>4. CASE f = [advance |-> 900000]
  BY <1>4 DEF Payroll!Merge, PayrollSheet
<1> QED BY <1>1, <1>2, <1>3, <1>4 DEF Payroll!Forms

LEMMA PayrollStep ==
    ASSUME PayrollLimits, PayrollInv, [Payroll!Next]_(Payroll!vars) PROVE PayrollInv'
<1> DEFINE RowKept ==
               row = Payroll!NoRow \/ \E st \in {"DRAFT", "PAID"}, sheet \in PayrollSheet, t \in Nat :
                         row = PayrollEntry(st, sheet, t, Payroll!ComputeAll(sheet, t)) /\ Kept(sheet, t)
           ReqsKept == DOMAIN req = Callers /\ \A r \in Callers : Holds(req[r])
           SetKept == tax \in Nat /\ lock \in [db : BOOLEAN, cache : BOOLEAN]
<1>1. RowKept /\ ReqsKept /\ SetKept
  BY DEF PayrollInv
<1>2. ASSUME NEW r \in Callers, NEW rec, Holds(rec), Payroll!Set(r, rec) PROVE ReqsKept'
  BY <1>1, <1>2 DEF Payroll!Set
<1>3. ASSUME NEW r \in Callers, Payroll!Done(r) PROVE ReqsKept'
  BY <1>2, <1>3 DEF Payroll!Done, Payroll!Idle, Holds
<1>4. ASSUME NEW r \in Callers, NEW rec, Holds(rec), Payroll!Begin(r, rec) PROVE PayrollInv'
  BY <1>1, <1>2, <1>4 DEF Payroll!Begin, PayrollInv
<1>5. ASSUME NEW r \in Callers, NEW s \in Sheets, Payroll!CreateReads(r, s) PROVE PayrollInv'
  <2>1. Holds([pc |-> "create", sheet |-> s, tax |-> tax])
    BY <1>1 DEF Holds, Asked, PayrollLimits
  <2> QED BY <1>4, <1>5, <2>1 DEF Payroll!CreateReads
<1>6. row.status # "none" => RowKept /\ row # Payroll!NoRow /\ row.sheet \in PayrollSheet
  BY <1>1 DEF Payroll!NoRow, PayrollEntry
<1>7. ASSUME NEW r \in Callers, NEW f \in Payroll!Forms, Payroll!UpdateReads(r, f) PROVE PayrollInv'
  <2>1. Payroll!Merge(row.sheet, f) \in PayrollSheet
    BY <1>6, <1>7, MergeIsSheet DEF Payroll!UpdateReads, Payroll!Exists
  <2>2. Holds([pc |-> "update", sheet |-> Payroll!Merge(row.sheet, f), tax |-> tax,
               saw |-> row.status, locked |-> lock.cache])
    BY <1>1, <2>1 DEF Holds, Asked
  <2> QED BY <1>4, <1>7, <2>2 DEF Payroll!UpdateReads
<1>8. ASSUME NEW r \in Callers, NEW to \in {"PAID", "DRAFT"}, Payroll!StatusReads(r, to) PROVE PayrollInv'
  <2>1. Holds([pc |-> "status", to |-> to, amounts |-> row.amounts])
    BY DEF Holds
  <2> QED BY <1>4, <1>8, <2>1 DEF Payroll!StatusReads
<1>9. ASSUME NEW r \in Callers, Payroll!RemoveReads(r) PROVE PayrollInv'
  <2>1. Holds([pc |-> "remove", saw |-> row.status, locked |-> lock.cache])
    BY DEF Holds
  <2> QED BY <1>4, <1>9, <2>1 DEF Payroll!RemoveReads
<1>10. ASSUME NEW r \in Callers, Payroll!Create(r) PROVE PayrollInv'
  <2>1. Asked(req[r].sheet, req[r].tax)
    BY <1>1, <1>10 DEF Payroll!Create, Holds
  <2>2. row' = row \/ (row' = PayrollEntry("DRAFT", req[r].sheet, req[r].tax, Payroll!ComputeAll(req[r].sheet, req[r].tax))
                       /\ Payroll!Finite(req[r].sheet, req[r].tax))
    BY <1>10 DEF Payroll!Create, PayrollEntry
  <2>3. RowKept'
    BY <1>1, <2>1, <2>2 DEF Kept, Asked
  <2> QED BY <1>1, <1>3, <1>10, <2>3 DEF Payroll!Create, PayrollInv
<1>11. ASSUME NEW r \in Callers, Payroll!Update(r) PROVE PayrollInv'
  <2>1. Asked(req[r].sheet, req[r].tax)
    BY <1>1, <1>11 DEF Payroll!Update, Holds
  <2>2. CASE row' = row
    BY <1>1, <1>3, <1>11, <2>2 DEF Payroll!Update, PayrollInv
  <2>3. CASE row' # row
    <3>1. /\ row # Payroll!NoRow /\ Payroll!Finite(req[r].sheet, req[r].tax)
          /\ row' = [row EXCEPT !.sheet = req[r].sheet, !.tax = req[r].tax,
                                !.amounts = Payroll!ComputeAll(req[r].sheet, req[r].tax)]
      BY <1>11, <2>3 DEF Payroll!Update, Payroll!Exists, Payroll!NoRow
    <3>2. PICK st \in {"DRAFT", "PAID"}, sheet \in PayrollSheet, t \in Nat :
                row = PayrollEntry(st, sheet, t, Payroll!ComputeAll(sheet, t))
      BY <1>1, <3>1
    <3>3. row' = PayrollEntry(st, req[r].sheet, req[r].tax, Payroll!ComputeAll(req[r].sheet, req[r].tax))
      BY <3>1, <3>2 DEF PayrollEntry
    <3>4. RowKept'
      BY <2>1, <3>1, <3>3 DEF Kept, Asked
    <3> QED BY <1>1, <1>3, <1>11, <3>4 DEF Payroll!Update, PayrollInv
  <2> QED BY <2>2, <2>3
<1>12. ASSUME NEW r \in Callers, Payroll!Status(r) PROVE PayrollInv'
  <2>1. req[r].to \in {"PAID", "DRAFT"}
    BY <1>1, <1>12 DEF Payroll!Status, Holds
  <2>2. CASE row' = row
    BY <1>1, <1>3, <1>12, <2>2 DEF Payroll!Status, PayrollInv
  <2>3. CASE row' # row
    <3>1. row # Payroll!NoRow /\ row' = [row EXCEPT !.status = req[r].to]
      BY <1>12, <2>3 DEF Payroll!Status, Payroll!Exists, Payroll!NoRow
    <3>2. PICK st \in {"DRAFT", "PAID"}, sheet \in PayrollSheet, t \in Nat :
                row = PayrollEntry(st, sheet, t, Payroll!ComputeAll(sheet, t)) /\ Kept(sheet, t)
      BY <1>1, <3>1
    <3>3. row' = PayrollEntry(req[r].to, sheet, t, Payroll!ComputeAll(sheet, t))
      BY <3>1, <3>2 DEF PayrollEntry
    <3>4. RowKept'
      BY <2>1, <3>2, <3>3
    <3> QED BY <1>1, <1>3, <1>12, <3>4 DEF Payroll!Status, PayrollInv
  <2> QED BY <2>2, <2>3
<1>13. ASSUME NEW r \in Callers, Payroll!Remove(r) PROVE PayrollInv'
  BY <1>1, <1>3, <1>13 DEF Payroll!Remove, PayrollInv
<1>14. ASSUME Payroll!EditSettings PROVE PayrollInv'
  <2>1. ASSUME tax' \in TaxPercents \ {tax}, UNCHANGED lock PROVE SetKept'
    BY <1>1, <2>1 DEF PayrollLimits
  <2>2. ASSUME NEW k \in {lock.cache, ~lock.db}, lock' = [db |-> ~lock.db, cache |-> k], UNCHANGED tax PROVE SetKept'
    <3>2. PICK d \in BOOLEAN, e \in BOOLEAN : lock' = [db |-> d, cache |-> e]
      <4>1. lock.cache \in BOOLEAN /\ lock.db \in BOOLEAN /\ (~lock.db) \in BOOLEAN
        BY <1>1
      <4>2. k \in BOOLEAN
        BY <2>2, <4>1, Zenon
      <4> QED BY <2>2, <4>1, <4>2, Zenon
    <3> QED BY <1>1, <2>2, <3>2
  <2>3. SetKept'
    BY <1>14, <2>1, <2>2 DEF Payroll!EditSettings
  <2> QED BY <1>1, <1>14, <2>3 DEF Payroll!EditSettings, PayrollInv
<1>15. ASSUME Payroll!CacheExpires PROVE PayrollInv'
  <2>1. SetKept'
    BY <1>1, <1>15 DEF Payroll!CacheExpires
  <2> QED BY <1>1, <1>15, <2>1 DEF Payroll!CacheExpires, PayrollInv
<1>16. CASE UNCHANGED Payroll!vars
  BY <1>1, <1>16 DEF Payroll!vars, PayrollInv
<1> QED BY <1>5, <1>7, <1>8, <1>9, <1>10, <1>11, <1>12, <1>13, <1>14, <1>15, <1>16 DEF Payroll!Next

\* A payroll that is kept has the figures of its inputs.
LEMMA FiguresFollow == PayrollInv => Payroll!PayrollFigures
<1> SUFFICES ASSUME PayrollInv, Payroll!Exists PROVE Payroll!PayrollFigures
  BY DEF Payroll!PayrollFigures, Payroll!EmployeeGetsWhatIsOwed, Payroll!CostIsWhatLeaves
<1>1. PICK st \in {"DRAFT", "PAID"}, sheet \in PayrollSheet, t \in Nat :
            row = PayrollEntry(st, sheet, t, Payroll!ComputeAll(sheet, t)) /\ Kept(sheet, t)
  BY DEF PayrollInv, Payroll!Exists, Payroll!NoRow
<1>2. row.sheet = sheet /\ row.tax = t /\ row.amounts = Payroll!ComputeAll(sheet, t)
  BY <1>1 DEF PayrollEntry
<1>3. Payroll!CostIsWhatLeaves
  <2>1. Payroll!ComputeAll(sheet, t).cost = Payroll!ComputeAll(sheet, t).remaining + Payroll!Min({sheet.advance, Payroll!ComputeAll(sheet, t).accrued})
    BY <1>1, FiguresKept, Zenon
  <2> QED BY <1>2, <2>1, Zenon DEF Payroll!CostIsWhatLeaves
<1>4. PICK o \in Nat : o = Payroll!Owed(sheet, t)
  BY <1>1, AmountsAreNat
<1>5. o \in o - 1..o + 1
  BY <1>4
<1>6. TakenOf(row.amounts.remaining, row.sheet.feePct)
      = Payroll!Max({Payroll!MinFee, Payroll!Round(row.amounts.remaining * row.sheet.feePct, Payroll!Hundred)})
  BY DEF TakenOf, Payroll!MinFee, Payroll!Hundred
<1>7. CASE o = 0
  <2>1. Payroll!Owed(row.sheet, row.tax) = 0 /\ row.amounts.remaining = 0
    <3>1. Payroll!Owed(sheet, t) = 0
      BY <1>4, <1>7
    <3>2. Payroll!ComputeAll(sheet, t).remaining = 0
      BY <1>1, <3>1, FiguresKept, Zenon
    <3> QED BY <1>2, <3>1, <3>2, Zenon
  <2>2. Payroll!EmployeeGetsWhatIsOwed
    BY <2>1, Zenon DEF Payroll!EmployeeGetsWhatIsOwed
  <2> QED BY <1>3, <2>2 DEF Payroll!PayrollFigures
<1>8. CASE o # 0
  <2>1. row.amounts.remaining - TakenOf(row.amounts.remaining, row.sheet.feePct) = o
    BY <1>1, <1>2, <1>4, <1>8, FiguresKept, Zenon
  <2>2. Payroll!Owed(row.sheet, row.tax) = o
    BY <1>2, <1>4, Zenon
  <2>3. Payroll!EmployeeGetsWhatIsOwed
    BY <1>5, <1>6, <1>8, <2>1, <2>2, Zenon DEF Payroll!EmployeeGetsWhatIsOwed
  <2> QED BY <1>3, <2>3 DEF Payroll!PayrollFigures
<1> QED BY <1>7, <1>8

LEMMA PayrollTyped == PayrollInv => Payroll!TypeOK
<1> SUFFICES ASSUME PayrollInv PROVE Payroll!TypeOK
  OBVIOUS
<1>1. ASSUME Payroll!Exists
      PROVE  /\ row.status \in {"DRAFT", "PAID"} /\ row.sheet.rateType \in {"HOURLY", "MONTHLY"}
             /\ \A k \in DOMAIN row.amounts : row.amounts[k] \in Nat
  <2>1. PICK st \in {"DRAFT", "PAID"}, sheet \in PayrollSheet, t \in Nat :
              row = PayrollEntry(st, sheet, t, Payroll!ComputeAll(sheet, t)) /\ Kept(sheet, t)
    BY <1>1 DEF PayrollInv, Payroll!Exists, Payroll!NoRow
  <2>2. row.status = st /\ row.sheet = sheet /\ row.amounts = Payroll!ComputeAll(sheet, t)
    BY <2>1 DEF PayrollEntry
  <2>3. PICK a \in Nat, b \in Nat, c \in Nat, d \in Nat, e \in Nat, f \in Nat :
              Payroll!ComputeAll(sheet, t) = [base |-> a, tax |-> b, bonus |-> c, accrued |-> d,
                                      fee |-> e, remaining |-> f + e, cost |-> d + e]
    BY <2>1, AmountsAreNat DEF Payroll!ComputeAll
  <2>4. f + e \in Nat /\ d + e \in Nat
    OBVIOUS
  <2>5. \A k \in DOMAIN Payroll!ComputeAll(sheet, t) : Payroll!ComputeAll(sheet, t)[k] \in Nat
    BY <2>3, <2>4
  <2> QED BY <2>2, <2>5 DEF PayrollSheet
<1>2. row.status \in {"none", "DRAFT", "PAID"}
  BY <1>1 DEF Payroll!Exists
<1> QED BY <1>1, <1>2 DEF Payroll!TypeOK, PayrollInv, Holds

InvoiceLimits == InvoiceRequests \in Nat /\ MaxFaults \in Nat

Generating == {"service", "replace", "upload", "record"}
Removing == {"remove", "drop"}
InvoiceForm ==
    [pc : {"items", "write"}, status : {"same", "draft", "open", "paid"},
     form : 0..InvoiceRequests, old : SUBSET (1..InvoiceRequests)]
InvoiceWork == [pc : Generating, file : Invoices!Names] \union [pc : Removing, file : {0} \union Invoices!Names]

InvoiceTyped ==
    /\ row \in [status : {"none", "draft", "open", "paid"}, pdf : {0} \union Invoices!Names]
    /\ row.status = "none" => row.pdf = 0
    /\ items \subseteq 1..InvoiceRequests /\ name \in Invoices!Names /\ objects \subseteq Invoices!Names
    /\ begun \in 0..InvoiceRequests /\ faults \in Nat /\ overlap \in BOOLEAN /\ crossed \in BOOLEAN
    /\ req \in [Callers -> {Invoices!Idle} \union InvoiceForm \union InvoiceWork]
    /\ begun = 0 => \A r \in Callers : req[r] = Invoices!Idle

\* The check of a form that makes the invoice paid stays true while the invoice is there.
PaidInv ==
    /\ row.status = "paid" => row.pdf # 0
    /\ \A r \in Callers : req[r].pc \in {"items", "write"} /\ req[r].status = "paid" /\ Invoices!Exists => row.pdf # 0

\* One form at a time is between its deletion and its items, and has deleted all there are.
ItemsInv ==
    ~overlap =>
        /\ \A x, y \in items : x = y
        /\ \A r \in Callers : req[r].pc = "write" /\ req[r].form # 0 =>
              /\ items \subseteq req[r].old
              /\ \A q \in Callers : req[q].pc = "write" /\ req[q].form # 0 => q = r

\* No call failed, and no removal overlapped the making of a PDF.
Smooth == faults = 0 /\ ~crossed
Stored(f) == f \in objects \/ \E r \in Callers : req[r].pc = "drop" \/ (req[r].pc = "upload" /\ req[r].file = f)
Apart ==
    Smooth => \A q \in Callers : req[q].pc \in Generating =>
                  Invoices!Exists /\ \A r \in Callers : req[r].pc \notin Removing
StoredInv ==
    Smooth => /\ row.pdf # 0 => Stored(row.pdf)
              /\ \A q \in Callers : req[q].pc = "record" => Stored(req[q].file)
NamedInv ==
    Smooth /\ name = 1 =>
        /\ row.pdf \in {0, 1} /\ objects \subseteq {1}
        /\ \A q \in Callers :
              /\ req[q].pc \in Generating => req[q].file = 1
              /\ req[q].pc = "remove" => objects \subseteq {req[q].file}
              /\ req[q].pc = "drop" => objects = {}
        /\ objects \subseteq {row.pdf} \/ \E r \in Callers : req[r].pc \in {"record", "replace", "upload"}

InvoiceInv == InvoiceTyped /\ PaidInv /\ ItemsInv /\ Apart /\ StoredInv /\ NamedInv

\* No invoice, no file and no request under way: the invariant holds at the start.
LEMMA InvoiceInit == ASSUME InvoiceLimits PROVE Invoices!Init => InvoiceInv
<1> SUFFICES ASSUME Invoices!Init PROVE InvoiceInv
  OBVIOUS
<1>1. \A r \in Callers : req[r] = Invoices!Idle /\ req[r].pc = "idle"
  BY DEF Invoices!Init, Invoices!Idle
<1>2. InvoiceTyped
  <2>1. req \in [Callers -> {Invoices!Idle} \union InvoiceForm \union InvoiceWork]
    BY DEF Invoices!Init
  <2>2. row \in [status : {"none", "draft", "open", "paid"}, pdf : {0} \union Invoices!Names] /\ row.pdf = 0
    BY DEF Invoices!Init, Invoices!NoRow
  <2>3. items \subseteq 1..InvoiceRequests /\ name \in Invoices!Names /\ objects \subseteq Invoices!Names
    BY DEF Invoices!Init, Invoices!Names
  <2>4. begun \in 0..InvoiceRequests /\ faults \in Nat
    BY DEF Invoices!Init, InvoiceLimits
  <2>5. overlap \in BOOLEAN /\ crossed \in BOOLEAN
    BY DEF Invoices!Init
  <2> QED BY <1>1, <2>1, <2>2, <2>3, <2>4, <2>5 DEF InvoiceTyped
<1>3. PaidInv /\ ItemsInv
  BY <1>1 DEF Invoices!Init, PaidInv, ItemsInv, Invoices!NoRow
<1>4. Apart /\ StoredInv /\ NamedInv
  BY <1>1 DEF Invoices!Init, Apart, StoredInv, NamedInv, Invoices!NoRow, Generating
<1> QED BY <1>2, <1>3, <1>4 DEF InvoiceInv

\* A request goes on alone.
LEMMA InvoiceGoto ==
    ASSUME InvoiceTyped, NEW r \in Callers, NEW rec, Invoices!Goto(r, rec)
    PROVE  \A q \in Callers : req'[q] = IF q = r THEN rec ELSE req[q]
BY DEF InvoiceTyped, Invoices!Goto

\* The types of invoices, files and requests survive every step.
LEMMA InvoiceTypes == ASSUME InvoiceLimits, InvoiceTyped, [Invoices!Next]_(Invoices!vars) PROVE InvoiceTyped'
<1> USE DEF InvoiceLimits, Invoices!Names
<1> SUFFICES ASSUME Invoices!Next PROVE InvoiceTyped'
  BY DEF Invoices!vars, InvoiceTyped
<1>1. CASE Invoices!Rename
  BY <1>1 DEF Invoices!Rename, InvoiceTyped
<1>2. ASSUME NEW r \in Callers, Invoices!Create(r) PROVE InvoiceTyped'
  BY <1>2 DEF Invoices!Create, Invoices!Begin, Invoices!Goto, InvoiceTyped
<1>3. ASSUME NEW r \in Callers, NEW s \in {"same", "draft", "open", "paid"}, NEW b \in BOOLEAN, Invoices!UpdateReads(r, s, b)
      PROVE  InvoiceTyped'
  <2>1. begun' \in 1..InvoiceRequests
    BY <1>3 DEF Invoices!UpdateReads, Invoices!Begin, InvoiceTyped
  <2>2. PICK p \in {"items", "write"}, n \in 0..InvoiceRequests :
            req' = [req EXCEPT ![r] = [pc |-> p, status |-> s, form |-> n, old |-> {}]]
    <3>1. (IF b THEN "items" ELSE "write") \in {"items", "write"} /\ (IF b THEN begun' ELSE 0) \in 0..InvoiceRequests
      BY <2>1
    <3> QED BY <1>3, <3>1 DEF Invoices!UpdateReads, Invoices!Begin, Invoices!Goto
  <2>3. [pc |-> p, status |-> s, form |-> n, old |-> {}] \in InvoiceForm
    BY DEF InvoiceForm
  <2>4. UNCHANGED <<row, items, name, objects, faults, overlap, crossed>>
    BY <1>3 DEF Invoices!UpdateReads
  <2> QED BY <2>1, <2>2, <2>3, <2>4 DEF InvoiceTyped
<1>4. ASSUME NEW r \in Callers, Invoices!DeleteItems(r) PROVE InvoiceTyped'
  <2> DEFINE f == [req[r] EXCEPT !.pc = "write", !.old = items]
  <2>1. req[r] \in InvoiceForm /\ items \in SUBSET (1..InvoiceRequests)
    BY <1>4 DEF Invoices!DeleteItems, InvoiceTyped, Invoices!Idle, InvoiceWork, Generating, Removing
  <2>3. f \in InvoiceForm
    BY <2>1 DEF InvoiceForm
  <2>2. /\ req' = [req EXCEPT ![r] = f] /\ overlap' \in BOOLEAN
        /\ UNCHANGED <<row, items, name, objects, begun, faults, crossed>> /\ req[r] # Invoices!Idle
    BY <1>4 DEF Invoices!DeleteItems, Invoices!Goto, Invoices!Idle, InvoiceTyped
  <2> HIDE DEF f
  <2> QED BY <2>2, <2>3 DEF InvoiceTyped
<1>5. ASSUME NEW r \in Callers, Invoices!WriteForm(r) PROVE InvoiceTyped'
  <2>1. req[r] \in InvoiceForm
    BY <1>5 DEF Invoices!WriteForm, InvoiceTyped, Invoices!Idle, InvoiceWork, Generating, Removing
  <2> QED BY <1>5, <2>1 DEF Invoices!WriteForm, Invoices!Goto, Invoices!Fault, Invoices!NewItems, InvoiceTyped, InvoiceForm, Invoices!Exists
<1>6. ASSUME NEW r \in Callers, Invoices!GenerateReads(r) PROVE InvoiceTyped'
  BY <1>6 DEF Invoices!GenerateReads, Invoices!Begin, Invoices!Goto, InvoiceTyped, InvoiceWork, Generating
<1>7. ASSUME NEW r \in Callers, Invoices!ServiceAnswers(r) \/ Invoices!ReplaceDeletes(r) \/ Invoices!ReplaceUploads(r) \/ Invoices!Record(r)
      PROVE  InvoiceTyped'
  <2>1. req[r] \in [pc : Generating, file : Invoices!Names] /\ req[r] # Invoices!Idle
    BY <1>7 DEF Invoices!ServiceAnswers, Invoices!ReplaceDeletes, Invoices!ReplaceUploads, Invoices!Record, InvoiceTyped, Invoices!Idle, InvoiceForm, InvoiceWork, Generating, Removing
  <2>2. CASE Invoices!ServiceAnswers(r)
    <3>1. [req[r] EXCEPT !.pc = "replace"] \in InvoiceWork
      BY <2>1 DEF InvoiceWork, Generating
    <3> QED BY <2>1, <2>2, <3>1 DEF Invoices!ServiceAnswers, Invoices!Goto, Invoices!Fault, InvoiceTyped
  <2>3. CASE Invoices!ReplaceDeletes(r)
    <3>1. [req[r] EXCEPT !.pc = "upload"] \in InvoiceWork
      BY <2>1 DEF InvoiceWork, Generating
    <3> QED BY <2>1, <2>3, <3>1 DEF Invoices!ReplaceDeletes, Invoices!Goto, Invoices!Fault, InvoiceTyped
  <2>4. CASE Invoices!ReplaceUploads(r)
    <3>1. [req[r] EXCEPT !.pc = "record"] \in InvoiceWork
      BY <2>1 DEF InvoiceWork, Generating
    <3>2. req[r].file \in Invoices!Names
      BY <2>1
    <3> QED BY <2>1, <2>4, <3>1, <3>2 DEF Invoices!ReplaceUploads, Invoices!Goto, Invoices!Fault, InvoiceTyped
  <2>5. CASE Invoices!Record(r)
    <3>2. req[r].file \in Invoices!Names
      BY <2>1
    <3> QED BY <2>1, <2>5, <3>2 DEF Invoices!Record, Invoices!Goto, Invoices!Fault, InvoiceTyped
  <2> QED BY <1>7, <2>2, <2>3, <2>4, <2>5
<1>8. ASSUME NEW r \in Callers, Invoices!RemoveReads(r) PROVE InvoiceTyped'
  BY <1>8 DEF Invoices!RemoveReads, Invoices!Begin, Invoices!Goto, InvoiceTyped, InvoiceWork, Removing
<1>9. ASSUME NEW r \in Callers, Invoices!RemoveFile(r) \/ Invoices!RemoveRow(r) PROVE InvoiceTyped'
  <2>1. req[r] \in [pc : Removing, file : {0} \union Invoices!Names] /\ req[r] # Invoices!Idle
    BY <1>9 DEF Invoices!RemoveFile, Invoices!RemoveRow, InvoiceTyped, Invoices!Idle, InvoiceForm, InvoiceWork, Generating, Removing
  <2>2. [req[r] EXCEPT !.pc = "drop"] \in InvoiceWork
    BY <2>1 DEF InvoiceWork, Removing
  <2>3. CASE Invoices!RemoveFile(r)
    BY <2>1, <2>2, <2>3 DEF Invoices!RemoveFile, Invoices!Goto, Invoices!Fault, InvoiceTyped
  <2>4. CASE Invoices!RemoveRow(r)
    <3>1. Invoices!NoRow \in [status : {"none", "draft", "open", "paid"}, pdf : {0} \union Invoices!Names] /\ Invoices!NoRow.pdf = 0
      BY DEF Invoices!NoRow
    <3>2. req' \in [Callers -> {Invoices!Idle} \union InvoiceForm \union InvoiceWork] /\ begun # 0
      BY <2>1, <2>4 DEF Invoices!RemoveRow, Invoices!Goto, InvoiceTyped
    <3>3. /\ row' \in [status : {"none", "draft", "open", "paid"}, pdf : {0} \union Invoices!Names]
          /\ row'.status = "none" => row'.pdf = 0
      BY <2>4, <3>1 DEF Invoices!RemoveRow, InvoiceTyped
    <3>4. items' \subseteq 1..InvoiceRequests /\ faults' \in Nat
      <4>1. items' = {} \/ items' = items
        BY <2>4 DEF Invoices!RemoveRow
      <4>2. faults' \in Nat
        BY <2>4 DEF Invoices!RemoveRow, Invoices!Fault, InvoiceTyped
      <4> QED BY <4>1, <4>2 DEF InvoiceTyped
    <3> QED BY <2>4, <3>2, <3>3, <3>4 DEF Invoices!RemoveRow, InvoiceTyped
  <2> QED BY <1>9, <2>3, <2>4
<1> QED BY <1>1, <1>2, <1>3, <1>4, <1>5, <1>6, <1>7, <1>8, <1>9 DEF Invoices!Next

\* What a step is: the request r goes on to a record, or the counterparty is renamed.
LEMMA PaidKept == ASSUME InvoiceLimits, InvoiceTyped, PaidInv, [Invoices!Next]_(Invoices!vars) PROVE PaidInv'
<1> USE DEF Invoices!Names
<1>1. CASE UNCHANGED Invoices!vars \/ Invoices!Rename
  BY <1>1 DEF Invoices!vars, Invoices!Rename, PaidInv, Invoices!Exists
<1>2. ASSUME NEW r \in Callers, Invoices!Create(r) PROVE PaidInv'
  BY <1>2 DEF Invoices!Create, Invoices!Begin, Invoices!Goto, InvoiceTyped, PaidInv, Invoices!Exists, Invoices!Idle
<1>3. ASSUME NEW r \in Callers, NEW s \in {"same", "draft", "open", "paid"}, NEW b \in BOOLEAN, Invoices!UpdateReads(r, s, b)
      PROVE  PaidInv'
  BY <1>3, InvoiceGoto DEF Invoices!UpdateReads, Invoices!MayBecome, Invoices!Begin, PaidInv, Invoices!Exists
<1>4. ASSUME NEW r \in Callers, Invoices!DeleteItems(r) PROVE PaidInv'
  <2>1. req[r] \in InvoiceForm
    BY <1>4 DEF Invoices!DeleteItems, InvoiceTyped, Invoices!Idle, InvoiceWork, Generating, Removing
  <2>2. [req[r] EXCEPT !.pc = "write", !.old = items].status = req[r].status
    BY <2>1 DEF InvoiceForm
  <2>3. \A q \in Callers : req'[q] = IF q = r THEN [req[r] EXCEPT !.pc = "write", !.old = items] ELSE req[q]
    BY <1>4, InvoiceGoto DEF Invoices!DeleteItems
  <2> QED BY <1>4, <2>2, <2>3 DEF Invoices!DeleteItems, PaidInv, Invoices!Exists
<1>5. ASSUME NEW r \in Callers, Invoices!WriteForm(r) PROVE PaidInv'
  <2>1. row'.pdf = row.pdf /\ (row'.status = "paid" => row.status = "paid" \/ (Invoices!Exists /\ req[r].status = "paid"))
        /\ (Invoices!Exists' <=> Invoices!Exists)
    <3>1. req[r] \in InvoiceForm
      BY <1>5 DEF Invoices!WriteForm, InvoiceTyped, Invoices!Idle, InvoiceWork, Generating, Removing
    <3> QED BY <1>5, <3>1 DEF Invoices!WriteForm, InvoiceTyped, InvoiceForm, Invoices!Exists
  <2> QED BY <1>5, <2>1, InvoiceGoto DEF Invoices!WriteForm, PaidInv, Invoices!Idle
<1>6. ASSUME NEW r \in Callers, Invoices!GenerateReads(r) \/ Invoices!RemoveReads(r) PROVE PaidInv'
  BY <1>6, InvoiceGoto DEF Invoices!GenerateReads, Invoices!RemoveReads, Invoices!Begin, PaidInv, Invoices!Exists
<1>7. ASSUME NEW r \in Callers, Invoices!ServiceAnswers(r) \/ Invoices!ReplaceDeletes(r) \/ Invoices!ReplaceUploads(r) \/ Invoices!Record(r) \/ Invoices!RemoveFile(r) \/ Invoices!RemoveRow(r)
      PROVE  PaidInv'
  <2>1. req[r] \in InvoiceWork
    BY <1>7 DEF Invoices!ServiceAnswers, Invoices!ReplaceDeletes, Invoices!ReplaceUploads, Invoices!Record, Invoices!RemoveFile, Invoices!RemoveRow, InvoiceTyped, Invoices!Idle, InvoiceForm
  <2>2. \A p \in {"replace", "upload", "record", "drop"} : [req[r] EXCEPT !.pc = p].pc = p
    BY <2>1 DEF InvoiceWork
  <2>3. \A q \in Callers : req'[q].pc \in {"items", "write"} => req'[q] = req[q]
    <3>1. PICK rec : Invoices!Goto(r, rec) /\ (rec = Invoices!Idle \/ \E p \in {"replace", "upload", "record", "drop"} : rec = [req[r] EXCEPT !.pc = p])
      BY <1>7 DEF Invoices!ServiceAnswers, Invoices!ReplaceDeletes, Invoices!ReplaceUploads, Invoices!Record, Invoices!RemoveFile, Invoices!RemoveRow
    <3>2. rec.pc \notin {"items", "write"}
      <4>1. CASE rec = Invoices!Idle
        BY <4>1 DEF Invoices!Idle
      <4>2. ASSUME NEW p \in {"replace", "upload", "record", "drop"}, rec = [req[r] EXCEPT !.pc = p] PROVE rec.pc = p
        BY <2>2, <4>2
      <4> QED BY <3>1, <4>1, <4>2
    <3> QED BY <3>1, <3>2, InvoiceGoto
  <2>4. /\ row' # row => row'.status \in {"none", "open"} /\ (Invoices!Exists' => row'.pdf # 0)
    <3>1. CASE Invoices!Record(r)
      <4>1. req[r].file # 0
        BY <3>1, <2>1 DEF Invoices!Record, InvoiceWork, Generating, Removing
      <4> QED BY <3>1, <4>1 DEF Invoices!Record
    <3>2. CASE Invoices!RemoveRow(r)
      BY <3>2 DEF Invoices!RemoveRow, Invoices!NoRow, Invoices!Exists
    <3> QED BY <1>7, <3>1, <3>2 DEF Invoices!ServiceAnswers, Invoices!ReplaceDeletes, Invoices!ReplaceUploads, Invoices!RemoveFile
  <2> QED BY <2>3, <2>4 DEF PaidInv, Invoices!Exists
<1> QED BY <1>1, <1>2, <1>3, <1>4, <1>5, <1>6, <1>7 DEF Invoices!Next

\* A replaced or created set of items is the one of a single form.
LEMMA ItemsKept == ASSUME InvoiceLimits, InvoiceTyped, ItemsInv, [Invoices!Next]_(Invoices!vars) PROVE ItemsInv'
<1>1. CASE UNCHANGED Invoices!vars \/ Invoices!Rename
  BY <1>1 DEF Invoices!vars, Invoices!Rename, ItemsInv
<1>2. ASSUME NEW r \in Callers, Invoices!Create(r) PROVE ItemsInv'
  BY <1>2 DEF Invoices!Create, Invoices!Begin, Invoices!Goto, InvoiceTyped, ItemsInv, Invoices!Idle
<1>3. ASSUME NEW r \in Callers, NEW s \in {"same", "draft", "open", "paid"}, NEW b \in BOOLEAN, Invoices!UpdateReads(r, s, b)
      PROVE  ItemsInv'
  BY <1>3, InvoiceGoto DEF Invoices!UpdateReads, Invoices!Begin, ItemsInv
<1>4. ASSUME NEW r \in Callers, Invoices!DeleteItems(r) PROVE ItemsInv'
  <2>1. req[r] \in InvoiceForm
    BY <1>4 DEF Invoices!DeleteItems, InvoiceTyped, Invoices!Idle, InvoiceWork, Generating, Removing
  <2> DEFINE f == [req[r] EXCEPT !.pc = "write", !.old = items]
  <2>2. f.old = items
    BY <2>1 DEF InvoiceForm
  <2>3. \A q \in Callers : req'[q] = IF q = r THEN f ELSE req[q]
    BY <1>4, InvoiceGoto DEF Invoices!DeleteItems
  <2> HIDE DEF f
  <2>4. UNCHANGED items /\ (~overlap' => ~overlap /\ \A q \in Callers \ {r} : ~(req[q].pc = "write" /\ req[q].form # 0))
    BY <1>4 DEF Invoices!DeleteItems
  <2> QED BY <2>2, <2>3, <2>4 DEF ItemsInv
<1>5. ASSUME NEW r \in Callers, Invoices!WriteForm(r) PROVE ItemsInv'
  <2>1. ~overlap => items' = items \/ (req[r].form # 0 /\ items' = {req[r].form})
    BY <1>5 DEF Invoices!WriteForm, Invoices!NewItems, ItemsInv
  <2>2. CASE items' = items
    BY <1>5, <2>2, InvoiceGoto DEF Invoices!WriteForm, ItemsInv, Invoices!Idle
  <2>3. CASE req[r].form # 0 /\ items' = {req[r].form}
    BY <1>5, <2>3, InvoiceGoto DEF Invoices!WriteForm, ItemsInv, Invoices!Idle
  <2> QED BY <1>5, <2>1, <2>2, <2>3 DEF Invoices!WriteForm, ItemsInv
<1>6. ASSUME NEW r \in Callers, Invoices!GenerateReads(r) \/ Invoices!RemoveReads(r) PROVE ItemsInv'
  BY <1>6, InvoiceGoto DEF Invoices!GenerateReads, Invoices!RemoveReads, Invoices!Begin, ItemsInv
<1>7. ASSUME NEW r \in Callers, Invoices!ServiceAnswers(r) \/ Invoices!ReplaceDeletes(r) \/ Invoices!ReplaceUploads(r) \/ Invoices!Record(r) \/ Invoices!RemoveFile(r) \/ Invoices!RemoveRow(r)
      PROVE  ItemsInv'
  <2>1. req[r] \in InvoiceWork
    BY <1>7 DEF Invoices!ServiceAnswers, Invoices!ReplaceDeletes, Invoices!ReplaceUploads, Invoices!Record, Invoices!RemoveFile, Invoices!RemoveRow, InvoiceTyped, Invoices!Idle, InvoiceForm
  <2>2. \A p \in {"replace", "upload", "record", "drop"} : [req[r] EXCEPT !.pc = p].pc = p
    BY <2>1 DEF InvoiceWork
  <2>3. \A q \in Callers : req'[q].pc \in {"items", "write"} => req'[q] = req[q]
    <3>1. PICK rec : Invoices!Goto(r, rec) /\ (rec = Invoices!Idle \/ \E p \in {"replace", "upload", "record", "drop"} : rec = [req[r] EXCEPT !.pc = p])
      BY <1>7 DEF Invoices!ServiceAnswers, Invoices!ReplaceDeletes, Invoices!ReplaceUploads, Invoices!Record, Invoices!RemoveFile, Invoices!RemoveRow
    <3>2. rec.pc \notin {"items", "write"}
      <4>1. CASE rec = Invoices!Idle
        BY <4>1 DEF Invoices!Idle
      <4>2. ASSUME NEW p \in {"replace", "upload", "record", "drop"}, rec = [req[r] EXCEPT !.pc = p] PROVE rec.pc = p
        BY <2>2, <4>2
      <4> QED BY <3>1, <4>1, <4>2
    <3> QED BY <3>1, <3>2, InvoiceGoto
  <2>4. (items' = items \/ items' = {}) /\ UNCHANGED overlap
    BY <1>7 DEF Invoices!ServiceAnswers, Invoices!ReplaceDeletes, Invoices!ReplaceUploads, Invoices!Record, Invoices!RemoveFile, Invoices!RemoveRow
  <2> QED BY <2>3, <2>4 DEF ItemsInv
<1> QED BY <1>1, <1>2, <1>3, <1>4, <1>5, <1>6, <1>7 DEF Invoices!Next

\* A file is written before the invoice names it, and no two invoices write under one name.
LEMMA FilesKept ==
    ASSUME InvoiceLimits, InvoiceTyped, Apart, StoredInv, NamedInv, [Invoices!Next]_(Invoices!vars)
    PROVE  Apart' /\ StoredInv' /\ NamedInv'
<1> DEFINE Files == Apart /\ StoredInv /\ NamedInv
<1> USE DEF Generating, Removing
<1>1. CASE UNCHANGED Invoices!vars \/ Invoices!Rename
  BY <1>1 DEF Invoices!vars, Invoices!Rename, Apart, StoredInv, NamedInv, Stored, Invoices!Exists, Smooth, Invoices!Names
<1>2. ASSUME NEW r \in Callers, Invoices!Create(r) PROVE Files'
  <2>1. /\ \A q \in Callers : req'[q] = Invoices!Idle /\ req[q] = Invoices!Idle
        /\ row'.pdf = 0 /\ row.pdf = 0 /\ UNCHANGED <<objects, name, faults, crossed>>
    BY <1>2, InvoiceGoto DEF Invoices!Create, Invoices!Begin, InvoiceTyped, Invoices!Exists
  <2> QED BY <2>1 DEF Apart, StoredInv, NamedInv, Smooth, Invoices!Idle
\* Forms leave the files alone.
<1>3. ASSUME NEW r \in Callers, req[r].pc \in {"idle", "items", "write"}, NEW rec, rec.pc \in {"idle", "items", "write"},
             Invoices!Goto(r, rec), row'.pdf = row.pdf, Invoices!Exists' <=> Invoices!Exists, UNCHANGED <<objects, name, crossed>>, faults' = 0 => faults = 0
      PROVE  Files'
  <2>1. \A q \in Callers : req'[q] = req[q] \/ {req'[q].pc, req[q].pc} \subseteq {"idle", "items", "write"}
    BY <1>3, InvoiceGoto
  <2>2. Smooth' => Smooth
    BY <1>3 DEF Smooth
  <2>3. \A f : Stored(f) => Stored(f)'
    BY <1>3, <2>1 DEF Stored
  <2>4. Apart'
    BY <1>3, <2>1, <2>2 DEF Apart
  <2>5. StoredInv'
    BY <1>3, <2>1, <2>2, <2>3 DEF StoredInv
  <2>6. NamedInv'
    BY <1>3, <2>1, <2>2 DEF NamedInv
  <2> QED BY <2>4, <2>5, <2>6
<1>4. ASSUME NEW r \in Callers, NEW s \in {"same", "draft", "open", "paid"}, NEW b \in BOOLEAN, Invoices!UpdateReads(r, s, b)
      PROVE  Files'
  BY <1>4, <1>3 DEF Invoices!UpdateReads, Invoices!Begin, Invoices!Exists
<1>5. ASSUME NEW r \in Callers, Invoices!DeleteItems(r) PROVE Files'
  <2>1. req[r] \in InvoiceForm
    BY <1>5 DEF Invoices!DeleteItems, InvoiceTyped, Invoices!Idle, InvoiceWork
  <2> DEFINE f == [req[r] EXCEPT !.pc = "write", !.old = items]
  <2>2. f.pc \in {"idle", "items", "write"}
    BY <2>1 DEF InvoiceForm
  <2>3. /\ req[r].pc \in {"idle", "items", "write"} /\ Invoices!Goto(r, f) /\ row'.pdf = row.pdf /\ (Invoices!Exists' <=> Invoices!Exists)
        /\ UNCHANGED <<objects, name, crossed>> /\ (faults' = 0 => faults = 0)
    BY <1>5 DEF Invoices!DeleteItems, Invoices!Exists
  <2> HIDE DEF f, Files
  <2> QED BY <1>3, <2>2, <2>3
<1>6. ASSUME NEW r \in Callers, Invoices!WriteForm(r) PROVE Files'
  <2>1. row'.pdf = row.pdf /\ (Invoices!Exists' <=> Invoices!Exists) /\ (faults' = 0 => faults = 0)
    <3>1. req[r] \in InvoiceForm
      BY <1>6 DEF Invoices!WriteForm, InvoiceTyped, Invoices!Idle, InvoiceWork
    <3> QED BY <1>6, <3>1 DEF Invoices!WriteForm, Invoices!Fault, InvoiceTyped, InvoiceForm, Invoices!Exists
  <2> QED BY <1>3, <1>6, <2>1 DEF Invoices!WriteForm, Invoices!Idle
<1>7. ASSUME NEW r \in Callers, Invoices!GenerateReads(r) PROVE Files'
  <2> DEFINE rec == [pc |-> "service", file |-> name]
  <2>1. /\ req[r].pc = "idle" /\ \A q \in Callers : req'[q] = IF q = r THEN rec ELSE req[q]
        /\ UNCHANGED <<row, objects, name, faults>> /\ Invoices!Exists
        /\ ~crossed' => ~crossed /\ \A q \in Callers : req[q].pc \notin Removing
    BY <1>7, InvoiceGoto DEF Invoices!GenerateReads, Invoices!Begin, Invoices!Others
  <2>2. Smooth' => Smooth
    BY <2>1 DEF Smooth
  <2>3. \A f : Stored(f) => Stored(f)'
    BY <2>1 DEF Stored
  <2>4. Apart'
    BY <2>1, <2>2 DEF Apart, Invoices!Exists, Smooth
  <2>5. StoredInv'
    BY <2>1, <2>2, <2>3 DEF StoredInv
  <2>6. NamedInv'
    BY <2>1, <2>2 DEF NamedInv
  <2> QED BY <2>4, <2>5, <2>6
<1>8. ASSUME NEW r \in Callers, Invoices!RemoveReads(r) PROVE Files'
  <2> DEFINE rec == [pc |-> "remove", file |-> row.pdf]
  <2>1. /\ req[r].pc = "idle" /\ \A q \in Callers : req'[q] = IF q = r THEN rec ELSE req[q]
        /\ UNCHANGED <<row, objects, name, faults>> /\ Invoices!Exists
        /\ ~crossed' => ~crossed /\ \A q \in Callers : req[q].pc \notin Generating
    BY <1>8, InvoiceGoto DEF Invoices!RemoveReads, Invoices!Begin, Invoices!Others
  <2>2. Smooth' => Smooth
    BY <2>1 DEF Smooth
  <2>3. \A f : Stored(f) => Stored(f)'
    BY <2>1 DEF Stored
  <2>4. Apart'
    BY <2>1, <2>2 DEF Apart, Invoices!Exists, Smooth
  <2>5. StoredInv'
    BY <2>1, <2>2, <2>3 DEF StoredInv
  <2>6. NamedInv'
    BY <2>1, <2>2 DEF NamedInv, Smooth
  <2> QED BY <2>4, <2>5, <2>6
<1>9. ASSUME NEW r \in Callers, Invoices!Fault, UNCHANGED <<row, objects, name>> \/ TRUE PROVE Files'
  BY <1>9 DEF Invoices!Fault, InvoiceTyped, Apart, StoredInv, NamedInv, Smooth
<1>10. ASSUME NEW r \in Callers, Invoices!ServiceAnswers(r), ~Invoices!Fault PROVE Files'
  <2> DEFINE rec == [req[r] EXCEPT !.pc = "replace"]
  <2>1. req[r].pc = "service" /\ req[r] \in InvoiceWork
    BY <1>10 DEF Invoices!ServiceAnswers, InvoiceTyped, Invoices!Idle, InvoiceForm
  <2>2. /\ \A q \in Callers : req'[q] = IF q = r THEN rec ELSE req[q]
        /\ rec.pc = "replace" /\ rec.file = req[r].file
    BY <1>10, <2>1, InvoiceGoto DEF Invoices!ServiceAnswers, InvoiceWork
  <2>3. UNCHANGED <<row, objects, name, faults, crossed>>
    BY <1>10 DEF Invoices!ServiceAnswers
  <2> HIDE DEF rec
  <2>4. \A f : Stored(f) => Stored(f)'
    BY <2>1, <2>2, <2>3 DEF Stored
  <2>5. Smooth' <=> Smooth
    BY <2>3 DEF Smooth
  <2>6. Apart'
    BY <2>1, <2>2, <2>3, <2>5 DEF Apart, Invoices!Exists
  <2>7. StoredInv'
    BY <2>1, <2>2, <2>3, <2>4, <2>5 DEF StoredInv
  <2>8. NamedInv'
    BY <2>1, <2>2, <2>3, <2>5 DEF NamedInv
  <2> QED BY <2>6, <2>7, <2>8
<1>11. ASSUME NEW r \in Callers, Invoices!ReplaceDeletes(r), ~Invoices!Fault PROVE Files'
  <2> DEFINE rec == [req[r] EXCEPT !.pc = "upload"]
  <2>1. req[r].pc = "replace" /\ req[r] \in InvoiceWork
    BY <1>11 DEF Invoices!ReplaceDeletes, InvoiceTyped, Invoices!Idle, InvoiceForm
  <2>2. /\ \A q \in Callers : req'[q] = IF q = r THEN rec ELSE req[q]
        /\ rec.pc = "upload" /\ rec.file = req[r].file
    BY <1>11, <2>1, InvoiceGoto DEF Invoices!ReplaceDeletes, InvoiceWork
  <2>3. UNCHANGED <<row, name, faults, crossed>> /\ objects' = objects \ {req[r].file}
    BY <1>11 DEF Invoices!ReplaceDeletes
  <2> HIDE DEF rec
  <2>4. \A f : Stored(f) => Stored(f)'
    BY <2>1, <2>2, <2>3 DEF Stored
  <2>5. Smooth' <=> Smooth
    BY <2>3 DEF Smooth
  <2>6. Apart'
    BY <2>1, <2>2, <2>3, <2>5 DEF Apart, Invoices!Exists
  <2>7. StoredInv'
    BY <2>1, <2>2, <2>3, <2>4, <2>5 DEF StoredInv
  <2>8. NamedInv'
    BY <2>1, <2>2, <2>3, <2>5 DEF NamedInv
  <2> QED BY <2>6, <2>7, <2>8
<1>12. ASSUME NEW r \in Callers, Invoices!ReplaceUploads(r), ~Invoices!Fault PROVE Files'
  <2> DEFINE rec == [req[r] EXCEPT !.pc = "record"]
  <2>1. req[r].pc = "upload" /\ req[r] \in InvoiceWork
    BY <1>12 DEF Invoices!ReplaceUploads, InvoiceTyped, Invoices!Idle, InvoiceForm
  <2>2. /\ \A q \in Callers : req'[q] = IF q = r THEN rec ELSE req[q]
        /\ rec.pc = "record" /\ rec.file = req[r].file
    BY <1>12, <2>1, InvoiceGoto DEF Invoices!ReplaceUploads, InvoiceWork
  <2>3. UNCHANGED <<row, name, faults, crossed>> /\ objects' = objects \union {req[r].file}
    BY <1>12 DEF Invoices!ReplaceUploads
  <2> HIDE DEF rec
  <2>4. \A f : Stored(f) \/ f = req[r].file => Stored(f)'
    BY <2>1, <2>2, <2>3 DEF Stored
  <2>5. Smooth' <=> Smooth
    BY <2>3 DEF Smooth
  <2>6. Apart'
    BY <2>1, <2>2, <2>3, <2>5 DEF Apart, Invoices!Exists
  <2>7. StoredInv'
    BY <2>1, <2>2, <2>3, <2>4, <2>5 DEF StoredInv
  <2>8. NamedInv'
    BY <2>1, <2>2, <2>3, <2>5 DEF NamedInv, Apart
  <2> QED BY <2>6, <2>7, <2>8
<1>13. ASSUME NEW r \in Callers, Invoices!Record(r), ~Invoices!Fault PROVE Files'
  <2>1. req[r].pc = "record"
    BY <1>13 DEF Invoices!Record
  <2>2. \A q \in Callers : req'[q] = IF q = r THEN Invoices!Idle ELSE req[q]
    BY <1>13, InvoiceGoto DEF Invoices!Record
  <2>3. /\ UNCHANGED <<name, objects, faults, crossed>>
        /\ row' = IF Invoices!Exists THEN [status |-> "open", pdf |-> req[r].file] ELSE row
    BY <1>13 DEF Invoices!Record
  <2>4. \A f : Stored(f) => Stored(f)'
    BY <2>1, <2>2, <2>3 DEF Stored, Invoices!Idle
  <2>5. Smooth' <=> Smooth
    BY <2>3 DEF Smooth
  <2>6. Apart'
    BY <2>1, <2>2, <2>3, <2>5 DEF Apart, Invoices!Exists, Invoices!Idle
  <2>7. StoredInv'
    BY <2>1, <2>2, <2>3, <2>4, <2>5 DEF StoredInv, Invoices!Idle
  <2>8. NamedInv'
    <3>1. Smooth => row'.pdf = req[r].file
      BY <2>1, <2>3 DEF Apart
    <3> QED BY <2>1, <2>2, <2>3, <2>5, <3>1 DEF NamedInv, Invoices!Idle
  <2> QED BY <2>6, <2>7, <2>8
<1>14. ASSUME NEW r \in Callers, Invoices!RemoveFile(r), ~Invoices!Fault PROVE Files'
  <2> DEFINE rec == [req[r] EXCEPT !.pc = "drop"]
  <2>1. req[r].pc = "remove" /\ req[r] \in InvoiceWork
    BY <1>14 DEF Invoices!RemoveFile, InvoiceTyped, Invoices!Idle, InvoiceForm
  <2>2. /\ \A q \in Callers : req'[q] = IF q = r THEN rec ELSE req[q]
        /\ rec.pc = "drop" /\ rec.file = req[r].file
    BY <1>14, <2>1, InvoiceGoto DEF Invoices!RemoveFile, InvoiceWork
  <2>3. UNCHANGED <<row, name, faults, crossed>> /\ objects' = objects \ {req[r].file}
    BY <1>14 DEF Invoices!RemoveFile
  <2> HIDE DEF rec
  <2>4. \A f : Stored(f)'
    BY <2>2, <2>3 DEF Stored
  <2>5. Smooth' <=> Smooth
    BY <2>3 DEF Smooth
  <2>6. Apart'
    BY <2>1, <2>2, <2>3, <2>5 DEF Apart, Invoices!Exists
  <2>7. StoredInv'
    BY <2>4 DEF StoredInv
  <2>8. NamedInv'
    BY <2>1, <2>2, <2>3, <2>5 DEF NamedInv
  <2> QED BY <2>6, <2>7, <2>8
<1>15. ASSUME NEW r \in Callers, Invoices!RemoveRow(r), ~Invoices!Fault PROVE Files'
  <2>1. req[r].pc = "drop"
    BY <1>15 DEF Invoices!RemoveRow
  <2>2. \A q \in Callers : req'[q] = IF q = r THEN Invoices!Idle ELSE req[q]
    BY <1>15, InvoiceGoto DEF Invoices!RemoveRow
  <2>3. UNCHANGED <<name, objects, faults, crossed>> /\ row' = Invoices!NoRow
    BY <1>15 DEF Invoices!RemoveRow
  <2>5. Smooth' <=> Smooth
    BY <2>3 DEF Smooth
  <2>9. Smooth => \A q \in Callers : req[q].pc \notin Generating
    BY <2>1 DEF Apart
  <2>6. Apart'
    BY <2>2, <2>5, <2>9 DEF Apart, Invoices!Idle
  <2>7. StoredInv'
    BY <2>2, <2>3, <2>5, <2>9 DEF StoredInv, Invoices!Idle, Invoices!NoRow
  <2>8. NamedInv'
    BY <2>1, <2>2, <2>3, <2>5, <2>9 DEF NamedInv, Invoices!Idle, Invoices!NoRow
  <2> QED BY <2>6, <2>7, <2>8
<1> HIDE DEF Files
<1>16. Files'
  BY <1>1, <1>2, <1>4, <1>5, <1>6, <1>7, <1>8, <1>9, <1>10, <1>11, <1>12, <1>13, <1>14, <1>15 DEF Invoices!Next, Files
<1> QED BY <1>16 DEF Files

\* The invariant is inductive.
LEMMA InvoiceStep == ASSUME InvoiceLimits, InvoiceInv, [Invoices!Next]_(Invoices!vars) PROVE InvoiceInv'
BY InvoiceTypes, PaidKept, ItemsKept, FilesKept DEF InvoiceInv

\* The invariant gives the property the run checks.
LEMMA InvoiceSoundness == ASSUME InvoiceLimits, InvoiceInv PROVE Invoices!InvoiceSound /\ Invoices!TypeOK
<1>1. Invoices!TypeOK
  BY DEF InvoiceInv, InvoiceTyped, Invoices!TypeOK, Invoices!Idle, InvoiceForm, InvoiceWork, Generating, Removing
<1>2. Invoices!PaidHasPdf
  BY DEF InvoiceInv, PaidInv, Invoices!PaidHasPdf
<1>3. Invoices!PdfIsStored
  BY DEF InvoiceInv, InvoiceTyped, StoredInv, Stored, Smooth, Invoices!PdfIsStored
<1>4. Invoices!FileIsNamed
  <2> SUFFICES ASSUME Smooth, name = 1 PROVE objects \ {row.pdf} = {} \/ \E r \in Callers : req[r].pc \in {"record", "replace", "upload"}
    BY DEF Invoices!FileIsNamed, InvoiceInv, InvoiceTyped, Smooth, Invoices!Names
  <2>1. objects \subseteq {row.pdf} \/ \E r \in Callers : req[r].pc \in {"record", "replace", "upload"}
    BY DEF InvoiceInv, NamedInv
  <2> QED BY <2>1
<1>5. Invoices!ItemsOfOneForm
  BY DEF InvoiceInv, ItemsInv, Invoices!ItemsOfOneForm
<1> QED BY <1>1, <1>2, <1>3, <1>4, <1>5 DEF Invoices!InvoiceSound

WeeklyLimits ==
    /\ Weeks \subseteq Int \X Int
    /\ LastWeekday \in Int /\ LastWeekday >= 20 /\ MaxRequests \in Nat

WeeklyDays == {Weekly!None} \union 20..LastWeekday
EntryRow == [status : WeekStatuses \union {"none"}, amount : 0..1, sent : WeeklyDays, received : WeeklyDays]
WeeklyForm == [pc : {"write"}, week : Weeks, status : WeekStatuses, given : SUBSET {"sent", "received"}]

WeeklyInv ==
    /\ today \in 20..LastWeekday /\ begun \in 0..MaxRequests
    /\ entry \in [Weeks -> EntryRow]
    /\ req \in [Callers -> {Weekly!Idle} \union WeeklyForm]

\* With no entry the invariant holds.
LEMMA WeeklyInit == ASSUME WeeklyLimits PROVE Weekly!Init => WeeklyInv
BY DEF WeeklyLimits, Weekly!Init, WeeklyInv, EntryRow, WeeklyDays, Weekly!NoEntry, Weekly!None, Weekly!Idle, WeeklyForm

\* The invariant is inductive.
LEMMA WeeklyStep == ASSUME WeeklyLimits, WeeklyInv, [Weekly!Next]_(Weekly!vars) PROVE WeeklyInv'
<1>1. CASE Weekly!Tomorrow
  BY <1>1 DEF Weekly!Tomorrow, WeeklyLimits, WeeklyInv
<1>2. ASSUME NEW w \in Weeks, Weekly!DeleteEntry(w) PROVE WeeklyInv'
  <2>1. Weekly!NoEntry \in EntryRow
    BY DEF Weekly!NoEntry, EntryRow, WeeklyDays
  <2> QED BY <1>2, <2>1 DEF Weekly!DeleteEntry, WeeklyInv
<1>3. ASSUME NEW r \in Callers, NEW w \in Weeks, NEW s \in WeekStatuses, NEW given \in SUBSET {"sent", "received"},
             Weekly!FormReads(r, w, s, given)
      PROVE  WeeklyInv'
  <2> DEFINE f == [pc |-> "write", week |-> w, status |-> s, given |-> given]
  <2>1. f \in WeeklyForm
    BY DEF WeeklyForm
  <2>2. UNCHANGED <<entry, today>> /\ req' = [req EXCEPT ![r] = f] /\ begun' \in 0..MaxRequests
    BY <1>3 DEF Weekly!FormReads, WeeklyInv, WeeklyLimits
  <2> HIDE DEF f
  <2> QED BY <2>1, <2>2 DEF WeeklyInv
<1>4. ASSUME NEW r \in Callers, Weekly!FormWrites(r) PROVE WeeklyInv'
  <2> DEFINE f == req[r]
             new == [status |-> f.status, amount |-> IF f.status = "no_work" THEN 0 ELSE 1,
                     sent |-> Weekly!Date(f, "sent"), received |-> Weekly!Date(f, "received")]
  <2>1. f \in WeeklyForm
    BY <1>4 DEF WeeklyInv, Weekly!FormWrites, Weekly!Idle
  <2>2. f.week \in Weeks /\ f.status \in WeekStatuses
    BY <2>1 DEF WeeklyForm
  <2>3. Weekly!Date(f, "sent") \in WeeklyDays /\ Weekly!Date(f, "received") \in WeeklyDays
    BY DEF WeeklyInv, WeeklyDays, Weekly!Date
  <2>4. new \in EntryRow
    BY <2>2, <2>3 DEF EntryRow
  <2>5. /\ entry' = [entry EXCEPT ![f.week] = new] /\ req' = [req EXCEPT ![r] = Weekly!Idle]
        /\ UNCHANGED <<today, begun>>
    BY <1>4 DEF Weekly!FormWrites
  <2> HIDE DEF new
  <2> QED BY <2>2, <2>4, <2>5 DEF WeeklyInv
<1>5. CASE UNCHANGED Weekly!vars
  BY <1>5 DEF Weekly!vars, WeeklyInv
<1> QED BY <1>1, <1>2, <1>3, <1>4, <1>5 DEF Weekly!Next

\* What the fiscal calendar says of a week is a number of days.
LEMMA CalendarNumbers ==
    ASSUME NEW y \in Int, NEW n \in Int
    PROVE  /\ Weekly!WeekStart(<<y, n>>) \in Int /\ Weekly!WeekEnd(<<y, n>>) \in Int
           /\ Weekly!YearStart(y) \in Int /\ Weekly!YearEnd(y) \in Int
BY DEF Weekly!WeekStart, Weekly!WeekEnd, Weekly!YearStart, Weekly!YearEnd, Weekly!Anchor

\* The invariant gives the property the run checks.
LEMMA WeeklySound == ASSUME WeeklyLimits, WeeklyInv PROVE Weekly!MoneySound /\ Weekly!TypeOK
<1>1. Weekly!TypeOK
  BY DEF WeeklyInv, Weekly!TypeOK, EntryRow, WeeklyDays, WeeklyForm, Weekly!Idle
<1>2. Weekly!MonthsAreComplete
  <2> SUFFICES ASSUME NEW w \in Weeks
               PROVE  /\ \A y \in Weekly!Years \ {w[1]} : w \notin Weekly!MonthEntries(y, Weekly!MonthOf(w[2]))
                      /\ Weekly!Money(w) /\ w \notin Weekly!MonthEntries(w[1], Weekly!MonthOf(w[2])) =>
                            Weekly!WeekStart(w) > Weekly!YearEnd(w[1]) \/ Weekly!WeekEnd(w) < Weekly!YearStart(w[1])
    BY DEF Weekly!MonthsAreComplete
  <2>1. w = <<w[1], w[2]>> /\ w[1] \in Int /\ w[2] \in Int
    BY DEF WeeklyLimits
  <2>2. Weekly!Money(w) /\ w \notin Weekly!YearEntries(w[1]) =>
            ~(Weekly!WeekStart(w) <= Weekly!YearEnd(w[1]) /\ Weekly!WeekEnd(w) >= Weekly!YearStart(w[1]))
    BY DEF Weekly!YearEntries
  <2> QED BY <2>1, <2>2, CalendarNumbers DEF Weekly!MonthEntries
<1>3. Weekly!CalendarSound
  <2>1. \A y \in Weekly!Years : Weekly!WeekEnd(<<y, 51>>) + 1 = Weekly!Anchor(y + 1)
    BY DEF Weekly!Years, Weekly!WeekEnd, Weekly!WeekStart, Weekly!Anchor
  <2>2. Weekly!FirstWeek(12) + 5 = 52 /\ \A i \in 1..11 : Weekly!FirstWeek(i + 1) - Weekly!FirstWeek(i) \in 4..5
    BY DEF Weekly!FirstWeek
  <2>3. ASSUME NEW ref \in 0..13, NEW n \in 1..7
        PROVE  LET day == Weekly!NextPayoutDay([type |-> "WEEKLY_ON_DOW", n |-> n], ref, 40, FALSE)
               IN day \in ref + 1..ref + 7 /\ Weekly!DayOfWeek(day) = n
    BY DEF Weekly!NextPayoutDay, Weekly!DayOfWeek
  <2> QED BY <2>1, <2>2, <2>3 DEF Weekly!CalendarSound
<1> QED BY <1>1, <1>2, <1>3 DEF Weekly!MoneySound

AbsencePolicy == [vacation : Nat, weekdays : SUBSET (0..6), negative : BOOLEAN]
AbsenceLimits == MaxRequests \in Nat /\ Ranges \subseteq Absences!Days \X Absences!Days /\ Policies \subseteq AbsencePolicy

AbsenceForm == [type : Absences!Types, start : Absences!Days, end : Absences!Days]
AbsenceRow ==
    [type : Absences!Types, start : Absences!Days, end : Absences!Days, days : 0..7, weekdays : SUBSET (0..6), blind : SUBSET Absences!Ids]
AbsenceCheck == [pc : {"allowance"}, id : Absences!Ids, form : AbsenceForm, new : BOOLEAN, blind : SUBSET Absences!Ids]
AbsenceWrite ==
    [pc : {"write"}, id : Absences!Ids, form : AbsenceForm, new : BOOLEAN, blind : SUBSET Absences!Ids, weekdays : SUBSET (0..6)]

AbsenceTyped ==
    /\ absence \in [Absences!Ids -> AbsenceRow \union {Absences!NoRow}]
    /\ policy \in AbsencePolicy /\ edited \in BOOLEAN /\ begun \in 0..MaxRequests
    /\ req \in [Callers -> {Absences!Idle} \union AbsenceCheck \union AbsenceWrite]

\* Of the rows that a checked form overlaps, the request knows that they came later.
SawClashes(q) ==
    q.pc \in {"allowance", "write"} => \A j \in Absences!Rows \ {q.id} : Absences!Overlaps(absence[j], q.form) => j \in q.blind

AbsenceInv ==
    /\ AbsenceTyped
    /\ \A r \in Callers : SawClashes(req[r])
    /\ Absences!OverlapOnlyByRace
    /\ \A i \in Absences!Rows : absence[i].days = Absences!WorkingDays(absence[i].start, absence[i].end, absence[i].weekdays)

\* With no absence and no request the invariant holds.
LEMMA AbsenceInit == ASSUME AbsenceLimits PROVE Absences!Init => AbsenceInv
<1> SUFFICES ASSUME Absences!Init PROVE AbsenceInv
  OBVIOUS
<1>1. Absences!Rows = {}
  BY DEF Absences!Init, Absences!Rows, Absences!NoRow
<1>2. [vacation |-> 1, weekdays |-> 1..5, negative |-> FALSE] \in AbsencePolicy
  BY DEF AbsencePolicy
<1>3. AbsenceTyped
  <2>1. absence \in [Absences!Ids -> AbsenceRow \union {Absences!NoRow}] /\ req \in [Callers -> {Absences!Idle} \union AbsenceCheck \union AbsenceWrite]
    BY DEF Absences!Init
  <2>2. policy \in AbsencePolicy
    BY <1>2 DEF Absences!Init
  <2>3. edited \in BOOLEAN /\ begun \in 0..MaxRequests
    <3>1. MaxRequests \in Nat
      BY DEF AbsenceLimits
    <3>2. edited = FALSE /\ begun = 0
      BY DEF Absences!Init
    <3>3. edited \in BOOLEAN
      BY <3>2
    <3>4. begun \in 0..MaxRequests
      BY <3>1, <3>2
    <3> QED BY <3>3, <3>4
  <2> QED BY <2>1, <2>2, <2>3 DEF AbsenceTyped
<1>4. \A r \in Callers : SawClashes(req[r])
  BY DEF Absences!Init, SawClashes, Absences!Idle
<1> QED BY <1>1, <1>3, <1>4 DEF AbsenceInv, Absences!OverlapOnlyByRace

\* A row in the table has the fields of a row.
LEMMA RowKind ==
    ASSUME AbsenceTyped, NEW i \in Absences!Rows
    PROVE  i \in Absences!Ids /\ absence[i] \in AbsenceRow
BY DEF AbsenceTyped, Absences!Rows, Absences!NoRow

\* What a request remembers at each of its steps.
LEMMA AbsenceKind ==
    ASSUME AbsenceTyped, NEW r \in Callers
    PROVE  /\ req[r].pc = "allowance" => req[r] \in AbsenceCheck
           /\ req[r].pc = "write" => req[r] \in AbsenceWrite
           /\ req[r] \in {Absences!Idle} \union AbsenceCheck \union AbsenceWrite /\ Absences!Idle.pc = "idle"
BY DEF AbsenceTyped, Absences!Idle, AbsenceCheck, AbsenceWrite

\* The days of an absence count no more than the week that the model spans.
LEMMA WorkingDaysCounted ==
    ASSUME NEW s \in Absences!Days, NEW e \in Absences!Days, NEW w
    PROVE  /\ Absences!WorkingDays(s, e, w) = Cardinality({d \in s..e : Absences!Weekday(d) \in w})
           /\ Absences!WorkingDays(s, e, w) \in 0..7
<1>1. Absences!WorkingDays(s, e, w) = Cardinality({d \in s..e : Absences!Weekday(d) \in w})
  BY DEF Absences!WorkingDays, Absences!Cardinality, Cardinality
<1>2. {d \in s..e : Absences!Weekday(d) \in w} \subseteq 0..6
  BY DEF Absences!Days
<1>3. IsFiniteSet(0..6) /\ Cardinality(0..6) = 7
  <2>1. \A a, b \in Int : IsFiniteSet(a..b) /\ Cardinality(a..b) = IF a > b THEN 0 ELSE b - a + 1
    BY FS_Interval
  <2>2. 0 \in Int /\ 6 \in Int
    OBVIOUS
  <2>3. PICK k : IsFiniteSet(0..6) /\ Cardinality(0..6) = k /\ k = IF 0 > 6 THEN 0 ELSE 6 - 0 + 1
    BY <2>1, <2>2, Zenon
  <2>4. k = 7
    BY <2>3
  <2> QED BY <2>3, <2>4, Zenon
<1>4. Cardinality({d \in s..e : Absences!Weekday(d) \in w}) \in Nat /\ Cardinality({d \in s..e : Absences!Weekday(d) \in w}) <= 7
  BY <1>2, <1>3, FS_Subset, FS_CardinalityType
<1> QED BY <1>1, <1>4

\* Editing the policy touches no absence.
LEMMA PolicyEdited == ASSUME AbsenceLimits, AbsenceInv, Absences!EditPolicy PROVE AbsenceInv'
<1>1. UNCHANGED <<absence, req, begun>> /\ policy' \in AbsencePolicy /\ edited' \in BOOLEAN
  BY DEF Absences!EditPolicy, AbsenceLimits
<1> QED BY <1>1 DEF AbsenceInv, AbsenceTyped, SawClashes, Absences!OverlapOnlyByRace, Absences!Rows

\* A removed absence leaves no clash and no overlap behind.
LEMMA AbsenceRemoved == ASSUME AbsenceLimits, AbsenceInv, NEW i \in Absences!Ids, Absences!Remove(i) PROVE AbsenceInv'
<1>1. UNCHANGED <<policy, edited, req, begun>> /\ absence' = [absence EXCEPT ![i] = Absences!NoRow]
  BY DEF Absences!Remove
<1>2. \A j \in Absences!Ids : absence'[j] = IF j = i THEN Absences!NoRow ELSE absence[j]
  BY <1>1 DEF AbsenceInv, AbsenceTyped
<1>3. Absences!Rows' = Absences!Rows \ {i} /\ \A j \in Absences!Rows' : absence'[j] = absence[j]
  BY <1>2 DEF Absences!Rows, Absences!NoRow
<1>4. AbsenceTyped'
  BY <1>1 DEF AbsenceInv, AbsenceTyped
<1>5. \A r \in Callers : SawClashes(req[r])'
  BY <1>1, <1>3 DEF AbsenceInv, SawClashes
<1>6. Absences!OverlapOnlyByRace'
  BY <1>3 DEF AbsenceInv, Absences!OverlapOnlyByRace
<1> QED BY <1>3, <1>4, <1>5, <1>6 DEF AbsenceInv

\* A request goes on and leaves the rows alone.
LEMMA AbsenceGoes ==
    ASSUME AbsenceInv, NEW r \in Callers, NEW rec, Absences!Goto(r, rec), UNCHANGED <<absence, policy, edited>>,
           begun' \in 0..MaxRequests, rec \in {Absences!Idle} \union AbsenceCheck \union AbsenceWrite, SawClashes(rec)
    PROVE  AbsenceInv'
<1>1. \A q \in Callers : req'[q] = IF q = r THEN rec ELSE req[q]
  BY DEF Absences!Goto, AbsenceInv, AbsenceTyped
<1>2. AbsenceTyped'
  BY DEF Absences!Goto, AbsenceInv, AbsenceTyped
<1>3. Absences!Rows' = Absences!Rows
  BY DEF Absences!Rows
<1>4. ASSUME NEW q \in Callers PROVE SawClashes(req[q])'
  <2> PICK u : u = req'[q]
    OBVIOUS
  <2>1. SawClashes(u)
    BY <1>1 DEF AbsenceInv
  <2>2. SawClashes(u)'
    BY <1>3, <2>1 DEF SawClashes
  <2> QED BY <2>2
<1>5. Absences!OverlapOnlyByRace'
  BY <1>3 DEF AbsenceInv, Absences!OverlapOnlyByRace
<1> QED BY <1>2, <1>3, <1>4, <1>5 DEF AbsenceInv

\* A request that goes on has seen no clash with a row.
LEMMA AbsenceBegins ==
    ASSUME AbsenceLimits, AbsenceInv, NEW r \in Callers, NEW id \in Absences!Ids, NEW form \in AbsenceForm, Absences!Begin(r, id, form)
    PROVE  AbsenceInv'
<1> DEFINE rec == [pc |-> "allowance", id |-> id, form |-> form, new |-> id \notin Absences!Rows, blind |-> {}]
<1>1. UNCHANGED <<absence, policy, edited>> /\ begun' \in 0..MaxRequests
  BY DEF Absences!Begin, AbsenceInv, AbsenceTyped, AbsenceLimits
<1>2. CASE Absences!Clash(id, form)
  <2>1. Absences!Goto(r, Absences!Idle) /\ SawClashes(Absences!Idle)
    BY <1>2 DEF Absences!Begin, SawClashes, Absences!Idle
  <2> QED BY <1>1, <2>1, AbsenceGoes
<1>3. CASE ~Absences!Clash(id, form)
  <2>1. rec \in AbsenceCheck
    BY DEF AbsenceCheck
  <2>2. SawClashes(rec)
    BY <1>3 DEF SawClashes, Absences!Clash
  <2>3. Absences!Goto(r, rec)
    BY <1>3 DEF Absences!Begin
  <2> HIDE DEF rec
  <2> QED BY <1>1, <2>1, <2>2, <2>3, AbsenceGoes
<1> QED BY <1>2, <1>3

\* The check of the allowance keeps what the overlap check saw.
LEMMA AbsenceChecks ==
    ASSUME AbsenceLimits, AbsenceInv, NEW r \in Callers, Absences!CheckAllowance(r)
    PROVE  AbsenceInv'
<1> DEFINE rec == [pc |-> "write", id |-> req[r].id, form |-> req[r].form, new |-> req[r].new,
                   blind |-> req[r].blind, weekdays |-> policy.weekdays]
<1>1. req[r] \in AbsenceCheck /\ SawClashes(req[r])
  BY AbsenceKind DEF Absences!CheckAllowance, AbsenceInv
<1>2. UNCHANGED <<absence, policy, edited>> /\ begun' \in 0..MaxRequests /\ (Absences!Goto(r, rec) \/ Absences!Goto(r, Absences!Idle))
  BY DEF Absences!CheckAllowance, AbsenceInv, AbsenceTyped
<1>3. rec \in AbsenceWrite
  <2>1. policy.weekdays \in SUBSET (0..6)
    BY DEF AbsenceInv, AbsenceTyped, AbsencePolicy
  <2> QED BY <1>1, <2>1 DEF AbsenceCheck, AbsenceWrite
<1>4. rec.pc = "write" /\ rec.id = req[r].id /\ rec.form = req[r].form /\ rec.blind = req[r].blind
  OBVIOUS
<1> HIDE DEF rec
<1>5. SawClashes(rec) /\ SawClashes(Absences!Idle)
  BY <1>1, <1>4 DEF SawClashes, AbsenceCheck, Absences!Idle
<1> QED BY <1>2, <1>3, <1>5, AbsenceGoes

\* A written row overlaps only rows written since its request looked.
LEMMA AbsenceWrites ==
    ASSUME AbsenceLimits, AbsenceInv, NEW r \in Callers, Absences!Write(r)
    PROVE  AbsenceInv'
<1> PICK id, f, w, b : id = req[r].id /\ f = req[r].form /\ w = req[r].weekdays /\ b = req[r].blind
  OBVIOUS
<1>1. /\ id \in Absences!Ids /\ f \in AbsenceForm /\ w \in SUBSET (0..6) /\ b \in SUBSET Absences!Ids
      /\ SawClashes(req[r]) /\ req[r].pc = "write"
  BY AbsenceKind DEF Absences!Write, AbsenceInv, AbsenceWrite
<1>2. UNCHANGED <<policy, edited, begun>>
      /\ req' = [q \in Callers |-> IF q = r THEN Absences!Idle ELSE Absences!Blinded(req[q], id)]
  BY DEF Absences!Write
<1> PICK own : own = [type |-> f.type, start |-> f.start, end |-> f.end, days |-> Absences!WorkingDays(f.start, f.end, w),
                      weekdays |-> w, blind |-> b]
  OBVIOUS
<1>3. f.type \in Absences!Types /\ f.start \in Absences!Days /\ f.end \in Absences!Days
  BY <1>1 DEF AbsenceForm
<1>4. own \in AbsenceRow /\ own.type # "none"
  BY <1>1, <1>3, WorkingDaysCounted DEF AbsenceRow, Absences!Types
<1>5. absence' = absence \/ absence' = [absence EXCEPT ![id] = own]
  BY DEF Absences!Write
<1>6. /\ \A j \in Absences!Rows' \ {id} : j \in Absences!Rows /\ absence'[j] = absence[j]
      /\ id \in Absences!Rows' => absence'[id] = own \/ (id \in Absences!Rows /\ absence'[id] = absence[id])
  BY <1>1, <1>5 DEF Absences!Rows, AbsenceInv, AbsenceTyped
<1>7. AbsenceTyped'
  <2>1. absence' \in [Absences!Ids -> AbsenceRow \union {Absences!NoRow}]
    BY <1>4, <1>5 DEF AbsenceInv, AbsenceTyped
  <2>2. ASSUME NEW q \in Callers PROVE Absences!Blinded(req[q], id) \in {Absences!Idle} \union AbsenceCheck \union AbsenceWrite
    <3>1. CASE req[q] = Absences!Idle
      BY <3>1 DEF Absences!Blinded, Absences!Idle
    <3>2. CASE req[q] \in AbsenceCheck
      BY <1>1, <3>2 DEF Absences!Blinded, AbsenceCheck
    <3>3. CASE req[q] \in AbsenceWrite
      BY <1>1, <3>3 DEF Absences!Blinded, AbsenceWrite
    <3> QED BY <3>1, <3>2, <3>3, AbsenceKind DEF AbsenceInv
  <2>3. req' \in [Callers -> {Absences!Idle} \union AbsenceCheck \union AbsenceWrite]
    BY <1>2, <2>2
  <2> QED BY <1>2, <2>1, <2>3 DEF AbsenceInv, AbsenceTyped
<1>8. ASSUME NEW q \in Callers PROVE SawClashes(req[q])'
  <2> PICK u, o : u = req[q] /\ o = req'[q]
    OBVIOUS
  <2>1. CASE o = Absences!Idle
    <3>1. SawClashes(o)'
      BY <2>1 DEF SawClashes, Absences!Idle
    <3> QED BY <3>1
  <2>2. CASE o = Absences!Blinded(u, id)
    <3>1. SawClashes(u)
      BY DEF AbsenceInv
    <3>2. /\ o.pc \in {"allowance", "write"} => o.pc = u.pc /\ o.id = u.id /\ o.form = u.form /\ o.blind = u.blind \union {id}
      <4>1. CASE u = Absences!Idle
        BY <2>2, <4>1 DEF Absences!Blinded, Absences!Idle
      <4>2. CASE u \in AbsenceCheck
        BY <2>2, <4>2 DEF Absences!Blinded, AbsenceCheck
      <4>3. CASE u \in AbsenceWrite
        BY <2>2, <4>3 DEF Absences!Blinded, AbsenceWrite
      <4> QED BY <4>1, <4>2, <4>3, AbsenceKind DEF AbsenceInv
    <3>3. SawClashes(o)'
      BY <1>6, <3>1, <3>2 DEF SawClashes
    <3> QED BY <3>3
  <2> QED BY <1>2, <2>1, <2>2
<1>9. Absences!OverlapOnlyByRace'
  <2>1. \A j \in Absences!Rows \ {id} : Absences!Overlaps(absence[j], f) => j \in b
    BY <1>1 DEF SawClashes
  <2>2. own.start = f.start /\ own.end = f.end /\ own.blind = b
    OBVIOUS
  <2>3. \A j \in Absences!Rows \ {id} : Absences!Overlaps(absence[j], own) => j \in own.blind
    BY <2>1, <2>2 DEF Absences!Overlaps
  <2>4. \A j \in Absences!Rows : absence[j].start \in Int /\ absence[j].end \in Int
    BY RowKind DEF AbsenceInv, AbsenceRow, Absences!Days
  <2>5. \A j \in Absences!Rows : Absences!Overlaps(own, absence[j]) => Absences!Overlaps(absence[j], own)
    BY <1>3, <2>2, <2>4 DEF Absences!Overlaps, Absences!Days
  <2> SUFFICES ASSUME NEW i \in Absences!Rows', NEW j \in Absences!Rows', i # j, Absences!Overlaps(absence'[i], absence'[j])
               PROVE  i \in absence'[j].blind \/ j \in absence'[i].blind
    BY DEF Absences!OverlapOnlyByRace, Absences!Overlaps
  <2>6. CASE absence'[i] = absence[i] /\ absence'[j] = absence[j] /\ i \in Absences!Rows /\ j \in Absences!Rows
    BY <2>6 DEF AbsenceInv, Absences!OverlapOnlyByRace
  <2>7. CASE i = id /\ absence'[id] = own
    BY <1>6, <2>3, <2>5, <2>7
  <2>8. CASE j = id /\ absence'[id] = own
    BY <1>6, <2>3, <2>8
  <2> QED BY <1>6, <2>6, <2>7, <2>8
<1>10. \A i \in Absences!Rows' : absence'[i].days = Absences!WorkingDays(absence'[i].start, absence'[i].end, absence'[i].weekdays)
  <2>1. own.days = Absences!WorkingDays(own.start, own.end, own.weekdays)
    OBVIOUS
  <2> QED BY <1>6, <2>1 DEF AbsenceInv
<1> QED BY <1>7, <1>8, <1>9, <1>10 DEF AbsenceInv

\* The invariant is inductive.
LEMMA AbsenceStep == ASSUME AbsenceLimits, AbsenceInv, [Absences!Next]_(Absences!vars) PROVE AbsenceInv'
<1>1. ASSUME NEW t \in Absences!Types, NEW x \in Ranges PROVE Absences!Form(t, x) \in AbsenceForm
  BY DEF Absences!Form, AbsenceForm, AbsenceLimits
<1>2. ASSUME NEW r \in Callers, NEW t \in Absences!Types, NEW x \in Ranges, Absences!CreateBegins(r, t, x) PROVE AbsenceInv'
  <2>1. begun + 1 \in Absences!Ids
    BY <1>2 DEF Absences!CreateBegins, Absences!Begin, Absences!Ids, AbsenceInv, AbsenceTyped, AbsenceLimits
  <2> QED BY <1>1, <1>2, <2>1, AbsenceBegins DEF Absences!CreateBegins
<1>3. ASSUME NEW r \in Callers, NEW t \in Absences!Types, NEW x \in Ranges, NEW i \in Absences!Ids, Absences!UpdateBegins(r, i, t, x) PROVE AbsenceInv'
  BY <1>1, <1>3, AbsenceBegins DEF Absences!UpdateBegins
<1>4. CASE UNCHANGED Absences!vars
  BY <1>4 DEF Absences!vars, AbsenceInv, AbsenceTyped, SawClashes, Absences!OverlapOnlyByRace, Absences!Rows
<1> QED BY <1>2, <1>3, <1>4, PolicyEdited, AbsenceRemoved, AbsenceChecks, AbsenceWrites DEF Absences!Next

-----------------------------------------------------------------------------
\* The years part the days that the model spans.
LEMMA YearsPart ==
    /\ Absences!FirstDay(2025) = 0 /\ Absences!LastDay(2025) = 2 /\ Absences!FirstDay(2026) = 3 /\ Absences!LastDay(2026) = 6
    /\ \A a, b \in Int : Absences!Max({a, b}) = (IF a >= b THEN a ELSE b) /\ Absences!Min({a, b}) = (IF a <= b THEN a ELSE b)
<1>1. ASSUME NEW S, NEW m \in S, S \subseteq Int, \A y \in S : m <= y PROVE Absences!Min(S) = m
  <2> DEFINE P(c) == c \in S /\ \A y \in S : c <= y
             c == CHOOSE c : P(c)
  <2>1. P(m)
    BY <1>1
  <2>2. P(c)
    BY <2>1
  <2>3. Absences!Min(S) = c
    BY DEF Absences!Min
  <2>4. c \in S /\ \A y \in S : c <= y
    BY <2>2
  <2> HIDE DEF c, P
  <2> QED BY <1>1, <2>3, <2>4
<1>2. ASSUME NEW S, NEW m \in S, S \subseteq Int, \A y \in S : m >= y PROVE Absences!Max(S) = m
  <2> DEFINE P(c) == c \in S /\ \A y \in S : c >= y
             c == CHOOSE c : P(c)
  <2>1. P(m)
    BY <1>2
  <2>2. P(c)
    BY <2>1
  <2>3. Absences!Max(S) = c
    BY DEF Absences!Max
  <2>4. c \in S /\ \A y \in S : c >= y
    BY <2>2
  <2> HIDE DEF c, P
  <2> QED BY <1>2, <2>3, <2>4
<1>3. {d \in Absences!Days : Absences!YearOf(d) = 2025} = 0..2 /\ {d \in Absences!Days : Absences!YearOf(d) = 2026} = 3..6
  BY DEF Absences!Days, Absences!YearOf
<1>4. Absences!Min(0..2) = 0 /\ Absences!Min(3..6) = 3 /\ Absences!Max(0..2) = 2 /\ Absences!Max(3..6) = 6
  <2>1. Absences!Min(0..2) = 0
    BY <1>1
  <2>2. Absences!Min(3..6) = 3
    BY <1>1
  <2>3. Absences!Max(0..2) = 2
    BY <1>2
  <2>4. Absences!Max(3..6) = 6
    BY <1>2
  <2> QED BY <2>1, <2>2, <2>3, <2>4
<1>5. ASSUME NEW a \in Int, NEW b \in Int
      PROVE  Absences!Max({a, b}) = (IF a >= b THEN a ELSE b) /\ Absences!Min({a, b}) = (IF a <= b THEN a ELSE b)
  BY <1>1, <1>2
<1> QED BY <1>3, <1>4, <1>5 DEF Absences!FirstDay, Absences!LastDay

\* Least and greatest of two days of the modelled week.
LEMMA YearsMeet ==
    ASSUME NEW b \in Int, NEW e \in Int, 0 <= b, b <= 6, 0 <= e, e <= 6
    PROVE  /\ Absences!Max({b, 0}) = b /\ Absences!Min({e, 6}) = e
           /\ Absences!Min({e, 2}) = (IF e <= 2 THEN e ELSE 2) /\ Absences!Max({b, 3}) = (IF b >= 3 THEN b ELSE 3)
BY YearsPart

\* Working days counted per year add up to the working days of the whole absence.
LEMMA DaysOfYears ==
    ASSUME NEW s \in Absences!Days, NEW e \in Absences!Days, NEW w
    PROVE  Absences!WorkingDays(s, e, w) = Absences!InYear(s, e, 2025, w) + Absences!InYear(s, e, 2026, w)
<1> DEFINE A == {d \in s..e : Absences!Weekday(d) \in w}
           Old == {d \in Absences!Max({s, 0})..Absences!Min({e, 2}) : Absences!Weekday(d) \in w}
           New == {d \in Absences!Max({s, 3})..Absences!Min({e, 6}) : Absences!Weekday(d) \in w}
<1>1. s \in Int /\ e \in Int /\ 0 <= s /\ s <= 6 /\ 0 <= e /\ e <= 6
  BY DEF Absences!Days
<1>2. /\ Absences!Max({s, 0}) = s /\ Absences!Min({e, 6}) = e
      /\ Absences!Min({e, 2}) = (IF e <= 2 THEN e ELSE 2) /\ Absences!Max({s, 3}) = (IF s >= 3 THEN s ELSE 3)
  BY <1>1, YearsMeet
<1>3. A = Old \union New /\ Old \intersect New = {}
  BY <1>1, <1>2
<1>4. A \subseteq 0..6
  BY <1>1
<1>5. IsFiniteSet(Old) /\ IsFiniteSet(New)
  <2>1. IsFiniteSet(0..6)
    <3>1. 0 \in Int /\ 6 \in Int
      OBVIOUS
    <3> QED BY <3>1, FS_Interval, Zenon
  <2>2. Old \subseteq 0..6 /\ New \subseteq 0..6
    BY <1>3, <1>4
  <2> HIDE DEF Old, New
  <2> QED BY <2>1, <2>2, FS_Subset
<1>6. Cardinality(A) = Cardinality(Old) + Cardinality(New)
  <2>1. Cardinality(Old \union New) = Cardinality(Old) + Cardinality(New) - Cardinality(Old \intersect New)
    <3> HIDE DEF Old, New
    <3> QED BY <1>5, FS_Union
  <2>2. Cardinality(Old) \in Nat /\ Cardinality(New) \in Nat
    BY <1>5, FS_CardinalityType
  <2>3. Cardinality(Old \intersect New) = 0
    BY <1>3, FS_EmptySet
  <2> HIDE DEF A, Old, New
  <2>4. Cardinality(A) = Cardinality(Old \union New)
    BY <1>3
  <2> QED BY <2>1, <2>2, <2>3, <2>4
<1>7. Absences!InYear(s, e, 2025, w) = Cardinality(Old) /\ Absences!InYear(s, e, 2026, w) = Cardinality(New)
  <2>1. Absences!InYear(s, e, 2025, w) = Absences!WorkingDays(Absences!Max({s, 0}), Absences!Min({e, 2}), w)
    BY YearsPart DEF Absences!InYear
  <2>2. Absences!InYear(s, e, 2026, w) = Absences!WorkingDays(Absences!Max({s, 3}), Absences!Min({e, 6}), w)
    BY YearsPart DEF Absences!InYear
  <2>3. /\ Absences!WorkingDays(Absences!Max({s, 0}), Absences!Min({e, 2}), w) = Cardinality(Old)
        /\ Absences!WorkingDays(Absences!Max({s, 3}), Absences!Min({e, 6}), w) = Cardinality(New)
    BY DEF Absences!WorkingDays, Absences!Cardinality, Cardinality
  <2> QED BY <2>1, <2>2, <2>3
<1> QED BY <1>6, <1>7, WorkingDaysCounted

\* The invariant gives the property the run checks.
LEMMA AbsenceSound == ASSUME AbsenceLimits, AbsenceInv PROVE Absences!TimeOffSound /\ Absences!TypeOK
<1>1. \A i \in Absences!Rows : absence[i] \in AbsenceRow
  BY RowKind DEF AbsenceInv
<1>2. Absences!DaysAddUp
  BY <1>1, DaysOfYears DEF AbsenceInv, AbsenceRow, Absences!DaysAddUp
<1>3. Absences!SegmentsTile
  <2> SUFFICES ASSUME NEW a \in AbsenceRow
               PROVE  LET old == Absences!Segment(a, 2025)
                          new == Absences!Segment(a, 2026)
                      IN /\ old.days \union new.days = a.start..a.end /\ old.days \intersect new.days = {}
                         /\ old.days # {} => (old.right <=> new.days # {})
                         /\ new.days # {} => (new.left <=> old.days # {})
    BY <1>1 DEF Absences!SegmentsTile
  <2>1. a.start \in Int /\ a.end \in Int /\ 0 <= a.start /\ a.start <= 6 /\ 0 <= a.end /\ a.end <= 6
    BY DEF AbsenceRow, Absences!Days
  <2>2. PICK b \in Int, e \in Int : b = a.start /\ e = a.end /\ 0 <= b /\ b <= 6 /\ 0 <= e /\ e <= 6
    BY <2>1
  <2>3. /\ Absences!Max({b, 0}) = b /\ Absences!Min({e, 6}) = e
        /\ Absences!Min({e, 2}) = (IF e <= 2 THEN e ELSE 2) /\ Absences!Max({b, 3}) = (IF b >= 3 THEN b ELSE 3)
    BY <2>2, YearsMeet
  <2>4. \A y : /\ Absences!Segment(a, y).days = Absences!Max({a.start, Absences!FirstDay(y)})..Absences!Min({a.end, Absences!LastDay(y)})
               /\ Absences!Segment(a, y).left <=> a.start < Absences!FirstDay(y)
               /\ Absences!Segment(a, y).right <=> a.end > Absences!LastDay(y)
    BY DEF Absences!Segment
  <2>5. Absences!FirstDay(2025) = 0 /\ Absences!LastDay(2025) = 2 /\ Absences!FirstDay(2026) = 3 /\ Absences!LastDay(2026) = 6
    BY YearsPart
  <2>6. /\ Absences!Segment(a, 2025).days = b..(IF e <= 2 THEN e ELSE 2) /\ (Absences!Segment(a, 2025).right <=> e > 2)
        /\ Absences!Segment(a, 2026).days = (IF b >= 3 THEN b ELSE 3)..e /\ (Absences!Segment(a, 2026).left <=> b < 3)
    BY <2>2, <2>3, <2>4, <2>5
  <2> DEFINE old == Absences!Segment(a, 2025)
             new == Absences!Segment(a, 2026)
  <2> HIDE DEF old, new
  <2>7. /\ old.days = b..(IF e <= 2 THEN e ELSE 2) /\ (old.right <=> e > 2)
        /\ new.days = (IF b >= 3 THEN b ELSE 3)..e /\ (new.left <=> b < 3)
    BY <2>6 DEF old, new
  <2>8. old.days \union new.days = a.start..a.end /\ old.days \intersect new.days = {}
    BY <2>2, <2>7
  <2>9. old.days # {} <=> b <= e /\ b <= 2
    BY <2>2, <2>7
  <2>10. new.days # {} <=> b <= e /\ e >= 3
    BY <2>2, <2>7
  <2>11. (old.days # {} => (old.right <=> new.days # {})) /\ (new.days # {} => (new.left <=> old.days # {}))
    BY <2>2, <2>7, <2>9, <2>10
  <2> QED BY <2>8, <2>11 DEF old, new
<1>4. Absences!TypeOK
  BY <1>1, AbsenceKind DEF AbsenceInv, AbsenceTyped, Absences!TypeOK, AbsenceRow, AbsencePolicy, AbsenceCheck, AbsenceWrite
<1> QED BY <1>2, <1>3, <1>4 DEF AbsenceInv, Absences!TimeOffSound

TeamFields == {"status", "start", "end", "client", "members"}
TeamStatuses == {"planned", "active"}
TeamClients == Team!Clients \union {"none"}
\* A form carries some of the columns.
TeamLimits ==
    /\ IsFiniteSet(Callers) /\ TeamRequests \in Nat
    /\ \A f \in ProjectForms :
          /\ DOMAIN f \subseteq TeamFields
          /\ "status" \in DOMAIN f => f["status"] \in TeamStatuses
          /\ "start" \in DOMAIN f => f["start"] \in Int
          /\ "end" \in DOMAIN f => f["end"] \in Int
          /\ "client" \in DOMAIN f => f["client"] \in TeamClients

IsProject(p) ==
    /\ DOMAIN p = TeamFields /\ p.status \in TeamStatuses
    /\ p.start \in Int /\ p.end \in Int /\ p.client \in TeamClients
TeamSeed == [pc : {"seed"}, client : TeamClients]
TeamRead == [pc : {"transaction"}, form : ProjectForms, client : TeamClients, behind : SUBSET TeamFields]
TeamWrite ==
    [pc : {"write"}, form : ProjectForms, client : TeamClients, behind : SUBSET TeamFields, status : TeamStatuses]
TeamTell == [pc : {"tell"}, old : TeamClients, new : TeamClients]
TeamDelete == [pc : {"delete"}, late : BOOLEAN]
TeamReq == {Team!Idle} \union TeamSeed \union TeamRead \union TeamWrite \union TeamTell \union TeamDelete

TeamTyped ==
    /\ project = Team!NoRow \/ IsProject(project)
    /\ history \in Seq(TeamStatuses) /\ linked \in [Team!Clients -> Int] /\ payments \in 0..1
    /\ req \in [Callers -> TeamReq] /\ begun \in 0..TeamRequests
    /\ crashed \in BOOLEAN /\ raced \in SUBSET TeamFields /\ wiped \in {"nothing", "uncounted", "counted"}
    /\ begun = 0 => /\ project = Team!NoRow /\ history = <<>> /\ linked = [c \in Team!Clients |-> 0]
                    /\ \A r \in Callers : req[r] = Team!Idle

\* What a request read that no other has written since is still so.
TeamKnows(q) ==
    /\ q.pc \in {"transaction", "write"} /\ Team!There =>
          /\ "client" \notin q.behind => q.client = project.client
          /\ q.behind \intersect {"start", "end"} = {} => Team!Merged(project, q.form).start <= Team!Merged(project, q.form).end
    /\ q.pc = "write" /\ Team!There /\ "status" \notin q.behind => q.status = project.status
    /\ q.pc = "delete" /\ ~q.late => payments = 0

\* The history lacks its first line as long as the creation has not written it.
Creating == {r \in Callers : req[r].pc = "seed"}
NoRepeat == \A i \in 1..(Len(history) - 1) : history[i] # history[i + 1]
HistoryInv ==
    /\ \A q, r \in Creating : q = r
    /\ Team!There /\ ~crashed /\ "status" \notin raced =>
          /\ NoRepeat
          /\ Len(history) > 0 => history[Len(history)] = project.status
          /\ Creating = {} => Len(history) > 0
          /\ Creating # {} => IF Len(history) = 0 THEN project.status = "planned" ELSE history[1] # "planned"

\* The events that are still to be told.
Gains(c) ==
    {r \in Callers : (req[r].pc = "tell" /\ req[r].new = c) \/ (req[r].pc = "seed" /\ req[r].client = c)}
Loses(c) == {r \in Callers : req[r].pc = "tell" /\ req[r].old = c}
LinkedInv ==
    Team!There /\ ~crashed /\ "client" \notin raced =>
        \A c \in Team!Clients :
            linked[c] = (IF project.client = c THEN 1 ELSE 0) - Cardinality(Gains(c)) + Cardinality(Loses(c))

TeamInv ==
    /\ TeamTyped /\ \A r \in Callers : TeamKnows(req[r])
    /\ Team!DatesOrdered /\ Team!PaymentsCounted /\ HistoryInv /\ LinkedInv

-----------------------------------------------------------------------------
\* What a request remembers at each of its steps.
LEMMA TeamKinds ==
    ASSUME TeamTyped, NEW r \in Callers
    PROVE  /\ req[r] \in TeamReq /\ Team!Idle.pc = "idle"
           /\ req[r].pc = "seed" => req[r] \in TeamSeed
           /\ req[r].pc = "transaction" => req[r] \in TeamRead
           /\ req[r].pc = "write" => req[r] \in TeamWrite
           /\ req[r].pc = "tell" => req[r] \in TeamTell
           /\ req[r].pc = "delete" => req[r] \in TeamDelete
BY DEF TeamTyped, TeamReq, Team!Idle, TeamSeed, TeamRead, TeamWrite, TeamTell, TeamDelete

\* Of a project and a form: the row that is written.
LEMMA MergedRow ==
    ASSUME TeamLimits, NEW p, IsProject(p), NEW f \in ProjectForms
    PROVE  /\ IsProject(Team!Merged(p, f))
           /\ "status" \in DOMAIN f => Team!Merged(p, f).status = f.status
           /\ "status" \notin DOMAIN f => Team!Merged(p, f).status = p.status
           /\ "client" \in DOMAIN f => Team!Merged(p, f).client = f.client
           /\ "client" \notin DOMAIN f => Team!Merged(p, f).client = p.client
           /\ "start" \notin DOMAIN f => Team!Merged(p, f).start = p.start
           /\ "end" \notin DOMAIN f => Team!Merged(p, f).end = p.end
<1>1. DOMAIN p = TeamFields
  BY DEF IsProject
<1>2. DOMAIN Team!Merged(p, f) = TeamFields /\ \A x \in TeamFields : Team!Merged(p, f)[x] = IF x \in DOMAIN f THEN f[x] ELSE p[x]
  BY <1>1 DEF Team!Merged, Team!Carries
<1>3. /\ Team!Merged(p, f).status = IF "status" \in DOMAIN f THEN f["status"] ELSE p["status"]
      /\ Team!Merged(p, f).client = IF "client" \in DOMAIN f THEN f["client"] ELSE p["client"]
      /\ Team!Merged(p, f).start = IF "start" \in DOMAIN f THEN f["start"] ELSE p["start"]
      /\ Team!Merged(p, f).end = IF "end" \in DOMAIN f THEN f["end"] ELSE p["end"]
  BY <1>2 DEF TeamFields
<1> QED BY <1>2, <1>3 DEF IsProject, TeamLimits

\* Dates of two rows that agree on them, under one form.
LEMMA MergedDates ==
    ASSUME NEW p, NEW q, IsProject(p), IsProject(q), p.start = q.start, p.end = q.end, NEW f
    PROVE  Team!Merged(p, f).start = Team!Merged(q, f).start /\ Team!Merged(p, f).end = Team!Merged(q, f).end
BY DEF Team!Merged, Team!Carries, IsProject, TeamFields

\* With no project and no request the invariant holds.
LEMMA TeamInit == ASSUME TeamLimits PROVE Team!Init => TeamInv
<1> SUFFICES ASSUME Team!Init PROVE TeamInv
  OBVIOUS
<1>1. \A r \in Callers : req[r] = Team!Idle /\ req[r].pc = "idle"
  BY DEF Team!Init, Team!Idle
<1>2. ~Team!There
  BY DEF Team!Init, Team!There, Team!NoRow
<1>3. TeamTyped
  <2>1. TeamRequests \in Nat
    BY DEF TeamLimits
  <2>2. req \in [Callers -> TeamReq]
    BY DEF Team!Init, TeamReq
  <2>3. begun \in 0..TeamRequests
    BY <2>1 DEF Team!Init
  <2>4. history \in Seq(TeamStatuses) /\ linked \in [Team!Clients -> Int] /\ payments \in 0..1
    BY DEF Team!Init
  <2>5. crashed \in BOOLEAN /\ raced \in SUBSET TeamFields /\ wiped \in {"nothing", "uncounted", "counted"}
    BY DEF Team!Init
  <2> QED BY <1>1, <2>2, <2>3, <2>4, <2>5 DEF Team!Init, TeamTyped
<1>4. \A r \in Callers : TeamKnows(req[r])
  BY <1>1 DEF TeamKnows
<1>5. HistoryInv /\ LinkedInv /\ Team!DatesOrdered
  BY <1>1, <1>2 DEF HistoryInv, LinkedInv, Team!DatesOrdered, Creating
<1>6. Team!PaymentsCounted
  BY DEF Team!Init, Team!PaymentsCounted
<1> QED BY <1>3, <1>4, <1>5, <1>6 DEF TeamInv

\* When only the membership of r changes, the size of a set changes by that alone.
LEMMA CountOne ==
    ASSUME NEW S, IsFiniteSet(S), NEW A \in SUBSET S, NEW B \in SUBSET S, NEW r \in S,
           \A q \in S \ {r} : q \in B <=> q \in A
    PROVE  /\ Cardinality(A) \in Int /\ Cardinality(B) \in Int
           /\ Cardinality(B) = Cardinality(A) + (IF r \in B THEN 1 ELSE 0) - (IF r \in A THEN 1 ELSE 0)
<1>1. IsFiniteSet(A) /\ IsFiniteSet(B)
  BY FS_Subset
<1>2. Cardinality(A) \in Nat /\ Cardinality(B) \in Nat
  BY <1>1, FS_CardinalityType
<1>3. CASE (r \in A) <=> (r \in B)
  <2>1. A = B
    BY <1>3
  <2> QED BY <1>2, <1>3, <2>1
<1>4. CASE r \notin A /\ r \in B
  <2>1. B = A \union {r}
    BY <1>4
  <2>2. Cardinality(B) = Cardinality(A) + 1
    BY <1>1, <1>4, <2>1, FS_AddElement
  <2> QED BY <1>2, <1>4, <2>2
<1>5. CASE r \in A /\ r \notin B
  <2>1. A = B \union {r}
    BY <1>5
  <2>2. Cardinality(A) = Cardinality(B) + 1
    BY <1>1, <1>5, <2>1, FS_AddElement
  <2> QED BY <1>2, <1>5, <2>2
<1> QED BY <1>3, <1>4, <1>5

\* One request goes on; of the others, those with an event to tell keep it.
TellsNew(q, c) == IF (q.pc = "tell" /\ q.new = c) \/ (q.pc = "seed" /\ q.client = c) THEN 1 ELSE 0
TellsOld(q, c) == IF q.pc = "tell" /\ q.old = c THEN 1 ELSE 0

\* A step of one request moves the events still to be told by what that request has to tell.
LEMMA EventsMove ==
    ASSUME TeamLimits, NEW r \in Callers, NEW c,
           \A q \in Callers \ {r} : req'[q].pc = req[q].pc /\ (req[q].pc \in {"seed", "tell"} => req'[q] = req[q])
    PROVE  /\ Cardinality(Gains(c)) \in Int /\ Cardinality(Loses(c)) \in Int
           /\ Cardinality(Gains(c)') = Cardinality(Gains(c)) + TellsNew(req'[r], c) - TellsNew(req[r], c)
           /\ Cardinality(Loses(c)') = Cardinality(Loses(c)) + TellsOld(req'[r], c) - TellsOld(req[r], c)
<1>1. IsFiniteSet(Callers)
  BY DEF TeamLimits
<1> PICK A, B, C, D : A = Gains(c) /\ B = Gains(c)' /\ C = Loses(c) /\ D = Loses(c)'
  OBVIOUS
<1>2. /\ A \in SUBSET Callers /\ B \in SUBSET Callers /\ C \in SUBSET Callers /\ D \in SUBSET Callers
      /\ \A q \in Callers \ {r} : (q \in B <=> q \in A) /\ (q \in D <=> q \in C)
  BY DEF Gains, Loses
<1>3. /\ (IF r \in B THEN 1 ELSE 0) = TellsNew(req'[r], c) /\ (IF r \in A THEN 1 ELSE 0) = TellsNew(req[r], c)
      /\ (IF r \in D THEN 1 ELSE 0) = TellsOld(req'[r], c) /\ (IF r \in C THEN 1 ELSE 0) = TellsOld(req[r], c)
  BY DEF Gains, Loses, TellsNew, TellsOld
<1>4. /\ Cardinality(A) \in Int
      /\ Cardinality(B) = Cardinality(A) + (IF r \in B THEN 1 ELSE 0) - (IF r \in A THEN 1 ELSE 0)
  BY <1>1, <1>2, CountOne
<1>5. /\ Cardinality(C) \in Int
      /\ Cardinality(D) = Cardinality(C) + (IF r \in D THEN 1 ELSE 0) - (IF r \in C THEN 1 ELSE 0)
  BY <1>1, <1>2, CountOne
<1> QED BY <1>3, <1>4, <1>5

\* A request goes on that tells nobody anything.
LEMMA TeamGoes ==
    ASSUME TeamLimits, TeamInv, NEW r \in Callers, NEW rec \in TeamReq, Team!Goto(r, rec), TeamKnows(rec),
           {req[r].pc, rec.pc} \intersect {"seed", "tell"} = {},
           UNCHANGED <<project, history, linked, payments, crashed, raced, wiped>>,
           begun' \in 0..TeamRequests, begun' # 0
    PROVE  TeamInv'
<1>1. \A q \in Callers : req'[q] = IF q = r THEN rec ELSE req[q]
  BY DEF Team!Goto, TeamInv, TeamTyped
<1>2. TeamTyped'
  BY DEF Team!Goto, TeamInv, TeamTyped
<1>3. ASSUME NEW q \in Callers PROVE TeamKnows(req[q])'
  <2> PICK u : u = req'[q]
    OBVIOUS
  <2>1. TeamKnows(u)
    BY <1>1 DEF TeamInv
  <2>2. TeamKnows(u)'
    BY <2>1 DEF TeamKnows, Team!There
  <2> QED BY <2>2
<1>4. Creating' = Creating
  BY <1>1 DEF Creating
<1>5. HistoryInv' /\ Team!DatesOrdered' /\ Team!PaymentsCounted'
  BY <1>4 DEF TeamInv, HistoryInv, NoRepeat, Team!DatesOrdered, Team!PaymentsCounted, Team!There
<1>6. \A c : Gains(c)' = Gains(c) /\ Loses(c)' = Loses(c)
  BY <1>1 DEF Gains, Loses
<1>7. LinkedInv'
  BY <1>6 DEF TeamInv, LinkedInv, Team!There
<1> QED BY <1>2, <1>3, <1>5, <1>7 DEF TeamInv

\* Reading a project for an update or a deletion changes no row.
LEMMA TeamBegins ==
    ASSUME TeamLimits, TeamInv, NEW r \in Callers,
           (\E f \in ProjectForms : Team!UpdateBegins(r, f)) \/ Team!RemoveBegins(r)
    PROVE  TeamInv'
<1>1. /\ UNCHANGED <<project, history, linked, payments, crashed, raced, wiped>> /\ Team!There
      /\ begun' \in 0..TeamRequests /\ begun' # 0 /\ req[r].pc = "idle" /\ IsProject(project)
  <2>1. /\ UNCHANGED <<project, history, linked, payments, crashed, raced, wiped>> /\ Team!There /\ Team!Fresh(r)
    BY DEF Team!UpdateBegins, Team!RemoveBegins
  <2>2. TeamRequests \in Nat /\ begun \in 0..TeamRequests
    BY DEF TeamLimits, TeamInv, TeamTyped
  <2>3. begun' \in 0..TeamRequests /\ begun' # 0 /\ req[r].pc = "idle"
    BY <2>1, <2>2 DEF Team!Fresh
  <2>4. IsProject(project)
    BY <2>1 DEF TeamInv, TeamTyped, Team!There, Team!NoRow
  <2> QED BY <2>1, <2>3, <2>4
<1>2. TeamKnows(Team!Idle) /\ Team!Idle \in TeamReq /\ Team!Idle.pc = "idle"
  BY DEF TeamKnows, Team!Idle, TeamReq
<1>3. ASSUME NEW f \in ProjectForms, Team!UpdateBegins(r, f) PROVE TeamInv'
  <2> DEFINE rec == [pc |-> "transaction", form |-> f, client |-> project.client, behind |-> {}]
  <2>1. rec \in TeamReq
    BY <1>1 DEF TeamReq, TeamRead, IsProject
  <2>2. Team!Merged(project, f).start <= Team!Merged(project, f).end => TeamKnows(rec)
    BY DEF TeamKnows
  <2>3. \/ Team!Goto(r, rec) /\ Team!Merged(project, f).start <= Team!Merged(project, f).end
        \/ Team!Goto(r, Team!Idle)
    BY <1>3 DEF Team!UpdateBegins
  <2>4. rec.pc = "transaction"
    OBVIOUS
  <2> HIDE DEF rec
  <2> QED BY <1>1, <1>2, <2>1, <2>2, <2>3, <2>4, TeamGoes
<1>4. CASE Team!RemoveBegins(r)
  <2> DEFINE rec == [pc |-> "delete", late |-> FALSE]
  <2>1. rec \in TeamReq
    BY DEF TeamReq, TeamDelete
  <2>2. (Team!Goto(r, rec) /\ payments = 0) \/ Team!Goto(r, Team!Idle)
    BY <1>4 DEF Team!RemoveBegins, Team!Blocked, TeamInv, TeamTyped
  <2>3. rec.pc = "delete" /\ (payments = 0 => TeamKnows(rec))
    BY DEF TeamKnows
  <2> HIDE DEF rec
  <2> QED BY <1>1, <1>2, <2>1, <2>2, <2>3, TeamGoes
<1> QED BY <1>3, <1>4

\* The status read in the transaction is that of the row.
LEMMA TeamReads == ASSUME TeamLimits, TeamInv, NEW r \in Callers, Team!ReadStatus(r) PROVE TeamInv'
<1>1. /\ UNCHANGED <<project, history, linked, payments, crashed, raced, wiped, begun>> /\ req[r].pc = "transaction"
      /\ req[r] \in TeamRead /\ TeamKnows(req[r])
  BY TeamKinds DEF Team!ReadStatus, TeamInv
<1>2. begun' \in 0..TeamRequests /\ begun' # 0
  BY <1>1 DEF TeamInv, TeamTyped, Team!Idle
<1>3. TeamKnows(Team!Idle) /\ Team!Idle \in TeamReq /\ Team!Idle.pc = "idle"
  BY DEF TeamKnows, Team!Idle, TeamReq
<1>4. CASE Team!There
  <2> DEFINE rec == [pc |-> "write", form |-> req[r].form, client |-> req[r].client,
                     behind |-> req[r].behind \ {"status"}, status |-> project.status]
  <2>1. IsProject(project)
    BY <1>4 DEF TeamInv, TeamTyped, Team!There, Team!NoRow
  <2>2. rec \in TeamReq
    BY <1>1, <2>1 DEF TeamReq, TeamRead, TeamWrite, IsProject
  <2>3. rec.pc = "write" /\ rec.form = req[r].form /\ rec.client = req[r].client /\ rec.status = project.status
        /\ rec.behind = req[r].behind \ {"status"}
    OBVIOUS
  <2>4. Team!Goto(r, rec)
    BY <1>4 DEF Team!ReadStatus
  <2> HIDE DEF rec
  <2>5. TeamKnows(rec)
    <3>1. /\ "client" \notin rec.behind => "client" \notin req[r].behind
          /\ rec.behind \intersect {"start", "end"} = req[r].behind \intersect {"start", "end"}
      BY <2>3
    <3> QED BY <1>1, <2>3, <3>1 DEF TeamKnows
  <2> QED BY <1>1, <1>2, <2>2, <2>3, <2>4, <2>5, TeamGoes
<1>5. CASE ~Team!There
  BY <1>1, <1>2, <1>3, <1>5, TeamGoes DEF Team!ReadStatus
<1> QED BY <1>4, <1>5

\* A created project owes its client an event and its history a first line.
LEMMA TeamCreates ==
    ASSUME TeamLimits, TeamInv, NEW r \in Callers, NEW c \in TeamClients, Team!CreateRow(r, c)
    PROVE  TeamInv'
<1> DEFINE rec == [pc |-> "seed", client |-> c]
<1>1. /\ begun = 0 /\ history = <<>> /\ linked = [d \in Team!Clients |-> 0] /\ project = Team!NoRow
      /\ \A q \in Callers : req[q] = Team!Idle
  BY DEF Team!CreateRow, TeamInv, TeamTyped
<1>2. /\ UNCHANGED <<history, linked, payments, crashed, raced, wiped>> /\ Team!Goto(r, rec) /\ begun' = begun + 1
      /\ project' = [Team!Blank EXCEPT !.client = c] /\ begun < TeamRequests
  BY DEF Team!CreateRow, Team!Fresh
<1>3. IsProject(project') /\ project'.client = c /\ project'.status = "planned" /\ Team!There'
      /\ project'.start = 1 /\ project'.end = 1
  BY <1>2 DEF Team!Blank, IsProject, TeamFields, TeamStatuses, Team!There
<1>4. rec \in TeamReq /\ rec.pc = "seed" /\ rec.client = c
  BY DEF TeamReq, TeamSeed
<1> HIDE DEF rec
<1>5. \A q \in Callers : req'[q] = IF q = r THEN rec ELSE Team!Idle
  BY <1>1, <1>2 DEF Team!Goto, TeamInv, TeamTyped
<1>6. TeamTyped'
  <2>1. begun' \in 0..TeamRequests /\ begun' # 0
    <3>1. TeamRequests \in Nat
      BY DEF TeamLimits
    <3> QED BY <1>1, <1>2, <3>1
  <2>2. req' \in [Callers -> TeamReq]
    BY <1>2, <1>4 DEF Team!Goto, TeamInv, TeamTyped
  <2> QED BY <1>2, <1>3, <2>1, <2>2 DEF TeamInv, TeamTyped
<1>7. ASSUME NEW q \in Callers PROVE TeamKnows(req[q])'
  <2> PICK u : u = req'[q]
    OBVIOUS
  <2>1. u.pc \in {"seed", "idle"}
    BY <1>4, <1>5 DEF Team!Idle
  <2>2. TeamKnows(u)'
    BY <2>1 DEF TeamKnows
  <2> QED BY <2>2
<1>8. Creating' = {r}
  BY <1>4, <1>5 DEF Creating, Team!Idle
<1>9. HistoryInv'
  <2>1. Len(history') = 0
    BY <1>1, <1>2
  <2>2. NoRepeat'
    BY <2>1 DEF NoRepeat
  <2> QED BY <1>3, <1>8, <2>1, <2>2 DEF HistoryInv
<1>10. Team!DatesOrdered' /\ Team!PaymentsCounted'
  BY <1>2, <1>3 DEF Team!DatesOrdered, Team!PaymentsCounted, TeamInv
<1>11. LinkedInv'
  <2> SUFFICES ASSUME NEW d \in Team!Clients
               PROVE  linked'[d] = (IF project'.client = d THEN 1 ELSE 0) - Cardinality(Gains(d)') + Cardinality(Loses(d)')
    BY DEF LinkedInv
  <2>1. Gains(d)' = (IF c = d THEN {r} ELSE {}) /\ Loses(d)' = {}
    BY <1>4, <1>5 DEF Gains, Loses, Team!Idle
  <2>2. Cardinality({}) = 0 /\ Cardinality({r}) = 1
    BY FS_EmptySet, FS_Singleton
  <2>3. linked'[d] = 0
    BY <1>1, <1>2
  <2> QED BY <1>3, <2>1, <2>2, <2>3
<1> QED BY <1>6, <1>7, <1>9, <1>10, <1>11 DEF TeamInv

\* A line put before the others.
LEMMA LineBefore ==
    ASSUME NEW T, NEW x \in T, NEW h \in Seq(T)
    PROVE  /\ <<x>> \o h \in Seq(T) /\ Len(<<x>> \o h) = Len(h) + 1
           /\ (<<x>> \o h)[1] = x
           /\ \A i \in 1..Len(h) : (<<x>> \o h)[i + 1] = h[i]
OBVIOUS

\* The first line of a new project agrees with its status.
LEMMA TeamSeeds == ASSUME TeamLimits, TeamInv, NEW r \in Callers, Team!SeedHistory(r) PROVE TeamInv'
<1>1. /\ UNCHANGED <<project, linked, payments, begun, crashed, raced, wiped>> /\ req[r].pc = "seed"
      /\ req[r] \in TeamSeed
  BY TeamKinds DEF Team!SeedHistory, TeamInv
<1> PICK rec : /\ rec = IF Team!There THEN [pc |-> "tell", old |-> "none", new |-> req[r].client] ELSE Team!Idle
  OBVIOUS
<1>2. Team!Goto(r, rec) /\ history' = (IF Team!There THEN <<"planned">> \o history ELSE history)
  BY DEF Team!SeedHistory
<1>3. rec \in TeamReq /\ rec.pc \in {"tell", "idle"}
      /\ (Team!There => rec.pc = "tell" /\ rec.old = "none" /\ rec.new = req[r].client)
  BY <1>1 DEF TeamReq, TeamSeed, TeamTell, Team!Idle, TeamClients
<1>4. \A q \in Callers : req'[q] = IF q = r THEN rec ELSE req[q]
  BY <1>2 DEF Team!Goto, TeamInv, TeamTyped
<1>5. /\ history \in Seq(TeamStatuses) /\ "planned" \in TeamStatuses
      /\ Team!There => /\ history' \in Seq(TeamStatuses) /\ Len(history') = Len(history) + 1 /\ history'[1] = "planned"
                       /\ \A i \in 1..Len(history) : history'[i + 1] = history[i]
  <2>1. history \in Seq(TeamStatuses) /\ "planned" \in TeamStatuses
    BY DEF TeamInv, TeamTyped, TeamStatuses
  <2> QED BY <1>2, <2>1, LineBefore
<1>6. TeamTyped'
  <2>1. begun' # 0
    BY <1>1 DEF TeamInv, TeamTyped, Team!Idle
  <2>2. req' \in [Callers -> TeamReq]
    BY <1>2, <1>3 DEF Team!Goto, TeamInv, TeamTyped
  <2>3. history' \in Seq(TeamStatuses)
    BY <1>2, <1>5
  <2> QED BY <1>1, <2>1, <2>2, <2>3 DEF TeamInv, TeamTyped
<1>7. ASSUME NEW q \in Callers PROVE TeamKnows(req[q])'
  <2> PICK u : u = req'[q]
    OBVIOUS
  <2>1. TeamKnows(u)
    BY <1>3, <1>4 DEF TeamInv, TeamKnows
  <2>2. TeamKnows(u)'
    BY <1>1, <2>1 DEF TeamKnows, Team!There
  <2> QED BY <2>2
<1>8. Creating = {r} /\ Creating' = {}
  <2>1. r \in Creating /\ Creating = {r}
    BY <1>1 DEF Creating, TeamInv, HistoryInv
  <2> QED BY <1>3, <1>4, <2>1 DEF Creating
<1>9. HistoryInv'
  <2> SUFFICES ASSUME Team!There', ~crashed', "status" \notin raced'
               PROVE  NoRepeat' /\ Len(history') > 0 /\ history'[Len(history')] = project'.status
    BY <1>8 DEF HistoryInv
  <2>1. /\ Team!There /\ NoRepeat /\ (Len(history) > 0 => history[Len(history)] = project.status)
        /\ IF Len(history) = 0 THEN project.status = "planned" ELSE history[1] # "planned"
    BY <1>1, <1>8 DEF HistoryInv, TeamInv, Team!There
  <2>2. /\ Len(history) \in Nat /\ Len(history') = Len(history) + 1 /\ history'[1] = "planned"
        /\ \A i \in 1..Len(history) : history'[i + 1] = history[i]
    BY <1>5, <2>1
  <2>3. history'[Len(history')] = project'.status
    <3>1. CASE Len(history) = 0
      BY <1>1, <2>1, <2>2, <3>1
    <3>2. CASE Len(history) # 0
      BY <1>1, <2>1, <2>2, <3>2
    <3> QED BY <3>1, <3>2
  <2>4. ASSUME NEW i \in 1..(Len(history') - 1) PROVE history'[i] # history'[i + 1]
    <3>1. CASE i = 1
      BY <2>1, <2>2, <3>1
    <3>2. CASE i # 1
      <4> DEFINE j == i - 1
      <4>1. j \in 1..Len(history) /\ j \in 1..(Len(history) - 1) /\ j + 1 = i /\ i \in 1..Len(history)
        BY <2>2, <3>2
      <4>2. history'[j + 1] = history[j] /\ history'[i + 1] = history[i] /\ history[j] # history[j + 1]
        BY <2>1, <2>2, <4>1 DEF NoRepeat
      <4> HIDE DEF j
      <4> QED BY <4>1, <4>2
    <3> QED BY <3>1, <3>2
  <2> QED BY <2>2, <2>3, <2>4 DEF NoRepeat
<1>10. Team!DatesOrdered' /\ Team!PaymentsCounted'
  BY <1>1 DEF Team!DatesOrdered, Team!PaymentsCounted, TeamInv, Team!There
<1>11. LinkedInv'
  <2> SUFFICES ASSUME NEW d \in Team!Clients, Team!There', ~crashed', "client" \notin raced'
               PROVE  linked'[d] = (IF project'.client = d THEN 1 ELSE 0) - Cardinality(Gains(d)') + Cardinality(Loses(d)')
    BY DEF LinkedInv
  <2>1. Team!There /\ linked[d] = (IF project.client = d THEN 1 ELSE 0) - Cardinality(Gains(d)) + Cardinality(Loses(d))
    BY <1>1 DEF TeamInv, LinkedInv, Team!There
  <2>2. /\ Cardinality(Gains(d)) \in Int /\ Cardinality(Loses(d)) \in Int
        /\ Cardinality(Gains(d)') = Cardinality(Gains(d)) + TellsNew(req'[r], d) - TellsNew(req[r], d)
        /\ Cardinality(Loses(d)') = Cardinality(Loses(d)) + TellsOld(req'[r], d) - TellsOld(req[r], d)
    BY <1>4, EventsMove
  <2>3. TellsNew(req'[r], d) = TellsNew(req[r], d) /\ TellsOld(req'[r], d) = 0 /\ TellsOld(req[r], d) = 0
        /\ TellsNew(req[r], d) \in Int
    BY <1>1, <1>3, <1>4, <2>1 DEF TellsNew, TellsOld, Team!Clients
  <2> QED BY <1>1, <2>1, <2>2, <2>3
<1> QED BY <1>6, <1>7, <1>9, <1>10, <1>11 DEF TeamInv

\* A told event moves from the request to the timeline of the client.
LEMMA TeamTells == ASSUME TeamLimits, TeamInv, NEW r \in Callers, Team!Tell(r) PROVE TeamInv'
<1>1. /\ UNCHANGED <<project, history, payments, begun, crashed, wiped>> /\ req[r].pc = "tell"
      /\ Team!Goto(r, Team!Idle) /\ req[r] \in TeamTell /\ raced' \in {raced, raced \union {"client"}}
  BY TeamKinds DEF Team!Tell, TeamInv
<1>2. Team!Idle \in TeamReq /\ Team!Idle.pc = "idle"
  BY DEF TeamReq, Team!Idle
<1>3. \A q \in Callers : req'[q] = IF q = r THEN Team!Idle ELSE req[q]
  BY <1>1 DEF Team!Goto, TeamInv, TeamTyped
<1>4. /\ linked' \in [Team!Clients -> Int]
      /\ "client" \notin raced' =>
            \A d \in Team!Clients : linked'[d] = linked[d] + TellsNew(req[r], d) - TellsOld(req[r], d)
  <2>1. linked \in [Team!Clients -> Int]
    BY DEF TeamInv, TeamTyped
  <2>2. \E old, new : linked' = Team!Told(old, new)
    BY DEF Team!Tell
  <2>3. "client" \notin raced' => linked' = Team!Told(req[r].old, req[r].new)
    BY DEF Team!Tell
  <2>4. linked' \in [Team!Clients -> Int]
    BY <2>1, <2>2 DEF Team!Told
  <2> QED BY <1>1, <2>1, <2>3, <2>4 DEF Team!Told, TellsNew, TellsOld
<1>5. TeamTyped'
  <2>1. begun' # 0
    BY <1>1 DEF TeamInv, TeamTyped, Team!Idle
  <2>2. raced' \in SUBSET TeamFields
    BY <1>1 DEF TeamInv, TeamTyped, TeamFields
  <2> QED BY <1>1, <1>2, <1>4, <2>1, <2>2 DEF Team!Goto, TeamInv, TeamTyped
<1>6. ASSUME NEW q \in Callers PROVE TeamKnows(req[q])'
  <2> PICK u : u = req'[q]
    OBVIOUS
  <2>1. TeamKnows(u)
    BY <1>2, <1>3 DEF TeamInv, TeamKnows
  <2>2. TeamKnows(u)'
    BY <1>1, <2>1 DEF TeamKnows, Team!There
  <2> QED BY <2>2
<1>7. Creating' = Creating
  BY <1>1, <1>2, <1>3 DEF Creating
<1>8. HistoryInv' /\ Team!DatesOrdered' /\ Team!PaymentsCounted'
  BY <1>1, <1>7 DEF TeamInv, HistoryInv, NoRepeat, Team!DatesOrdered, Team!PaymentsCounted, Team!There
<1>9. LinkedInv'
  <2> SUFFICES ASSUME NEW d \in Team!Clients, Team!There', ~crashed', "client" \notin raced'
               PROVE  linked'[d] = (IF project'.client = d THEN 1 ELSE 0) - Cardinality(Gains(d)') + Cardinality(Loses(d)')
    BY DEF LinkedInv
  <2>1. linked[d] = (IF project.client = d THEN 1 ELSE 0) - Cardinality(Gains(d)) + Cardinality(Loses(d))
    BY <1>1 DEF TeamInv, LinkedInv, Team!There
  <2>2. /\ Cardinality(Gains(d)) \in Int /\ Cardinality(Loses(d)) \in Int
        /\ Cardinality(Gains(d)') = Cardinality(Gains(d)) + TellsNew(req'[r], d) - TellsNew(req[r], d)
        /\ Cardinality(Loses(d)') = Cardinality(Loses(d)) + TellsOld(req'[r], d) - TellsOld(req[r], d)
    BY <1>3, EventsMove
  <2>3. /\ TellsNew(req'[r], d) = 0 /\ TellsOld(req'[r], d) = 0
        /\ TellsNew(req[r], d) \in Int /\ TellsOld(req[r], d) \in Int
    BY <1>2, <1>3 DEF TellsNew, TellsOld
  <2> QED BY <1>1, <1>4, <2>1, <2>2, <2>3
<1> QED BY <1>5, <1>6, <1>8, <1>9 DEF TeamInv

\* Once the project is gone little is claimed.
LEMMA TeamGone ==
    ASSUME TeamLimits, TeamInv, project' = Team!NoRow, req' \in [Callers -> TeamReq], begun' # 0,
           history' \in Seq(TeamStatuses), payments' \in 0..1, wiped' \in {"nothing", "uncounted"},
           UNCHANGED <<linked, begun, crashed, raced>>,
           \A q \in Callers : req'[q] \in {Team!Idle, req[q]}, payments' = 0
    PROVE  TeamInv'
<1>1. ~Team!There' /\ Team!Idle.pc = "idle"
  BY DEF Team!There, Team!NoRow, Team!Idle
<1>2. TeamTyped'
  BY DEF TeamInv, TeamTyped
<1>3. ASSUME NEW q \in Callers PROVE TeamKnows(req[q])'
  <2> PICK u : u = req'[q]
    OBVIOUS
  <2>1. TeamKnows(u)'
    BY <1>1 DEF TeamKnows
  <2> QED BY <2>1
<1>4. \A x, y \in Creating' : x = y
  BY <1>1 DEF Creating, TeamInv, HistoryInv
<1>5. HistoryInv' /\ Team!DatesOrdered' /\ LinkedInv'
  BY <1>1, <1>4 DEF HistoryInv, Team!DatesOrdered, LinkedInv
<1>6. Team!PaymentsCounted'
  BY DEF Team!PaymentsCounted
<1> QED BY <1>2, <1>3, <1>5, <1>6 DEF TeamInv

\* A deletion takes the row and its history away.
LEMMA TeamDeletes == ASSUME TeamLimits, TeamInv, NEW r \in Callers, Team!Delete(r) PROVE TeamInv'
<1>1. /\ project' = Team!NoRow /\ history' = <<>> /\ payments' = 0 /\ UNCHANGED <<linked, begun, crashed, raced>>
      /\ req[r].pc = "delete" /\ Team!Goto(r, Team!Idle) /\ TeamKnows(req[r]) /\ req[r] \in TeamDelete
  BY TeamKinds DEF Team!Delete, TeamInv
<1>2. Team!Idle \in TeamReq /\ Team!Idle.pc = "idle"
  BY DEF TeamReq, Team!Idle
<1>3. wiped' \in {"nothing", "uncounted"}
  <2>1. wiped \in {"nothing", "uncounted"}
    BY DEF TeamInv, TeamTyped, Team!PaymentsCounted
  <2>2. req[r].late \/ payments = 0
    BY <1>1 DEF TeamKnows
  <2> QED BY <2>1, <2>2 DEF Team!Delete
<1>4. begun' # 0
  BY <1>1, <1>2 DEF TeamInv, TeamTyped
<1>5. req' \in [Callers -> TeamReq] /\ \A q \in Callers : req'[q] \in {Team!Idle, req[q]}
  BY <1>1, <1>2 DEF Team!Goto, TeamInv, TeamTyped
<1> QED BY <1>1, <1>3, <1>4, <1>5, TeamGone

\* Each request as it was, or a deletion that has become late, or a restart.
LEMMA TeamMeanwhile == ASSUME TeamLimits, TeamInv, Team!PaymentArrives \/ Team!Crash PROVE TeamInv'
<1>1. CASE Team!PaymentArrives
  <2>1. /\ Team!There /\ payments' = 1 /\ UNCHANGED <<project, history, linked, begun, crashed, raced, wiped>>
        /\ \A q \in Callers : req'[q] = IF req[q].pc = "delete" THEN [pc |-> "delete", late |-> TRUE] ELSE req[q]
        /\ req' = [q \in Callers |-> req'[q]]
    BY <1>1 DEF Team!PaymentArrives
  <2>2. [pc |-> "delete", late |-> TRUE] \in TeamReq
    BY DEF TeamReq, TeamDelete
  <2>3. begun' # 0
    BY <2>1 DEF TeamInv, TeamTyped, Team!There, Team!NoRow
  <2>4. req' \in [Callers -> TeamReq]
    BY <2>1, <2>2 DEF TeamInv, TeamTyped
  <2>5. TeamTyped'
    BY <2>1, <2>3, <2>4 DEF TeamInv, TeamTyped
  <2>6. ASSUME NEW q \in Callers PROVE TeamKnows(req[q])'
    <3> PICK u : u = req'[q]
      OBVIOUS
    <3>1. CASE req[q].pc = "delete"
      <4>1. u.pc = "delete" /\ u.late
        BY <2>1, <3>1
      <4>2. TeamKnows(u)'
        BY <4>1 DEF TeamKnows
      <4> QED BY <4>2
    <3>2. CASE req[q].pc # "delete"
      <4>1. TeamKnows(u) /\ u.pc # "delete"
        BY <2>1, <3>2 DEF TeamInv
      <4>2. TeamKnows(u)'
        BY <2>1, <4>1 DEF TeamKnows, Team!There
      <4> QED BY <4>2
    <3> QED BY <3>1, <3>2
  <2>7. Creating' = Creating /\ \A c : Gains(c)' = Gains(c) /\ Loses(c)' = Loses(c)
    BY <2>1 DEF Creating, Gains, Loses
  <2>8. HistoryInv' /\ Team!DatesOrdered' /\ Team!PaymentsCounted'
    BY <2>1, <2>7 DEF TeamInv, HistoryInv, NoRepeat, Team!DatesOrdered, Team!PaymentsCounted, Team!There
  <2>9. LinkedInv'
    BY <2>1, <2>7 DEF TeamInv, LinkedInv, Team!There
  <2> QED BY <2>5, <2>6, <2>8, <2>9 DEF TeamInv
<1>2. CASE Team!Crash
  <2>1. /\ crashed' = TRUE /\ UNCHANGED <<project, history, linked, payments, begun, raced, wiped>>
        /\ req' = [r \in Callers |-> Team!Idle] /\ Team!Idle.pc = "idle" /\ Team!Idle \in TeamReq
    BY <1>2 DEF Team!Crash, Team!Idle, TeamReq
  <2>2. begun' # 0
    BY <1>2, <2>1 DEF Team!Crash, TeamInv, TeamTyped
  <2>3. TeamTyped'
    BY <2>1, <2>2 DEF TeamInv, TeamTyped
  <2>4. ASSUME NEW q \in Callers PROVE TeamKnows(req[q])'
    <3> PICK u : u = req'[q]
      OBVIOUS
    <3>1. TeamKnows(u)'
      BY <2>1 DEF TeamKnows
    <3> QED BY <3>1
  <2>5. Creating' = {}
    BY <2>1 DEF Creating
  <2>6. HistoryInv' /\ LinkedInv' /\ Team!DatesOrdered' /\ Team!PaymentsCounted'
    BY <2>1, <2>5 DEF TeamInv, HistoryInv, LinkedInv, Team!DatesOrdered, Team!PaymentsCounted, Team!There
  <2> QED BY <2>3, <2>4, <2>6 DEF TeamInv
<1> QED BY <1>1, <1>2

\* What the others keep of their reading when a form is written.
LEMMA OvertakenForm ==
    ASSUME TeamLimits, NEW q \in TeamReq, TeamKnows(q), NEW f \in ProjectForms, Team!There, IsProject(project),
           project' = Team!Merged(project, f), Team!There', IsProject(project'), payments' = payments
    PROVE  /\ Team!Overtaken(q, f) \in TeamReq /\ Team!Overtaken(q, f).pc = q.pc
           /\ q.pc \in {"seed", "tell"} => Team!Overtaken(q, f) = q
           /\ TeamKnows(Team!Overtaken(q, f))'
<1>1. DOMAIN f \subseteq TeamFields
  BY DEF TeamLimits
<1>2. CASE q.pc \notin {"transaction", "write"}
  <2>1. Team!Overtaken(q, f) = q
    BY <1>2 DEF Team!Overtaken
  <2>2. TeamKnows(q)'
    BY <1>2 DEF TeamKnows
  <2> QED BY <2>1, <2>2
<1>3. CASE q.pc \in {"transaction", "write"}
  <2> PICK u : u = Team!Overtaken(q, f)
    OBVIOUS
  <2>1. q \in TeamRead \union TeamWrite
    BY <1>3 DEF TeamReq, Team!Idle, TeamSeed, TeamTell, TeamDelete
  <2>2. u = [q EXCEPT !.behind = q.behind \union DOMAIN f]
    BY <1>3 DEF Team!Overtaken
  <2>3. /\ u \in TeamRead \union TeamWrite /\ u.pc = q.pc /\ u.form = q.form /\ u.client = q.client
        /\ u.behind = q.behind \union DOMAIN f /\ (q.pc = "write" => u.status = q.status)
    <3>1. CASE q \in TeamRead
      BY <1>1, <2>2, <3>1 DEF TeamRead
    <3>2. CASE q \in TeamWrite
      BY <1>1, <2>2, <3>2 DEF TeamWrite
    <3> QED BY <2>1, <3>1, <3>2
  <2>4. "client" \notin u.behind => u.client = project'.client
    BY <1>3, <2>3, MergedRow DEF TeamKnows
  <2>5. u.behind \intersect {"start", "end"} = {} => Team!Merged(project', u.form).start <= Team!Merged(project', u.form).end
    <3> SUFFICES ASSUME u.behind \intersect {"start", "end"} = {}
                 PROVE  Team!Merged(project', u.form).start <= Team!Merged(project', u.form).end
      OBVIOUS
    <3>1. "start" \notin DOMAIN f /\ "end" \notin DOMAIN f /\ q.behind \intersect {"start", "end"} = {}
      BY <2>3
    <3>2. project'.start = project.start /\ project'.end = project.end
      BY <3>1, MergedRow
    <3>3. Team!Merged(project, q.form).start <= Team!Merged(project, q.form).end
      BY <1>3, <3>1 DEF TeamKnows
    <3>4. /\ Team!Merged(project', u.form).start = Team!Merged(project, q.form).start
          /\ Team!Merged(project', u.form).end = Team!Merged(project, q.form).end
      BY <2>3, <3>2, MergedDates
    <3> QED BY <3>3, <3>4
  <2>6. u.pc = "write" /\ "status" \notin u.behind => u.status = project'.status
    BY <2>3, MergedRow DEF TeamKnows
  <2>7. TeamKnows(u)'
    BY <1>3, <2>3, <2>4, <2>5, <2>6 DEF TeamKnows
  <2>8. u \in TeamReq
    BY <2>3 DEF TeamReq
  <2> QED BY <1>3, <2>3, <2>7, <2>8
<1> QED BY <1>2, <1>3

\* An update writes the row, its history line and its dates at once, and owes events for a changed client.
LEMMA TeamWrites == ASSUME TeamLimits, TeamInv, NEW r \in Callers, Team!Write(r) PROVE TeamInv'
<1>1. /\ UNCHANGED <<linked, payments, begun, crashed, wiped>> /\ req[r].pc = "write"
      /\ req[r] \in TeamWrite /\ TeamKnows(req[r]) /\ req[r] \in TeamReq
  BY TeamKinds DEF Team!Write, TeamInv
<1>2. begun' \in 0..TeamRequests /\ begun' # 0
  BY <1>1 DEF TeamInv, TeamTyped, Team!Idle
<1>3. Team!Idle \in TeamReq /\ Team!Idle.pc = "idle" /\ TeamKnows(Team!Idle)
  BY DEF TeamReq, Team!Idle, TeamKnows
<1>4. CASE ~Team!There
  BY <1>1, <1>2, <1>3, <1>4, TeamGoes DEF Team!Write
<1>5. CASE Team!There
  <2> PICK form : form = req[r].form
    OBVIOUS
  <2> PICK next : next = Team!Merged(project, form)
    OBVIOUS
  <2> PICK rec : rec = IF Team!Carries(form, "client") THEN [pc |-> "tell", old |-> req[r].client, new |-> next.client] ELSE Team!Idle
    OBVIOUS
  <2>1. form \in ProjectForms /\ req[r].client \in TeamClients /\ req[r].behind \subseteq TeamFields
    BY <1>1 DEF TeamWrite
  <2>2. IsProject(project)
    BY <1>5 DEF TeamInv, TeamTyped, Team!There, Team!NoRow
  <2>3. /\ project' = next
        /\ history' = (IF Team!Transition(form, req[r].status) THEN Append(history, form.status) ELSE history)
        /\ raced' = raced \union (req[r].behind \intersect Team!ReliesOn(form))
        /\ req' = [q \in Callers |-> IF q # r THEN Team!Overtaken(req[q], form) ELSE rec]
    BY <1>5 DEF Team!Write
  <2>4. IsProject(project') /\ Team!There'
    BY <2>1, <2>2, <2>3, MergedRow DEF IsProject, Team!There, TeamStatuses
  <2>5. rec \in TeamReq /\ rec.pc \in {"tell", "idle"} /\ next.client \in TeamClients
    BY <1>3, <2>1, <2>3, <2>4 DEF TeamReq, TeamTell, IsProject
  <2>6. ASSUME NEW q \in Callers
        PROVE  /\ req'[q] \in TeamReq
               /\ TeamKnows(req[q])'
               /\ q # r => req'[q].pc = req[q].pc /\ (req[q].pc \in {"seed", "tell"} => req'[q] = req[q])
    <3> PICK u : u = req'[q]
      OBVIOUS
    <3>1. CASE q = r
      <4>1. TeamKnows(rec)'
        BY <2>5 DEF TeamKnows
      <4>2. u = rec
        BY <2>3, <3>1
      <4>3. TeamKnows(u)'
        BY <4>1, <4>2
      <4> QED BY <2>5, <3>1, <4>2, <4>3
    <3>2. CASE q # r
      <4>1. u = Team!Overtaken(req[q], form) /\ req[q] \in TeamReq /\ TeamKnows(req[q])
        BY <2>3, <3>2 DEF TeamInv, TeamTyped
      <4> PICK v : v = req[q]
        OBVIOUS
      <4>2. v \in TeamReq /\ TeamKnows(v) /\ u = Team!Overtaken(v, form)
        BY <4>1
      <4>3. /\ Team!Overtaken(v, form) \in TeamReq /\ Team!Overtaken(v, form).pc = v.pc
            /\ v.pc \in {"seed", "tell"} => Team!Overtaken(v, form) = v
            /\ TeamKnows(Team!Overtaken(v, form))'
        BY <1>1, <1>5, <2>1, <2>2, <2>3, <2>4, <4>2, OvertakenForm
      <4>4. TeamKnows(u)'
        BY <4>2, <4>3 DEF Team!Overtaken
      <4> QED BY <4>2, <4>3, <4>4
    <3> QED BY <3>1, <3>2
  <2>7. req'[r] = rec
    BY <2>3
  <2>8. /\ "status" \in DOMAIN form => project'.status = form.status /\ form.status \in TeamStatuses
        /\ "status" \notin DOMAIN form => project'.status = project.status
        /\ "client" \notin DOMAIN form => project'.client = project.client
        /\ "start" \notin DOMAIN form => project'.start = project.start
        /\ "end" \notin DOMAIN form => project'.end = project.end
    <3>1. "status" \in DOMAIN form => form["status"] \in TeamStatuses
      BY <2>1 DEF TeamLimits
    <3> QED BY <2>1, <2>2, <2>3, <3>1, MergedRow
  <2>9. TeamTyped'
    <3>1. req' \in [Callers -> TeamReq]
      <4>1. DOMAIN req' = Callers /\ req' = [q \in Callers |-> req'[q]]
        BY <2>3
      <4> QED BY <2>6, <4>1
    <3>2. history' \in Seq(TeamStatuses)
      <4>1. history \in Seq(TeamStatuses)
        BY DEF TeamInv, TeamTyped
      <4>2. Team!Transition(form, req[r].status) => form.status \in TeamStatuses
        BY <2>8 DEF Team!Transition, Team!Carries
      <4> QED BY <2>3, <4>1, <4>2
    <3>3. raced' \in SUBSET TeamFields
      BY <2>1, <2>3 DEF TeamInv, TeamTyped
    <3> QED BY <1>1, <1>2, <2>4, <3>1, <3>2, <3>3 DEF TeamInv, TeamTyped
  <2>10. Creating' = Creating
    BY <1>1, <2>5, <2>6, <2>7 DEF Creating
  <2>11. HistoryInv'
    <3>0. \A x, y \in Creating' : x = y
      BY <2>10 DEF TeamInv, HistoryInv
    <3> SUFFICES ASSUME ~crashed', "status" \notin raced'
                 PROVE  /\ NoRepeat'
                        /\ Len(history') > 0 => history'[Len(history')] = project'.status
                        /\ Creating' = {} => Len(history') > 0
                        /\ Creating' # {} => IF Len(history') = 0 THEN project'.status = "planned" ELSE history'[1] # "planned"
      BY <3>0 DEF HistoryInv
    <3>1. /\ history \in Seq(TeamStatuses) /\ Len(history) \in Nat
          /\ NoRepeat
          /\ Len(history) > 0 => history[Len(history)] = project.status
          /\ Creating = {} => Len(history) > 0
          /\ Creating # {} => IF Len(history) = 0 THEN project.status = "planned" ELSE history[1] # "planned"
      BY <1>1, <1>5, <2>3 DEF TeamInv, TeamTyped, HistoryInv
    <3>2. "status" \in DOMAIN form => req[r].status = project.status
      BY <1>1, <1>5, <2>3 DEF Team!ReliesOn, TeamKnows
    <3>3. CASE ~Team!Transition(form, req[r].status)
      <4>1. history' = history
        BY <2>3, <3>3
      <4>2. project'.status = project.status
        BY <2>8, <3>2, <3>3 DEF Team!Transition, Team!Carries
      <4> QED BY <2>10, <3>1, <4>1, <4>2 DEF NoRepeat
    <3>4. CASE Team!Transition(form, req[r].status)
      <4>1. history' = Append(history, form.status) /\ form.status # project.status /\ project'.status = form.status
        BY <2>3, <2>8, <3>2, <3>4 DEF Team!Transition, Team!Carries
      <4>2. /\ Len(history') = Len(history) + 1 /\ history'[Len(history) + 1] = form.status
            /\ \A i \in 1..Len(history) : history'[i] = history[i]
        BY <3>1, <4>1
      <4>3. ASSUME NEW i \in 1..(Len(history') - 1) PROVE history'[i] # history'[i + 1]
        <5>1. CASE i = Len(history)
          BY <3>1, <4>1, <4>2, <5>1
        <5>2. CASE i # Len(history)
          <6>1. i \in 1..(Len(history) - 1) /\ i \in 1..Len(history) /\ i + 1 \in 1..Len(history)
            BY <3>1, <4>2, <5>2
          <6>2. history[i] # history[i + 1]
            BY <3>1, <6>1 DEF NoRepeat
          <6> QED BY <4>2, <6>1, <6>2
        <5> QED BY <5>1, <5>2
      <4>4. NoRepeat'
        BY <4>3 DEF NoRepeat
      <4>5. Creating' # {} => history'[1] # "planned"
        <5>1. CASE Len(history) = 0
          BY <2>10, <3>1, <4>1, <4>2, <5>1
        <5>2. CASE Len(history) # 0
          BY <2>10, <3>1, <4>2, <5>2
        <5> QED BY <5>1, <5>2
      <4> QED BY <3>1, <4>1, <4>2, <4>4, <4>5
    <3> QED BY <3>3, <3>4
  <2>12. Team!DatesOrdered'
    <3> SUFFICES ASSUME raced' \intersect {"start", "end"} = {} PROVE project'.start <= project'.end
      BY DEF Team!DatesOrdered
    <3>1. CASE Team!Carries(form, "start") \/ Team!Carries(form, "end")
      <4>1. req[r].behind \intersect {"start", "end"} = {}
        BY <2>3, <3>1 DEF Team!ReliesOn
      <4> QED BY <1>1, <1>5, <2>3, <4>1 DEF TeamKnows
    <3>2. CASE ~(Team!Carries(form, "start") \/ Team!Carries(form, "end"))
      BY <1>5, <2>3, <2>8, <3>2 DEF Team!Carries, TeamInv, Team!DatesOrdered
    <3> QED BY <3>1, <3>2
  <2>13. LinkedInv'
    <3> SUFFICES ASSUME NEW d \in Team!Clients, ~crashed', "client" \notin raced'
                 PROVE  linked'[d] = (IF project'.client = d THEN 1 ELSE 0) - Cardinality(Gains(d)') + Cardinality(Loses(d)')
      BY DEF LinkedInv
    <3>1. linked[d] = (IF project.client = d THEN 1 ELSE 0) - Cardinality(Gains(d)) + Cardinality(Loses(d))
      BY <1>1, <1>5, <2>3 DEF TeamInv, LinkedInv
    <3>2. /\ Cardinality(Gains(d)) \in Int /\ Cardinality(Loses(d)) \in Int
          /\ Cardinality(Gains(d)') = Cardinality(Gains(d)) + TellsNew(req'[r], d) - TellsNew(req[r], d)
          /\ Cardinality(Loses(d)') = Cardinality(Loses(d)) + TellsOld(req'[r], d) - TellsOld(req[r], d)
      BY <2>6, EventsMove
    <3>3. TellsNew(req[r], d) = 0 /\ TellsOld(req[r], d) = 0
      BY <1>1 DEF TellsNew, TellsOld
    <3>4. CASE Team!Carries(form, "client")
      <4>1. req[r].client = project.client
        BY <1>1, <1>5, <2>3, <3>4 DEF Team!ReliesOn, Team!Carries, TeamKnows
      <4>2. /\ TellsNew(req'[r], d) = (IF project'.client = d THEN 1 ELSE 0)
            /\ TellsOld(req'[r], d) = (IF project.client = d THEN 1 ELSE 0)
        BY <2>3, <2>7, <3>4, <4>1 DEF TellsNew, TellsOld
      <4> QED BY <1>1, <3>1, <3>2, <3>3, <4>2
    <3>5. CASE ~Team!Carries(form, "client")
      <4>1. TellsNew(req'[r], d) = 0 /\ TellsOld(req'[r], d) = 0 /\ project'.client = project.client
        BY <1>3, <2>7, <2>8, <3>5 DEF TellsNew, TellsOld, Team!Carries
      <4> QED BY <1>1, <3>1, <3>2, <3>3, <4>1
    <3> QED BY <3>4, <3>5
  <2>14. Team!PaymentsCounted'
    BY <1>1 DEF TeamInv, Team!PaymentsCounted
  <2> QED BY <2>6, <2>9, <2>11, <2>12, <2>13, <2>14 DEF TeamInv
<1> QED BY <1>4, <1>5

\* The invariant depends on the variables of the component only.
LEMMA TeamStutters == ASSUME TeamInv, UNCHANGED Team!vars PROVE TeamInv'
<1>1. UNCHANGED <<project, history, linked, payments, req, begun, crashed, raced, wiped>>
  BY DEF Team!vars
<1>2. TeamTyped'
  BY <1>1 DEF TeamInv, TeamTyped
<1>3. \A r \in Callers : TeamKnows(req[r])'
  BY <1>1 DEF TeamInv, TeamKnows, Team!There
<1>4. Creating' = Creating /\ \A c : Gains(c)' = Gains(c) /\ Loses(c)' = Loses(c)
  BY <1>1 DEF Creating, Gains, Loses
<1>5. HistoryInv' /\ Team!DatesOrdered' /\ Team!PaymentsCounted'
  BY <1>1, <1>4 DEF TeamInv, HistoryInv, NoRepeat, Team!DatesOrdered, Team!PaymentsCounted, Team!There
<1>6. LinkedInv'
  BY <1>1, <1>4 DEF TeamInv, LinkedInv, Team!There
<1> QED BY <1>2, <1>3, <1>5, <1>6 DEF TeamInv

\* The invariant is inductive.
LEMMA TeamStep == ASSUME TeamLimits, TeamInv, [Team!Next]_(Team!vars) PROVE TeamInv'
<1>1. Team!Clients \union {"none"} = TeamClients
  BY DEF TeamClients
<1>2. CASE Team!Next
  BY <1>1, <1>2, TeamCreates, TeamBegins, TeamSeeds, TeamReads, TeamWrites, TeamTells, TeamDeletes, TeamMeanwhile DEF Team!Next
<1>3. CASE UNCHANGED Team!vars
  BY <1>3, TeamStutters
<1> QED BY <1>2, <1>3

\* The invariant gives the property the run checks.
LEMMA TeamSound == ASSUME TeamLimits, TeamInv PROVE Team!ProjectSound /\ Team!TypeOK
<1>1. Team!HistoryIsStatus
  <2> SUFFICES ASSUME Team!There, ~crashed, "status" \notin raced, \A r \in Callers : req[r].pc # "seed"
               PROVE  Team!Last(history) = project.status /\ NoRepeat
    BY DEF Team!HistoryIsStatus, NoRepeat
  <2>1. Creating = {}
    BY DEF Creating
  <2> QED BY <2>1 DEF TeamInv, HistoryInv, Team!Last
<1>2. Team!TimelineTellsClient
  <2> SUFFICES ASSUME Team!There, ~crashed, "client" \notin raced, \A r \in Callers : req[r].pc = "idle", NEW c \in Team!Clients
               PROVE  linked[c] = IF project.client = c THEN 1 ELSE 0
    BY DEF Team!TimelineTellsClient
  <2>1. Gains(c) = {} /\ Loses(c) = {}
    BY DEF Gains, Loses
  <2>2. Cardinality(Gains(c)) = 0 /\ Cardinality(Loses(c)) = 0
    BY <2>1, FS_EmptySet
  <2> QED BY <2>2 DEF TeamInv, LinkedInv
<1>3. Team!TypeOK
  <2>1. project = Team!NoRow \/ DOMAIN project = DOMAIN Team!Blank
    BY DEF TeamInv, TeamTyped, IsProject, Team!Blank, TeamFields
  <2>2. raced \subseteq DOMAIN Team!Blank
    BY DEF TeamInv, TeamTyped, Team!Blank, TeamFields
  <2> QED BY <2>1, <2>2 DEF TeamInv, TeamTyped, Team!TypeOK, TeamStatuses
<1> QED BY <1>1, <1>2, <1>3 DEF Team!ProjectSound, TeamInv

ReviewRow == [result : {"none", "INCREASED", "NO_CHANGE", "POSTPONED"}, rate : 0..2, date : 0..2]
RateRow == [note : Salaries!Reviews, rate : 1..2, date : 1..2]
\* A form carries some of the columns.
SalaryLimits ==
    /\ ReviewRequests \in Nat
    /\ \A f \in ReviewForms :
          /\ "result" \in DOMAIN f => f["result"] \in {"none", "INCREASED", "NO_CHANGE", "POSTPONED"}
          /\ "rate" \in DOMAIN f => f["rate"] \in 0..2
          /\ "date" \in DOMAIN f => f["date"] \in 0..2

SalaryWrite == [pc : {"write"}, id : Salaries!Reviews, form : ReviewForms, next : ReviewRow, stale : BOOLEAN]
SalaryDrop == [pc : {"drop"}, id : Salaries!Reviews, took : SUBSET RateRow, stale : BOOLEAN]
SalaryPatch == [pc : {"patch"}, id : {Salaries!Person}, was : {"ACTIVE", "TERMINATED"}, to : {"ACTIVE", "TERMINATED"},
                stale : BOOLEAN]

SalaryTyped ==
    /\ review \in [Salaries!Reviews -> ReviewRow \union {Salaries!NoRow}]
    /\ rates \in SUBSET RateRow
    /\ employee \in [status : {"ACTIVE", "TERMINATED", "gone"}, stamped : BOOLEAN]
    /\ req \in [Callers -> {Salaries!Idle} \union SalaryWrite \union SalaryDrop \union SalaryPatch]
    /\ raced \in SUBSET (Salaries!Reviews \union {Salaries!Person}) /\ deleted \in SUBSET Salaries!Reviews

\* What is gone never comes back, and nobody else's rates stay where no review was.
GoneForGood ==
    /\ \A i \in Salaries!Reviews : Salaries!Written(i) => i \notin deleted /\ Salaries!Hired
    /\ \A i \in Salaries!Reviews : ~Salaries!Written(i) /\ i \notin deleted => Salaries!Of(i) = {}

\* A request that nobody overtook still knows the row it read.
Knows(q) ==
    /\ q.pc = "write" =>
          /\ ~Salaries!Rejected(q.next)
          /\ Salaries!Written(q.id) \/ q.id \in deleted \/ ~Salaries!Hired
          /\ Salaries!Written(q.id) /\ ~q.stale => q.next = Salaries!Resulting(review[q.id], q.form)
    /\ q.pc = "drop" =>
          /\ Salaries!Written(q.id) \/ q.id \in deleted \/ ~Salaries!Hired
          /\ Salaries!Written(q.id) /\ ~q.stale => q.took = Salaries!Of(q.id)
          /\ \A x \in q.took : x.note = q.id
    /\ q.pc = "patch" => (Salaries!Hired /\ ~q.stale => q.was = employee.status)

SalaryInv ==
    /\ SalaryTyped /\ GoneForGood
    /\ \A r \in Callers : Knows(req[r])
    /\ Salaries!RateFollowsReview /\ Salaries!OneRate /\ Salaries!StampedOnce

\* With no review, no rate and no request the invariant holds.
LEMMA SalaryInit == ASSUME SalaryLimits PROVE Salaries!Init => SalaryInv
<1> SUFFICES ASSUME Salaries!Init PROVE SalaryInv
  OBVIOUS
<1>1. SalaryTyped
  BY DEF Salaries!Init, SalaryTyped
<1>2. \A i \in Salaries!Reviews : review[i] = Salaries!NoRow /\ review[i].result = "gone" /\ Salaries!Of(i) = {}
  BY DEF Salaries!Init, Salaries!NoRow, Salaries!Of
<1>3. GoneForGood /\ Salaries!RateFollowsReview /\ Salaries!OneRate
  BY <1>2 DEF GoneForGood, Salaries!RateFollowsReview, Salaries!OneRate, Salaries!Written
<1>4. Salaries!StampedOnce
  BY DEF Salaries!Init, Salaries!StampedOnce
<1>5. \A r \in Callers : Knows(req[r])
  BY DEF Salaries!Init, Knows, Salaries!Idle
<1> QED BY <1>1, <1>3, <1>4, <1>5 DEF SalaryInv

\* Of a row and a form: what is stored, and what the update works out.
LEMMA StoredRow ==
    ASSUME SalaryLimits, NEW own \in ReviewRow, NEW f \in ReviewForms
    PROVE  /\ Salaries!Stored(own, f) \in ReviewRow /\ Salaries!Resulting(own, f) \in ReviewRow
           /\ Salaries!Stored(own, f).result # "none" => Salaries!Resulting(own, f).result = Salaries!Stored(own, f).result
           /\ Salaries!Stored(own, f).rate # 0 => Salaries!Resulting(own, f).rate = Salaries!Stored(own, f).rate
           /\ Salaries!Resulting(own, f).date = Salaries!Stored(own, f).date
<1> DEFINE s == Salaries!Stored(own, f)
           n == Salaries!Resulting(own, f)
<1>1. DOMAIN own = {"result", "rate", "date"}
  BY DEF ReviewRow
<1>2. /\ s.result = IF "result" \in DOMAIN f THEN f["result"] ELSE own.result
      /\ s.rate = IF "rate" \in DOMAIN f THEN f["rate"] ELSE own.rate
      /\ s.date = IF "date" \in DOMAIN f THEN f["date"] ELSE own.date
  BY <1>1 DEF Salaries!Stored, Salaries!Carries
<1>3. s = [result |-> s.result, rate |-> s.rate, date |-> s.date]
  BY <1>1 DEF Salaries!Stored
<1>4. /\ own.result \in {"none", "INCREASED", "NO_CHANGE", "POSTPONED"} /\ own.rate \in 0..2 /\ own.date \in 0..2
  BY DEF ReviewRow
<1>5. /\ s.result \in {"none", "INCREASED", "NO_CHANGE", "POSTPONED"} /\ s.rate \in 0..2 /\ s.date \in 0..2
  BY <1>2, <1>4 DEF SalaryLimits
<1>6. /\ n.result = IF "result" \in DOMAIN f /\ f["result"] # "none" THEN f["result"] ELSE own.result
      /\ n.rate = IF "rate" \in DOMAIN f /\ f["rate"] # 0 THEN f["rate"] ELSE own.rate
      /\ n.date = s.date
      /\ n = [result |-> n.result, rate |-> n.rate, date |-> n.date]
  BY DEF Salaries!Resulting, Salaries!Carries
<1>7. /\ n.result \in {"none", "INCREASED", "NO_CHANGE", "POSTPONED"} /\ n.rate \in 0..2 /\ n.date \in 0..2
  BY <1>4, <1>5, <1>6 DEF SalaryLimits
<1> HIDE DEF s, n
<1>8. s \in ReviewRow /\ n \in ReviewRow
  BY <1>3, <1>5, <1>6, <1>7 DEF ReviewRow
<1>9. /\ s.result # "none" => n.result = s.result
      /\ s.rate # 0 => n.rate = s.rate
  BY <1>2, <1>6
<1> QED BY <1>6, <1>8, <1>9 DEF s, n

SalaryReq == {Salaries!Idle} \union SalaryWrite \union SalaryDrop \union SalaryPatch

\* A request overtaken by another keeps all but its claim to be fresh.
LEMMA OvertakenSays ==
    ASSUME NEW q \in SalaryReq, NEW id, NEW o, o = Salaries!Overtaken(q, id)
    PROVE  /\ o \in SalaryReq /\ o.pc = q.pc
           /\ q.pc = "idle" => o = q
           /\ q.pc # "idle" => o.id = q.id /\ (~o.stale => ~q.stale /\ q.id # id)
           /\ q.pc = "write" => o.form = q.form /\ o.next = q.next
           /\ q.pc = "drop" => o.took = q.took
           /\ q.pc = "patch" => o.was = q.was /\ o.to = q.to
<1>1. CASE q = Salaries!Idle
  BY <1>1 DEF Salaries!Idle, Salaries!Overtaken
<1>2. CASE q \in SalaryWrite
  BY <1>2 DEF SalaryWrite, Salaries!Overtaken, SalaryReq
<1>3. CASE q \in SalaryDrop
  BY <1>3 DEF SalaryDrop, Salaries!Overtaken, SalaryReq
<1>4. CASE q \in SalaryPatch
  BY <1>4 DEF SalaryPatch, Salaries!Overtaken, SalaryReq
<1> QED BY <1>1, <1>2, <1>3, <1>4 DEF SalaryReq

\* What a request knows outlives a step that takes its row away or tells it so.
LEMMA KnowsKept ==
    ASSUME NEW q, NEW o, Knows(q), o.pc = q.pc, q.pc # "idle" => o.id = q.id,
           q.pc = "write" => o.form = q.form /\ o.next = q.next,
           q.pc = "drop" => o.took = q.took,
           q.pc = "patch" => o.was = q.was,
           q.pc \in {"write", "drop"} =>
              /\ q.id \in deleted \/ ~Salaries!Hired => q.id \in deleted' \/ ~Salaries!Hired'
              /\ Salaries!Written(q.id) /\ ~Salaries!Written(q.id)' => q.id \in deleted' \/ ~Salaries!Hired'
              /\ Salaries!Written(q.id)' => Salaries!Written(q.id)
              /\ Salaries!Written(q.id)' /\ ~o.stale => ~q.stale /\ review'[q.id] = review[q.id] /\ Salaries!Of(q.id)' = Salaries!Of(q.id),
           q.pc = "patch" => (Salaries!Hired' /\ ~o.stale => Salaries!Hired /\ ~q.stale /\ employee'.status = employee.status)
    PROVE  Knows(o)'
<1>1. q.pc = "write" => Knows(o)'
  BY DEF Knows
<1>2. q.pc = "drop" => Knows(o)'
  BY DEF Knows
<1>3. q.pc = "patch" => Knows(o)'
  BY DEF Knows
<1> QED BY <1>1, <1>2, <1>3 DEF Knows

\* A new rate of a raise takes the place of all others of its review.
LEMMA RatesOf ==
    ASSUME SalaryTyped, NEW i \in Salaries!Reviews, NEW n \in ReviewRow, ~Salaries!Rejected(n), rates' = Salaries!Rewired(i, n)
    PROVE  /\ rates' \in SUBSET RateRow
           /\ Salaries!Of(i)' = IF n.result = "INCREASED" THEN {Salaries!RateOf(i, n)} ELSE {}
           /\ \A j \in Salaries!Reviews \ {i} : Salaries!Of(j)' = Salaries!Of(j)
<1>1. n.result = "INCREASED" => Salaries!RateOf(i, n) \in RateRow /\ Salaries!RateOf(i, n).note = i
  BY DEF Salaries!Rejected, Salaries!Complete, ReviewRow, RateRow, Salaries!RateOf
<1>2. Salaries!RateOf(i, n).note = i
  BY DEF Salaries!RateOf
<1> QED BY <1>1, <1>2 DEF Salaries!Rewired, Salaries!Of, SalaryTyped

\* A created raise comes with its rate, in one transaction.
LEMMA CreateKeeps ==
    ASSUME SalaryLimits, SalaryInv, NEW r \in Callers, NEW i \in Salaries!Reviews, NEW f \in ReviewForms, Salaries!Create(r, i, f)
    PROVE  SalaryInv'
<1> DEFINE own == Salaries!Stored(Salaries!Blank, f)
<1>1. Salaries!Blank \in ReviewRow
  BY DEF Salaries!Blank, ReviewRow
<1>2. own \in ReviewRow
  BY <1>1, StoredRow
<1>3. UNCHANGED <<employee, req, raced, deleted>> /\ ~Salaries!Written(i) /\ i \notin deleted /\ Salaries!Hired
  BY DEF Salaries!Create
<1>4. CASE Salaries!Rejected(own)
  <2>1. UNCHANGED <<review, rates>>
    BY <1>4 DEF Salaries!Create
  <2> QED BY <1>3, <2>1 DEF SalaryInv, SalaryTyped, GoneForGood, Knows, Salaries!RateFollowsReview, Salaries!OneRate, Salaries!StampedOnce,
                            Salaries!Written, Salaries!Hired, Salaries!Of
<1>5. CASE ~Salaries!Rejected(own)
  <2>1. review' = [review EXCEPT ![i] = own]
        /\ rates' = rates \union (IF own.result = "INCREASED" THEN {Salaries!RateOf(i, own)} ELSE {})
    BY <1>5 DEF Salaries!Create
  <2> HIDE DEF own
  <2>2. Salaries!Of(i) = {}
    BY <1>3 DEF SalaryInv, GoneForGood
  <2>3. rates' = Salaries!Rewired(i, own)
    BY <2>1, <2>2 DEF Salaries!Rewired
  <2>4. /\ rates' \in SUBSET RateRow
        /\ Salaries!Of(i)' = IF own.result = "INCREASED" THEN {Salaries!RateOf(i, own)} ELSE {}
        /\ \A j \in Salaries!Reviews \ {i} : Salaries!Of(j)' = Salaries!Of(j)
    BY <1>2, <1>5, <2>3, RatesOf DEF SalaryInv
  <2>5. \A j \in Salaries!Reviews : review'[j] = IF j = i THEN own ELSE review[j]
    BY <2>1 DEF SalaryInv, SalaryTyped
  <2>6. own.result # "gone"
    BY <1>2 DEF ReviewRow
  <2>7. SalaryTyped'
    BY <1>2, <1>3, <2>1, <2>4 DEF SalaryInv, SalaryTyped
  <2>8. GoneForGood'
    BY <1>3, <2>4, <2>5, <2>6 DEF SalaryInv, GoneForGood, Salaries!Written, Salaries!Hired
  <2>9. ASSUME NEW q \in Callers PROVE Knows(req[q])'
    <3>1. req[q].pc \in {"write", "drop"} => req[q].id # i
      BY <1>3 DEF SalaryInv, Knows
    <3>2. req[q].pc \in {"write", "drop"} => req[q].id \in Salaries!Reviews
      BY DEF SalaryInv, SalaryTyped, Salaries!Idle, SalaryWrite, SalaryDrop, SalaryPatch
    <3>3. PICK u : u = req[q]
      OBVIOUS
    <3>4. Knows(u)
      BY <3>3 DEF SalaryInv
    <3>5. u.pc \in {"write", "drop"} => u.id \in Salaries!Reviews \ {i}
      BY <3>1, <3>2, <3>3
    <3>6. \A j \in Salaries!Reviews \ {i} : review'[j] = review[j] /\ (Salaries!Written(j)' <=> Salaries!Written(j)) /\ Salaries!Of(j)' = Salaries!Of(j)
      BY <2>4, <2>5 DEF Salaries!Written
    <3>7. Salaries!Hired' <=> Salaries!Hired
      BY <1>3 DEF Salaries!Hired
    <3>8. Knows(u)'
      BY <1>3, <3>4, <3>5, <3>6, <3>7, KnowsKept
    <3> QED BY <1>3, <3>3, <3>8 DEF Knows
  <2>10. Salaries!RateFollowsReview'
    BY <1>3, <2>4, <2>5, <2>6 DEF SalaryInv, Salaries!RateFollowsReview, Salaries!RateOf, Salaries!Complete
  <2>11. Salaries!OneRate' /\ Salaries!StampedOnce'
    BY <1>3, <2>4 DEF SalaryInv, Salaries!OneRate, Salaries!StampedOnce
  <2> QED BY <2>7, <2>8, <2>9, <2>10, <2>11 DEF SalaryInv
<1> QED BY <1>4, <1>5

\* Reading a review or the employee changes no row.
LEMMA SalaryBegins ==
    ASSUME SalaryLimits, SalaryInv, NEW r \in Callers,
           \/ \E i \in Salaries!Reviews : Salaries!RemoveBegins(r, i) \/ \E f \in ReviewForms : Salaries!UpdateBegins(r, i, f)
           \/ \E s \in {"ACTIVE", "TERMINATED"} : Salaries!PatchBegins(r, s)
    PROVE  SalaryInv'
<1>1. UNCHANGED <<review, rates, employee, raced, deleted>>
  BY DEF Salaries!RemoveBegins, Salaries!UpdateBegins, Salaries!PatchBegins
<1>2. \A q : Knows(q)' <=> Knows(q)
  BY <1>1 DEF Knows, Salaries!Written, Salaries!Hired, Salaries!Of
<1>3. ASSUME NEW rec, Salaries!Goto(r, rec), rec \in SalaryReq, Knows(rec) PROVE SalaryInv'
  <2>1. \A q \in Callers : req'[q] = IF q = r THEN rec ELSE req[q]
    BY <1>3 DEF Salaries!Goto, SalaryInv, SalaryTyped
  <2>2. SalaryTyped'
    BY <1>1, <1>3 DEF SalaryInv, SalaryTyped, Salaries!Goto, SalaryReq
  <2>3. ASSUME NEW q \in Callers PROVE Knows(req[q])'
    <3>1. PICK u : u = req'[q]
      OBVIOUS
    <3>2. Knows(u)
      BY <1>3, <2>1, <3>1 DEF SalaryInv
    <3>3. Knows(u)'
      BY <1>2, <3>2
    <3> QED BY <3>1, <3>3
  <2>4. GoneForGood' /\ Salaries!RateFollowsReview' /\ Salaries!OneRate' /\ Salaries!StampedOnce'
    BY <1>1 DEF SalaryInv, GoneForGood, Salaries!RateFollowsReview, Salaries!OneRate, Salaries!StampedOnce, Salaries!Written, Salaries!Hired, Salaries!Of
  <2> QED BY <2>2, <2>3, <2>4 DEF SalaryInv
<1>4. ASSUME NEW i \in Salaries!Reviews, Salaries!RemoveBegins(r, i) PROVE SalaryInv'
  <2> DEFINE rec == [pc |-> "drop", id |-> i, took |-> Salaries!Of(i), stale |-> FALSE]
  <2>1. rec \in SalaryReq
    BY DEF SalaryInv, SalaryTyped, SalaryReq, SalaryDrop, Salaries!Of
  <2>2. Knows(rec)
    BY <1>4 DEF Salaries!RemoveBegins, Knows, Salaries!Of
  <2> QED BY <1>3, <1>4, <2>1, <2>2 DEF Salaries!RemoveBegins
<1>5. ASSUME NEW i \in Salaries!Reviews, NEW f \in ReviewForms, Salaries!UpdateBegins(r, i, f) PROVE SalaryInv'
  <2> DEFINE n == Salaries!Resulting(review[i], f)
             rec == [pc |-> "write", id |-> i, form |-> f, next |-> n, stale |-> FALSE]
  <2>1. Salaries!Written(i)
    BY <1>5 DEF Salaries!UpdateBegins
  <2>2. review[i] \in ReviewRow
    BY <2>1 DEF SalaryInv, SalaryTyped, Salaries!Written, Salaries!NoRow
  <2>3. n \in ReviewRow
    BY <2>2, StoredRow
  <2>4. Salaries!Goto(r, IF Salaries!Rejected(n) THEN Salaries!Idle ELSE rec)
    BY <1>5 DEF Salaries!UpdateBegins
  <2>5. CASE Salaries!Rejected(n)
    BY <1>3, <2>4, <2>5 DEF SalaryReq, Knows, Salaries!Idle
  <2>6. CASE ~Salaries!Rejected(n)
    <3>1. rec \in SalaryReq
      BY <2>3 DEF SalaryReq, SalaryWrite
    <3>2. rec.pc = "write" /\ rec.id = i /\ rec.form = f /\ rec.next = n
      OBVIOUS
    <3>3. Salaries!Goto(r, rec)
      BY <2>4, <2>6
    <3> HIDE DEF rec
    <3>4. Knows(rec)
      BY <2>1, <2>6, <3>2 DEF Knows
    <3> QED BY <1>3, <3>1, <3>3, <3>4
  <2> QED BY <2>5, <2>6
<1>6. ASSUME NEW s \in {"ACTIVE", "TERMINATED"}, Salaries!PatchBegins(r, s) PROVE SalaryInv'
  <2> DEFINE rec == [pc |-> "patch", id |-> Salaries!Person, was |-> employee.status, to |-> s, stale |-> FALSE]
  <2>1. rec \in SalaryReq
    BY <1>6 DEF Salaries!PatchBegins, Salaries!Hired, SalaryInv, SalaryTyped, SalaryReq, SalaryPatch
  <2>2. Knows(rec)
    BY DEF Knows
  <2> QED BY <1>3, <1>6, <2>1, <2>2 DEF Salaries!PatchBegins
<1> QED BY <1>4, <1>5, <1>6

\* What a request remembers at each of its steps.
LEMMA SalaryKinds ==
    ASSUME SalaryTyped, NEW r \in Callers
    PROVE  /\ req[r] \in SalaryReq /\ Salaries!Idle.pc = "idle"
           /\ req[r].pc = "write" => req[r] \in SalaryWrite
           /\ req[r].pc = "drop" => req[r] \in SalaryDrop
           /\ req[r].pc = "patch" => req[r] \in SalaryPatch
BY DEF SalaryTyped, SalaryReq, Salaries!Idle, SalaryWrite, SalaryDrop, SalaryPatch

\* A request that ends without a write.
LEMMA SalaryIdles ==
    ASSUME SalaryInv, NEW r \in Callers, Salaries!Goto(r, Salaries!Idle), UNCHANGED <<review, rates, employee, raced, deleted>>
    PROVE  SalaryInv'
<1>1. \A q : Knows(q)' <=> Knows(q)
  BY DEF Knows, Salaries!Written, Salaries!Hired, Salaries!Of
<1>2. Knows(Salaries!Idle)
  BY DEF Knows, Salaries!Idle
<1>3. ASSUME NEW q \in Callers PROVE Knows(req[q])'
  <2>1. PICK u : u = req'[q]
    OBVIOUS
  <2>2. Knows(u)
    BY <1>2, <2>1 DEF SalaryInv, SalaryTyped, Salaries!Goto
  <2>3. Knows(u)'
    BY <1>1, <2>2
  <2> QED BY <2>1, <2>3
<1>4. SalaryTyped'
  BY DEF SalaryInv, SalaryTyped, Salaries!Goto
<1>5. GoneForGood' /\ Salaries!RateFollowsReview' /\ Salaries!OneRate' /\ Salaries!StampedOnce'
  BY DEF SalaryInv, GoneForGood, Salaries!RateFollowsReview, Salaries!OneRate, Salaries!StampedOnce, Salaries!Written, Salaries!Hired, Salaries!Of
<1> QED BY <1>3, <1>4, <1>5 DEF SalaryInv

\* An update writes the review and the rate that follows from it together.
LEMMA SalaryWrites ==
    ASSUME SalaryLimits, SalaryInv, NEW r \in Callers, Salaries!Write(r)
    PROVE  SalaryInv'
<1> PICK i, f, n : i = req[r].id /\ f = req[r].form /\ n = req[r].next
  OBVIOUS
<1>1. req[r].pc = "write" /\ UNCHANGED <<employee, deleted>>
  BY DEF Salaries!Write
<1>2. i \in Salaries!Reviews /\ f \in ReviewForms /\ n \in ReviewRow /\ Knows(req[r]) /\ ~Salaries!Rejected(n)
  BY <1>1, SalaryKinds DEF SalaryInv, SalaryWrite, Knows
<1>3. CASE Salaries!Goto(r, Salaries!Idle) /\ UNCHANGED <<review, rates, raced>>
  BY <1>1, <1>3, SalaryIdles
<1>4. CASE /\ Salaries!Written(i)
           /\ review' = [review EXCEPT ![i] = Salaries!Stored(review[i], f)]
           /\ rates' = Salaries!Rewired(i, n)
           /\ raced' = raced \union (IF req[r].stale THEN {i} ELSE {})
           /\ req' = [q \in Callers |-> IF q = r \/ q \in Salaries!Deadlock(i) THEN Salaries!Idle ELSE Salaries!Overtaken(req[q], i)]
  <2> PICK own : own = Salaries!Stored(review[i], f)
    OBVIOUS
  <2>1. review[i] \in ReviewRow
    BY <1>2, <1>4 DEF SalaryInv, SalaryTyped, Salaries!Written, Salaries!NoRow
  <2>2. own \in ReviewRow /\ own.result # "gone"
    <3>1. own \in ReviewRow
      BY <1>2, <2>1, StoredRow
    <3> QED BY <3>1 DEF ReviewRow
  <2>3. /\ rates' \in SUBSET RateRow
        /\ Salaries!Of(i)' = IF n.result = "INCREASED" THEN {Salaries!RateOf(i, n)} ELSE {}
        /\ \A j \in Salaries!Reviews \ {i} : Salaries!Of(j)' = Salaries!Of(j)
    BY <1>2, <1>4, RatesOf DEF SalaryInv
  <2>4. \A j \in Salaries!Reviews : review'[j] = IF j = i THEN own ELSE review[j]
    BY <1>4 DEF SalaryInv, SalaryTyped
  <2>5. \A q \in Callers : req'[q] = Salaries!Idle \/ req'[q] = Salaries!Overtaken(req[q], i)
    BY <1>4
  <2>6. SalaryTyped'
    <3>1. \A q \in Callers : req'[q] \in SalaryReq
      BY <2>5, OvertakenSays, SalaryKinds DEF SalaryInv, SalaryReq
    <3>2. req' \in [Callers -> SalaryReq]
      BY <1>4, <3>1
    <3>3. review' \in [Salaries!Reviews -> ReviewRow \union {Salaries!NoRow}]
      BY <1>4, <2>2 DEF SalaryInv, SalaryTyped
    <3>4. raced' \in SUBSET (Salaries!Reviews \union {Salaries!Person})
      BY <1>2, <1>4 DEF SalaryInv, SalaryTyped
    <3> QED BY <1>1, <2>3, <3>2, <3>3, <3>4 DEF SalaryInv, SalaryTyped, SalaryReq
  <2>7. GoneForGood'
    BY <1>1, <1>2, <1>4, <2>2, <2>3, <2>4 DEF SalaryInv, GoneForGood, Salaries!Written, Salaries!Hired
  <2>8. ASSUME NEW q \in Callers PROVE Knows(req[q])'
    <3> PICK u, o : u = req[q] /\ o = req'[q]
      OBVIOUS
    <3>1. CASE o = Salaries!Idle
      <4>1. Knows(o)'
        BY <3>1 DEF Knows, Salaries!Idle
      <4> QED BY <4>1
    <3>2. CASE o = Salaries!Overtaken(u, i)
      <4>1. u \in SalaryReq /\ Knows(u)
        BY SalaryKinds DEF SalaryInv
      <4>2. u.pc \in {"write", "drop"} => u.id \in Salaries!Reviews
        BY SalaryKinds DEF SalaryInv, SalaryWrite, SalaryDrop
      <4>3. /\ o.pc = u.pc
            /\ u.pc # "idle" => o.id = u.id /\ (~o.stale => ~u.stale /\ u.id # i)
            /\ u.pc = "write" => o.form = u.form /\ o.next = u.next
            /\ u.pc = "drop" => o.took = u.took
            /\ u.pc = "patch" => o.was = u.was
        BY <3>2, <4>1, OvertakenSays
      <4>4. \A j \in Salaries!Reviews : /\ Salaries!Written(j)' <=> Salaries!Written(j)
                                        /\ j # i => review'[j] = review[j] /\ Salaries!Of(j)' = Salaries!Of(j)
        BY <1>2, <1>4, <2>2, <2>3, <2>4 DEF Salaries!Written
      <4>5. Salaries!Hired' <=> Salaries!Hired
        BY <1>1 DEF Salaries!Hired
      <4>6. Knows(o)'
        BY <1>1, <4>1, <4>2, <4>3, <4>4, <4>5, KnowsKept
      <4> QED BY <4>6
    <3> QED BY <2>5, <3>1, <3>2
  <2>9. Salaries!RateFollowsReview'
    <3> SUFFICES ASSUME NEW j \in Salaries!Reviews, j \notin raced'
                 PROVE  /\ review'[j].result = "INCREASED" /\ Salaries!Complete(review'[j]) => Salaries!Of(j)' = {Salaries!RateOf(j, review'[j])}
                        /\ review'[j].result \in {"NO_CHANGE", "POSTPONED", "gone"} => Salaries!Of(j)' = {}
      BY DEF Salaries!RateFollowsReview, Salaries!RateOf, Salaries!Complete
    <3>1. CASE j # i
      BY <1>4, <2>3, <2>4, <3>1 DEF SalaryInv, Salaries!RateFollowsReview, Salaries!RateOf, Salaries!Complete
    <3>2. CASE j = i
      <4>1. n = Salaries!Resulting(review[i], f)
        BY <1>1, <1>2, <1>4, <3>2 DEF Knows
      <4>2. /\ own.result # "none" => n.result = own.result
            /\ own.rate # 0 => n.rate = own.rate
            /\ n.date = own.date
        <5>1. /\ Salaries!Stored(review[i], f).result # "none" => Salaries!Resulting(review[i], f).result = Salaries!Stored(review[i], f).result
              /\ Salaries!Stored(review[i], f).rate # 0 => Salaries!Resulting(review[i], f).rate = Salaries!Stored(review[i], f).rate
              /\ Salaries!Resulting(review[i], f).date = Salaries!Stored(review[i], f).date
          BY <1>2, <2>1, StoredRow
        <5> QED BY <4>1, <5>1
      <4>3. review'[j] = own
        BY <2>4, <3>2
      <4>4. own.result = "INCREASED" /\ Salaries!Complete(own) => n.result = "INCREASED" /\ Salaries!RateOf(i, n) = Salaries!RateOf(i, own)
        BY <4>2 DEF Salaries!Complete, Salaries!RateOf
      <4> QED BY <2>2, <2>3, <3>2, <4>2, <4>3, <4>4
    <3> QED BY <3>1, <3>2
  <2>10. Salaries!OneRate' /\ Salaries!StampedOnce'
    BY <1>1, <1>2, <1>4, <2>3 DEF SalaryInv, Salaries!OneRate, Salaries!StampedOnce, Salaries!Person, Salaries!Reviews
  <2> QED BY <2>6, <2>7, <2>8, <2>9, <2>10 DEF SalaryInv
<1> QED BY <1>3, <1>4 DEF Salaries!Write

\* A removal takes the rate it knew of.
LEMMA SalaryDrops ==
    ASSUME SalaryLimits, SalaryInv, NEW r \in Callers, Salaries!Drop(r)
    PROVE  SalaryInv'
<1> PICK i, took : i = req[r].id /\ took = req[r].took
  OBVIOUS
<1>1. req[r].pc = "drop" /\ Salaries!Goto(r, Salaries!Idle) /\ UNCHANGED employee
  BY DEF Salaries!Drop
<1>2. i \in Salaries!Reviews /\ Knows(req[r])
  BY <1>1, SalaryKinds DEF SalaryInv, SalaryDrop
<1>3. CASE ~Salaries!Written(i)
  BY <1>1, <1>3, SalaryIdles DEF Salaries!Drop
<1>4. CASE Salaries!Written(i)
  <2>1. /\ review' = [review EXCEPT ![i] = Salaries!NoRow]
        /\ rates' = rates \ took
        /\ deleted' = deleted \union {i}
        /\ raced' = raced \union (IF req[r].stale THEN {i} ELSE {})
    BY <1>4 DEF Salaries!Drop
  <2>2. took \subseteq RateRow
    BY <1>1, SalaryKinds DEF SalaryInv, SalaryDrop
  <2>3. ~req[r].stale => took = Salaries!Of(i)
    BY <1>1, <1>2, <1>4 DEF Knows
  <2>4. \A j \in Salaries!Reviews : review'[j] = IF j = i THEN Salaries!NoRow ELSE review[j]
    BY <2>1 DEF SalaryInv, SalaryTyped
  <2>5. Salaries!NoRow.result = "gone"
    BY DEF Salaries!NoRow
  <2>6. /\ Salaries!Of(i)' \subseteq Salaries!Of(i) /\ (~req[r].stale => Salaries!Of(i)' = {})
        /\ \A j \in Salaries!Reviews \ {i} : Salaries!Of(j)' = Salaries!Of(j)
    <3>1. \A x \in took : x.note = i
      BY <1>1, <1>2 DEF Knows
    <3> QED BY <2>1, <2>3, <3>1 DEF Salaries!Of
  <2>7. SalaryTyped'
    <3>1. /\ req' \in [Callers -> {Salaries!Idle} \union SalaryWrite \union SalaryDrop \union SalaryPatch]
          /\ review' \in [Salaries!Reviews -> ReviewRow \union {Salaries!NoRow}]
      BY <1>1, <1>2, <2>1 DEF Salaries!Goto, SalaryInv, SalaryTyped
    <3>2. /\ rates' \in SUBSET RateRow /\ deleted' \in SUBSET Salaries!Reviews
          /\ raced' \in SUBSET (Salaries!Reviews \union {Salaries!Person})
      BY <1>2, <2>1 DEF SalaryInv, SalaryTyped
    <3> QED BY <1>1, <3>1, <3>2 DEF SalaryInv, SalaryTyped
  <2>8. GoneForGood'
    BY <1>1, <1>2, <2>1, <2>4, <2>5, <2>6 DEF SalaryInv, GoneForGood, Salaries!Written, Salaries!Hired
  <2>9. ASSUME NEW q \in Callers PROVE Knows(req[q])'
    <3> PICK u, o : u = req[q] /\ o = req'[q]
      OBVIOUS
    <3>1. CASE q = r
      <4>1. o = Salaries!Idle
        BY <1>1, <3>1 DEF Salaries!Goto, SalaryInv, SalaryTyped
      <4>2. Knows(o)'
        BY <4>1 DEF Knows, Salaries!Idle
      <4> QED BY <4>2
    <3>2. CASE q # r
      <4>1. o = u
        BY <1>1, <3>2 DEF Salaries!Goto, SalaryInv, SalaryTyped
      <4>2. Knows(u)
        BY DEF SalaryInv
      <4>3. u.pc \in {"write", "drop"} => u.id \in Salaries!Reviews
        BY SalaryKinds DEF SalaryInv, SalaryWrite, SalaryDrop
      <4>4. \A j \in Salaries!Reviews : /\ Salaries!Written(j)' => Salaries!Written(j)
                                        /\ ~Salaries!Written(j)' /\ Salaries!Written(j) => j \in deleted'
                                        /\ Salaries!Written(j)' => review'[j] = review[j] /\ Salaries!Of(j)' = Salaries!Of(j)
        BY <1>2, <2>1, <2>4, <2>5, <2>6 DEF Salaries!Written
      <4>5. (Salaries!Hired' <=> Salaries!Hired) /\ deleted \subseteq deleted'
        BY <1>1, <2>1 DEF Salaries!Hired
      <4>6. Knows(o)'
        BY <1>1, <4>1, <4>2, <4>3, <4>4, <4>5, KnowsKept
      <4> QED BY <4>6
    <3> QED BY <3>1, <3>2
  <2>10. Salaries!RateFollowsReview'
    <3> SUFFICES ASSUME NEW j \in Salaries!Reviews, j \notin raced'
                 PROVE  /\ review'[j].result = "INCREASED" /\ Salaries!Complete(review'[j]) => Salaries!Of(j)' = {Salaries!RateOf(j, review'[j])}
                        /\ review'[j].result \in {"NO_CHANGE", "POSTPONED", "gone"} => Salaries!Of(j)' = {}
      BY DEF Salaries!RateFollowsReview, Salaries!RateOf, Salaries!Complete
    <3>1. CASE j # i
      BY <2>1, <2>4, <2>6, <3>1 DEF SalaryInv, Salaries!RateFollowsReview, Salaries!RateOf, Salaries!Complete
    <3>2. CASE j = i
      BY <2>1, <2>4, <2>5, <2>6, <3>2
    <3> QED BY <3>1, <3>2
  <2>11. Salaries!OneRate' /\ Salaries!StampedOnce'
    <3>1. Salaries!OneRate'
      BY <1>2, <2>6 DEF SalaryInv, Salaries!OneRate
    <3> QED BY <1>1, <1>2, <2>1, <3>1 DEF SalaryInv, Salaries!StampedOnce, Salaries!Person, Salaries!Reviews
  <2> QED BY <2>7, <2>8, <2>9, <2>10, <2>11 DEF SalaryInv
<1> QED BY <1>3, <1>4

\* A change of the employee's status stamps or clears the termination it read for.
LEMMA SalaryPatches ==
    ASSUME SalaryLimits, SalaryInv, NEW r \in Callers, Salaries!Patch(r)
    PROVE  SalaryInv'
<1>1. req[r].pc = "patch" /\ UNCHANGED <<review, rates, deleted>>
  BY DEF Salaries!Patch
<1>2. req[r] \in SalaryPatch /\ Knows(req[r])
  BY <1>1, SalaryKinds DEF SalaryInv
<1>3. CASE ~Salaries!Hired
  BY <1>1, <1>3, SalaryIdles DEF Salaries!Patch
<1>4. CASE Salaries!Hired
  <2> PICK to, was : to = req[r].to /\ was = req[r].was
    OBVIOUS
  <2>1. /\ employee' = [status |-> to, stamped |-> Salaries!Stamp(to, was)]
        /\ raced' = raced \union (IF req[r].stale THEN {Salaries!Person} ELSE {})
        /\ req' = [q \in Callers |-> IF q = r THEN Salaries!Idle ELSE Salaries!Overtaken(req[q], Salaries!Person)]
    BY <1>4 DEF Salaries!Patch
  <2>2. /\ to \in {"ACTIVE", "TERMINATED"} /\ was \in {"ACTIVE", "TERMINATED"}
        /\ ~req[r].stale => was = employee.status
    BY <1>1, <1>2, <1>4 DEF SalaryPatch, Knows
  <2>3. /\ employee'.status = to /\ (employee'.stamped <=> Salaries!Stamp(to, was)) /\ Salaries!Stamp(to, was) \in BOOLEAN
    BY <2>1 DEF Salaries!Stamp, SalaryInv, SalaryTyped
  <2>4. (\A j \in Salaries!Reviews : Salaries!Of(j)' = Salaries!Of(j) /\ (Salaries!Written(j)' <=> Salaries!Written(j))) /\ Salaries!Hired'
    BY <1>1, <2>2, <2>3 DEF Salaries!Of, Salaries!Written, Salaries!Hired
  <2>5. \A q \in Callers : req'[q] = Salaries!Idle \/ req'[q] = Salaries!Overtaken(req[q], Salaries!Person)
    BY <2>1
  <2>6. SalaryTyped'
    <3>1. \A q \in Callers : req'[q] \in SalaryReq
      BY <2>5, OvertakenSays, SalaryKinds DEF SalaryInv, SalaryReq
    <3>2. req' \in [Callers -> SalaryReq]
      BY <2>1, <3>1
    <3>3. employee' \in [status : {"ACTIVE", "TERMINATED", "gone"}, stamped : BOOLEAN]
      BY <2>1, <2>2, <2>3
    <3>4. raced' \in SUBSET (Salaries!Reviews \union {Salaries!Person})
      BY <2>1 DEF SalaryInv, SalaryTyped
    <3> QED BY <1>1, <3>2, <3>3, <3>4 DEF SalaryInv, SalaryTyped, SalaryReq
  <2>7. GoneForGood' /\ Salaries!OneRate'
    BY <1>1, <2>4 DEF SalaryInv, GoneForGood, Salaries!OneRate
  <2>8. ASSUME NEW q \in Callers PROVE Knows(req[q])'
    <3> PICK u, o : u = req[q] /\ o = req'[q]
      OBVIOUS
    <3>1. CASE o = Salaries!Idle
      <4>1. Knows(o)'
        BY <3>1 DEF Knows, Salaries!Idle
      <4> QED BY <4>1
    <3>2. CASE o = Salaries!Overtaken(u, Salaries!Person)
      <4>1. u \in SalaryReq /\ Knows(u)
        BY SalaryKinds DEF SalaryInv
      <4>2. /\ u.pc \in {"write", "drop"} => u.id \in Salaries!Reviews
            /\ u.pc = "patch" => u.id = Salaries!Person
        BY SalaryKinds DEF SalaryInv, SalaryWrite, SalaryDrop, SalaryPatch
      <4>3. /\ o.pc = u.pc
            /\ u.pc # "idle" => o.id = u.id /\ (~o.stale => ~u.stale /\ u.id # Salaries!Person)
            /\ u.pc = "write" => o.form = u.form /\ o.next = u.next
            /\ u.pc = "drop" => o.took = u.took
            /\ u.pc = "patch" => o.was = u.was
        BY <3>2, <4>1, OvertakenSays
      <4>4. Salaries!Hired' <=> Salaries!Hired
        BY <1>4, <2>4
      <4>6. Knows(o)'
        BY <1>1, <2>4, <4>1, <4>2, <4>3, <4>4, KnowsKept
      <4> QED BY <4>6
    <3> QED BY <2>5, <3>1, <3>2
  <2>9. Salaries!RateFollowsReview'
    BY <1>1, <2>1, <2>4 DEF SalaryInv, Salaries!RateFollowsReview, Salaries!RateOf, Salaries!Complete
  <2>10. Salaries!StampedOnce'
    <3>1. Salaries!Person \notin raced' => ~req[r].stale /\ Salaries!Person \notin raced
      BY <2>1
    <3> QED BY <2>2, <2>3, <3>1 DEF SalaryInv, Salaries!StampedOnce, Salaries!Stamp
  <2> QED BY <2>6, <2>7, <2>8, <2>9, <2>10 DEF SalaryInv
<1> QED BY <1>3, <1>4

\* A removed employee takes reviews and rates along.
LEMMA EmployeeRemoved == ASSUME SalaryLimits, SalaryInv, Salaries!RemoveEmployee PROVE SalaryInv'
<1>1. /\ \A i \in Salaries!Reviews : review'[i] = Salaries!NoRow /\ review'[i].result = "gone" /\ Salaries!Of(i)' = {} /\ ~Salaries!Written(i)'
      /\ employee'.status = "gone" /\ ~employee'.stamped /\ ~Salaries!Hired' /\ UNCHANGED <<req, raced, deleted>>
  BY DEF Salaries!RemoveEmployee, Salaries!NoRow, Salaries!Of, Salaries!Written, Salaries!Hired
<1>2. SalaryTyped'
  BY DEF Salaries!RemoveEmployee, SalaryInv, SalaryTyped
<1>3. ASSUME NEW q \in Callers PROVE Knows(req[q])'
  <2> PICK u : u = req[q]
    OBVIOUS
  <2>1. Knows(u)
    BY DEF SalaryInv
  <2>2. u.pc \in {"write", "drop"} => u.id \in Salaries!Reviews
    BY SalaryKinds DEF SalaryInv, SalaryWrite, SalaryDrop
  <2>3. Knows(u)'
    BY <1>1, <2>1, <2>2, KnowsKept
  <2> QED BY <1>1, <2>3 DEF Knows
<1>4. GoneForGood' /\ Salaries!RateFollowsReview' /\ Salaries!OneRate' /\ Salaries!StampedOnce'
  BY <1>1 DEF GoneForGood, Salaries!RateFollowsReview, Salaries!OneRate, Salaries!StampedOnce
<1> QED BY <1>2, <1>3, <1>4 DEF SalaryInv

\* The invariant is inductive.
LEMMA SalaryStep == ASSUME SalaryLimits, SalaryInv, [Salaries!Next]_(Salaries!vars) PROVE SalaryInv'
<1>1. CASE UNCHANGED Salaries!vars
  BY <1>1 DEF Salaries!vars, SalaryInv, SalaryTyped, GoneForGood, Knows, Salaries!RateFollowsReview, Salaries!OneRate, Salaries!StampedOnce, Salaries!Written, Salaries!Hired, Salaries!Of
<1> QED BY <1>1, EmployeeRemoved, CreateKeeps, SalaryBegins, SalaryWrites, SalaryDrops, SalaryPatches DEF Salaries!Next

\* The invariant gives the type invariant of the component.
LEMMA SalaryTypeOK == SalaryInv => Salaries!TypeOK
<1>1. \A x \in ReviewRow : DOMAIN x = DOMAIN Salaries!Blank
  BY DEF ReviewRow, Salaries!Blank
<1> QED BY <1>1 DEF SalaryInv, SalaryTyped, Salaries!TypeOK, RateRow

-----------------------------------------------------------------------------
(* What the composition keeps.                                             *)

\* A verified backup is stored and kept, one process dumps at once, and only the API
\* leaks the advisory lock (backup-runner.ts, prune-backups.ts).
THEOREM BackupsStaySafe == PartsSpec => []BackupsSafe
<1>1. Backup!Spec => []Backup!BackupsSafe
  <2>1. BackupLimits
    BY MachinesAssumption DEF BackupLimits, Backup!Runs
  <2> QED BY <2>1, BackupsAreSafe
<1> QED BY <1>1, BackupBehaviour, PTL DEF BackupsSafe

\* A migration passes the gate only on a stored recent backup, and a verdict is
\* overwritten only for a cause (backup-runner.ts, mark-stuck-running.ts).
THEOREM BackupStepsStaySafe == PartsSpec => BackupStepsSafe
<1>1. Backup!Spec => Backup!BackupStepsSafe
  <2>1. BackupLimits
    BY MachinesAssumption DEF BackupLimits, Backup!Runs
  <2> QED BY <2>1, BackupStepsAreSafe
<1>2. [PartsNext]_allVars /\ [Backup!SafeStep]_(Backup!vars) => [part = "backup" => Backup!SafeStep]_allVars
  <2> SUFFICES ASSUME [PartsNext]_allVars, UNCHANGED Backup!vars, part = "backup" PROVE UNCHANGED allVars
    OBVIOUS
  <2> QED BY DEF PartsNext, allVars, slots, Backup!vars, ownBackup, ownReminders, ownPhone, ownDeploy, ownUpload, ownPayroll, ownInvoices, ownWeekly,
                  ownAbsences, ownTeam, ownSalaries
<1>3. ~(part = "backup") => (part = "backup" => Backup!SafeStep)
  OBVIOUS
<1> QED BY <1>1, <1>2, <1>3, BackupBehaviour, PTL DEF PartsSpec, BackupStepsSafe, Backup!BackupStepsSafe

\* What is paid, invoiced and earned is kept as it was asked for: amounts follow the
\* form of their payroll, the employee has what is owed once the fee is taken, a paid invoice has its PDF, and its items are those of one
\* form, a payment is in one fiscal month at most (payroll.service.ts,
\* invoice.service.ts, finance-weekly.service.ts).
THEOREM FinanceStaysSound == PartsSpec => []FinanceSound
<1>1. Payroll!Spec => [](Payroll!AmountsFollow /\ Payroll!PayrollFigures)
  <2>1. PayrollLimits
    BY OperationsAssumption, MachinesAssumption DEF PayrollLimits, PayrollSheet, Payroll!Hundred
  <2>2. Payroll!Init => PayrollInv
    BY PayrollInit
  <2>3. PayrollInv /\ [Payroll!Next]_(Payroll!vars) => PayrollInv'
    BY <2>1, PayrollStep
  <2>4. PayrollInv => Payroll!PayrollFigures
    BY FiguresFollow
  <2> QED BY <2>2, <2>3, <2>4, AmountsBelong, PTL DEF Payroll!Spec
<1>2. Invoices!Spec => []Invoices!InvoiceSound
  <2>1. InvoiceLimits
    BY OperationsAssumption, MachinesAssumption DEF InvoiceLimits
  <2>2. Invoices!Init => InvoiceInv
    BY <2>1, InvoiceInit
  <2>3. InvoiceInv /\ [Invoices!Next]_(Invoices!vars) => InvoiceInv'
    BY <2>1, InvoiceStep
  <2>4. InvoiceInv => Invoices!InvoiceSound
    BY <2>1, InvoiceSoundness
  <2> QED BY <2>2, <2>3, <2>4, PTL DEF Invoices!Spec
<1>3. Weekly!Spec => []Weekly!MoneySound
  <2>1. WeeklyLimits
    BY OperationsAssumption, MachinesAssumption DEF WeeklyLimits
  <2>2. Weekly!Init => WeeklyInv
    BY <2>1, WeeklyInit
  <2>3. WeeklyInv /\ [Weekly!Next]_(Weekly!vars) => WeeklyInv'
    BY <2>1, WeeklyStep
  <2>4. WeeklyInv => Weekly!MoneySound
    BY <2>1, WeeklySound
  <2> QED BY <2>2, <2>3, <2>4, PTL DEF Weekly!Spec
<1> QED BY <1>1, <1>2, <1>3, PayrollBehaviour, InvoicesBehaviour, WeeklyBehaviour, PTL DEF FinanceSound

\* Of the people's time off, their projects and their salary reviews: absences overlap
\* only when two requests did, days off add up over the years of their segments,
\* history, client timeline and dates follow the project, and each raise has its rate
\* (time-off.service.ts, project.service.ts, salary-review.service.ts).
THEOREM PeopleStaySound == PartsSpec => []PeopleSound
<1>1. Absences!Spec => []Absences!TimeOffSound
  <2>1. AbsenceLimits
    BY OperationsAssumption, MachinesAssumption DEF AbsenceLimits, AbsencePolicy
  <2>2. Absences!Init => AbsenceInv
    BY <2>1, AbsenceInit
  <2>3. AbsenceInv /\ [Absences!Next]_(Absences!vars) => AbsenceInv'
    BY <2>1, AbsenceStep
  <2>4. AbsenceInv => Absences!TimeOffSound
    BY <2>1, AbsenceSound
  <2> QED BY <2>2, <2>3, <2>4, PTL DEF Absences!Spec
<1>2. Team!Spec => []Team!ProjectSound
  <2>1. TeamLimits
    BY OperationsAssumption, MachinesAssumption DEF TeamLimits, TeamFields, TeamStatuses, TeamClients
  <2>2. Team!Init => TeamInv
    BY <2>1, TeamInit
  <2>3. TeamInv /\ [Team!Next]_(Team!vars) => TeamInv'
    BY <2>1, TeamStep
  <2>4. TeamInv => Team!ProjectSound
    BY <2>1, TeamSound
  <2> QED BY <2>2, <2>3, <2>4, PTL DEF Team!Spec
<1>3. Salaries!Spec => []Salaries!SalarySound
  <2>1. SalaryLimits
    BY OperationsAssumption, MachinesAssumption DEF SalaryLimits
  <2>2. Salaries!Init => SalaryInv
    BY <2>1, SalaryInit
  <2>3. SalaryInv /\ [Salaries!Next]_(Salaries!vars) => SalaryInv'
    BY <2>1, SalaryStep
  <2>4. SalaryInv => Salaries!SalarySound
    BY DEF SalaryInv, Salaries!SalarySound
  <2> QED BY <2>2, <2>3, <2>4, PTL DEF Salaries!Spec
<1> QED BY <1>1, <1>2, <1>3, AbsencesBehaviour, TeamBehaviour, SalariesBehaviour, PTL DEF PeopleSound

\* A file row stands for complete content and nothing is left in the bucket that no
\* sweep finds (upload-session.service.ts).
THEOREM UploadsStaySound == PartsSpec => []UploadsSound
<1>1. Upload!Spec => []Upload!UploadsSound
  BY MachinesAssumption, UploadsAreSound
<1> QED BY <1>1, UploadBehaviour, PTL DEF UploadsSound

\* The maintenance of a phone number goes on, never ahead of its date, and what was ticked or
\* closed stays so but for a later write over it (phone-maintenance.service.ts).
THEOREM LoopStaysSound == PartsSpec => []LoopSound
<1>1. Phone!Spec => []Phone!LoopSound
  BY MachinesAssumption, LoopIsSound
<1> QED BY <1>1, PhoneBehaviour, PTL DEF LoopSound

\* A paid and locked payroll keeps its amounts and its row (payroll.service.ts).
THEOREM PaidStaysLocked == PartsSpec => PaidIsLocked
<1>1. Payroll!Spec => Payroll!PaidIsLocked
  BY PaidStays
<1>2. [PartsNext]_allVars /\ [Payroll!PaidStep]_(Payroll!vars) => [part = "payroll" => Payroll!PaidStep]_allVars
  <2> SUFFICES ASSUME [PartsNext]_allVars, UNCHANGED Payroll!vars, part = "payroll" PROVE UNCHANGED allVars
    OBVIOUS
  <2> QED BY DEF PartsNext, allVars, slots, Payroll!vars, ownBackup, ownReminders, ownPhone, ownDeploy, ownUpload, ownPayroll, ownInvoices, ownWeekly,
                  ownAbsences, ownTeam, ownSalaries
<1>3. ~(part = "payroll") => (part = "payroll" => Payroll!PaidStep)
  OBVIOUS
<1> QED BY <1>1, <1>2, <1>3, PayrollBehaviour, PTL DEF PartsSpec, PaidIsLocked, Payroll!PaidIsLocked

\* The reminder of a call goes out though a tick is missed, and once; a stamp stands for
\* its event; a moved call was announced (call-reminder.service.ts).
THEOREM RemindersStaySafe == PartsSpec => []RemindersSafe
<1>1. Reminders!Spec => []Reminders!RemindersSafe
  <2>1. ReminderLimits
    BY MachinesAssumption DEF ReminderLimits
  <2> QED BY <2>1, RemindersAreSafe
<1> QED BY <1>1, RemindersBehaviour, PTL DEF RemindersSafe

\* One runner at a time, the recorded state true of database, releases and processes,
\* and the way to retry open, wherever a deploy stops (runner_main, v_deploy_run).
THEOREM DeploysStaySafe == PartsSpec => []DeploySafe
<1>1. Deploy!Spec => []Deploy!DeploySafe
  <2>1. DeployLimits
    BY MachinesAssumption DEF DeployLimits
  <2> QED BY <2>1, DeploysAreSafe
<1> QED BY <1>1, DeployBehaviour, PTL DEF DeploySafe

\* The database is written only by a runner that has a verified backup, and the backend
\* restarts only on code whose migrations are in (runner_main).
THEOREM WritesStayGuarded == PartsSpec => WritesGuarded
<1>1. Deploy!Spec => Deploy!WritesGuarded
  <2>1. DeployLimits
    BY MachinesAssumption DEF DeployLimits
  <2> QED BY <2>1, WritesAreGuarded
<1>2. [PartsNext]_allVars /\ [Deploy!GuardedStep]_(Deploy!vars) => [part = "deploy" => Deploy!GuardedStep]_allVars
  <2> SUFFICES ASSUME [PartsNext]_allVars, UNCHANGED Deploy!vars, part = "deploy" PROVE UNCHANGED allVars
    OBVIOUS
  <2> QED BY DEF PartsNext, allVars, slots, Deploy!vars, ownBackup, ownReminders, ownPhone, ownDeploy, ownUpload, ownPayroll, ownInvoices, ownWeekly,
                  ownAbsences, ownTeam, ownSalaries
<1>3. ~(part = "deploy") => (part = "deploy" => Deploy!GuardedStep)
  OBVIOUS
<1> QED BY <1>1, <1>2, <1>3, DeployBehaviour, PTL DEF PartsSpec, WritesGuarded, Deploy!WritesGuarded

\* Every variable of every operation keeps its type; in particular amounts stay numbers of
\* cents, and no connection holds the backup lock more often than there are runs.
THEOREM TypesStayOK == PartsSpec => []TypesOK
<1>1. Backup!Spec => []Backup!TypeOK
  <2>1. BackupLimits
    BY MachinesAssumption DEF BackupLimits, Backup!Runs
  <2> QED BY <2>1, BackupTypes
<1>2. Reminders!Spec => []Reminders!TypeOK
  <2>1. ReminderLimits
    BY MachinesAssumption DEF ReminderLimits
  <2> QED BY <2>1, RemindersTyped
<1>3. Phone!Spec => []Phone!TypeOK
  BY MachinesAssumption, PhoneTypes
<1>4. Deploy!Spec => []Deploy!TypeOK
  <2>1. DeployLimits
    BY MachinesAssumption DEF DeployLimits
  <2> QED BY <2>1, DeploysTyped
<1>5. Upload!Spec => []Upload!TypeOK
  BY MachinesAssumption, UploadTypes
<1>6. Payroll!Spec => []Payroll!TypeOK
  <2>1. PayrollLimits
    BY OperationsAssumption, MachinesAssumption DEF PayrollLimits, PayrollSheet, Payroll!Hundred
  <2>2. Payroll!Init => PayrollInv
    BY <2>1, PayrollInit
  <2>3. PayrollInv /\ [Payroll!Next]_(Payroll!vars) => PayrollInv'
    BY <2>1, PayrollStep
  <2>4. PayrollInv => Payroll!TypeOK
    BY <2>1, PayrollTyped
  <2> QED BY <2>2, <2>3, <2>4, PTL DEF Payroll!Spec
<1>7. Invoices!Spec => []Invoices!TypeOK
  <2>1. InvoiceLimits
    BY OperationsAssumption, MachinesAssumption DEF InvoiceLimits
  <2>2. Invoices!Init => InvoiceInv
    BY <2>1, InvoiceInit
  <2>3. InvoiceInv /\ [Invoices!Next]_(Invoices!vars) => InvoiceInv'
    BY <2>1, InvoiceStep
  <2>4. InvoiceInv => Invoices!TypeOK
    BY <2>1, InvoiceSoundness
  <2> QED BY <2>2, <2>3, <2>4, PTL DEF Invoices!Spec
<1>8. Weekly!Spec => []Weekly!TypeOK
  <2>1. WeeklyLimits
    BY OperationsAssumption, MachinesAssumption DEF WeeklyLimits
  <2>2. Weekly!Init => WeeklyInv
    BY <2>1, WeeklyInit
  <2>3. WeeklyInv /\ [Weekly!Next]_(Weekly!vars) => WeeklyInv'
    BY <2>1, WeeklyStep
  <2>4. WeeklyInv => Weekly!TypeOK
    BY <2>1, WeeklySound
  <2> QED BY <2>2, <2>3, <2>4, PTL DEF Weekly!Spec
<1>9. Absences!Spec => []Absences!TypeOK
  <2>1. AbsenceLimits
    BY OperationsAssumption, MachinesAssumption DEF AbsenceLimits, AbsencePolicy
  <2>2. Absences!Init => AbsenceInv
    BY <2>1, AbsenceInit
  <2>3. AbsenceInv /\ [Absences!Next]_(Absences!vars) => AbsenceInv'
    BY <2>1, AbsenceStep
  <2>4. AbsenceInv => Absences!TypeOK
    BY <2>1, AbsenceSound
  <2> QED BY <2>2, <2>3, <2>4, PTL DEF Absences!Spec
<1>10. Team!Spec => []Team!TypeOK
  <2>1. TeamLimits
    BY OperationsAssumption, MachinesAssumption DEF TeamLimits, TeamFields, TeamStatuses, TeamClients
  <2>2. Team!Init => TeamInv
    BY <2>1, TeamInit
  <2>3. TeamInv /\ [Team!Next]_(Team!vars) => TeamInv'
    BY <2>1, TeamStep
  <2>4. TeamInv => Team!TypeOK
    BY <2>1, TeamSound
  <2> QED BY <2>2, <2>3, <2>4, PTL DEF Team!Spec
<1>11. Salaries!Spec => []Salaries!TypeOK
  <2>1. SalaryLimits
    BY OperationsAssumption, MachinesAssumption DEF SalaryLimits
  <2>2. Salaries!Init => SalaryInv
    BY <2>1, SalaryInit
  <2>3. SalaryInv /\ [Salaries!Next]_(Salaries!vars) => SalaryInv'
    BY <2>1, SalaryStep
  <2>4. SalaryInv => Salaries!TypeOK
    BY <2>1, SalaryTypeOK
  <2> QED BY <2>2, <2>3, <2>4, PTL DEF Salaries!Spec
<1> QED BY <1>1, <1>2, <1>3, <1>4, <1>5, <1>6, <1>7, <1>8, <1>9, <1>10, <1>11, BackupBehaviour, RemindersBehaviour,
           PhoneBehaviour, DeployBehaviour, UploadBehaviour, PayrollBehaviour, InvoicesBehaviour, WeeklyBehaviour,
           AbsencesBehaviour, TeamBehaviour, SalariesBehaviour, PTL DEF TypesOK

=============================================================================

SPECIFICATION PartsSpec

CONSTANTS
  Callers = {r1, r2}
  MaxRuns = 2
  ApiConns = {101, 102}
  Window = 1
  Stuck = 1
  BackupFresh = 1
  Retention = 2
  BackupHorizon = 4
  MaxFaults = 1
  Calls = {"c1"}
  Operators = {"o1"}
  Slots = {12, 13}
  StatusRequests = {"same", "cancelled", "scheduled"}
  CallHorizon = 13
  MaxEdits = 1
  MaxMissed = 1
  Phones = {"p1"}
  Users = {"u1"}
  PhoneHorizon = 6
  MaxCalls = 2
  BeTip = 3
  FeTip = 2
  Migrating = {3}
  Seeding = {2}
  Keep = 0
  MaxDeploys = 2
  MaxUnlocks = 1
  Sizes = {1, 2}
  MaxRequests = 3
  MaxExpiries = 1
  TaxPercents = {600, 650}
  Sheets <- SheetsOfForms
  InvoiceRequests = 4
  Weeks <- WeeksOfProject
  WeekStatuses = {"received", "planned_invoice", "no_work"}
  LastWeekday = 21
  Ranges <- RangesAsked
  Policies <- PoliciesSet
  ProjectForms <- FormsOfProjects
  TeamRequests = 4
  ReviewForms <- FormsOfReviews
  ReviewRequests = 4

INVARIANTS
    TypesOK
    BackupsSafe
    RemindersSafe
    LoopSound
    DeploySafe
    UploadsSound
    FinanceSound
    FiguresRight
    PeopleSound

PROPERTIES
    BackupStepsSafe
    WritesGuarded
    PaidIsLocked

SYMMETRY Symmetry

CHECK_DEADLOCK FALSE

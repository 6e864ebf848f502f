SPECIFICATION PartsSpec

CONSTANTS
  Callers = {r1, r2}
  SettingPatches <- PatchBodies
  SettingRequests = 4
  SettingFaults = 1
  SalesForms <- SomeSalesForms
  SalesRequests = 4
  IntakeFiles = {"brief", "logo"}
  PortfolioRequests = 3
  MaxGallery = 1
  RoleUsers = {"ann", "bob"}
  FirstOwners = {"ann", "bob"}
  RoleKeys = {"view", "edit"}
  RoleRequests = 4
  AttachedRequests = 3
  Perms = {"view", "edit"}
  Shipped = {"view"}
  Preset = {"view", "edit"}
  SeedMaxRuns = 2
  SeedMaxEdits = 2
  SeedMaxCuts = 1
  StoredKeys = {"avatar", "invoice"}
  Unhashed = {"avatar"}
  CutoverRuns = 2
  CutoverWrites = 1
  CutoverFaults = 1
  GreetProfiles = {"prod"}
  PostTicks = {1, 2}
  PostConns = {1, 2}
  GreetJobs = {"birthday"}
  GreetHorizon = 5
  GreetSwaps = 0
  PostFaults = 1
  PostProfiles = {"prod", "test"}
  PostJobs = {"reminder", "weekly", "phone"}
  PostHorizon = 4
  PostSwaps = 1
  PromptReaders = {"e1"}
  EvalRows = 4
  PromptRequests = 2
  PromptReads = 1
  PromptFaults = 1
  SecretForms <- SomeSecretForms
  ProfileNames = {1, 2}
  VaultRequests = 4
  VaultRestarts = 1
  RestoreStarts = 2
  RestoreChanges = 1
  RestoreFaults = 1
  ScratchTargets <- SomeScratchTargets
  ItemRequests = 2
  SlugTries = 2
  ItemWords = {"js", "ai"}
  ItemForms <- SomeItemForms

INVARIANTS
    TypesOK
    RecordsAgree
    PlatformSound
    DataSound
    SalesSound
    PostsSound

SYMMETRY Symmetry

CHECK_DEADLOCK FALSE

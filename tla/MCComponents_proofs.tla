------------------------ MODULE MCComponents_proofs ------------------------
(***************************************************************************)
(* Proofs of what the components beside the job pipeline promise.  A       *)
(* behaviour of MCComponents is one of a single component, so what the     *)
(* component's own specification promises holds of it.  They are proved in *)
(* Records, the daily posts in DailyPosts_proofs.                          *)
(***************************************************************************)
EXTENDS MCComponents, Sequences, FiniteSetTheorems, TLAPS

-----------------------------------------------------------------------------
(* A behaviour about a component is a behaviour of its specification.      *)

\* The behaviours about birthdays.
LEMMA BirthdaysBehaviour == PartsSpec => Birthdays!Spec \/ [](~(part = "birthdays"))
<1>1. PartsInit => (part = "birthdays" => Birthdays!Init)
  BY DEF PartsInit
<1>2. [PartsNext]_allVars =>
          ((part = "birthdays")' <=> part = "birthdays") /\ (part = "birthdays" => [Birthdays!Next]_(Birthdays!vars))
  <2>1. PartsNext => part' = part /\ (part = "birthdays" => Birthdays!Next)
    BY DEF PartsNext
  <2>2. UNCHANGED allVars => part' = part /\ UNCHANGED Birthdays!vars
    BY DEF allVars, slots, Birthdays!vars, Birthdays!Clock, Birthdays!Past
  <2> QED BY <2>1, <2>2
<1> QED BY <1>1, <1>2, PTL DEF PartsSpec, Birthdays!Spec

\* The behaviours about weeklyposts.
LEMMA WeeklyPostsBehaviour == PartsSpec => WeeklyPosts!Spec \/ [](~(part = "weeklyposts"))
<1>1. PartsInit => (part = "weeklyposts" => WeeklyPosts!Init)
  BY DEF PartsInit
<1>2. [PartsNext]_allVars =>
          ((part = "weeklyposts")' <=> part = "weeklyposts") /\ (part = "weeklyposts" => [WeeklyPosts!Next]_(WeeklyPosts!vars))
  <2>1. PartsNext => part' = part /\ (part = "weeklyposts" => WeeklyPosts!Next)
    BY DEF PartsNext
  <2>2. UNCHANGED allVars => part' = part /\ UNCHANGED WeeklyPosts!vars
    BY DEF allVars, slots, WeeklyPosts!vars, WeeklyPosts!Clock, WeeklyPosts!Past
  <2> QED BY <2>1, <2>2
<1> QED BY <1>1, <1>2, PTL DEF PartsSpec, WeeklyPosts!Spec

\* The behaviours about funnel.
LEMMA FunnelBehaviour == PartsSpec => Funnel!Spec \/ [](~(part = "funnel"))
<1>1. PartsInit => (part = "funnel" => Funnel!Init)
  BY DEF PartsInit
<1>2. [PartsNext]_allVars =>
          ((part = "funnel")' <=> part = "funnel") /\ (part = "funnel" => [Funnel!Next]_(Funnel!vars))
  <2>1. PartsNext => part' = part /\ (part = "funnel" => Funnel!Next)
    BY DEF PartsNext
  <2>2. UNCHANGED allVars => part' = part /\ UNCHANGED Funnel!vars
    BY DEF allVars, slots, Funnel!vars
  <2> QED BY <2>1, <2>2
<1> QED BY <1>1, <1>2, PTL DEF PartsSpec, Funnel!Spec

\* The behaviours about intake.
LEMMA IntakeBehaviour == PartsSpec => Intake!Spec \/ [](~(part = "intake"))
<1>1. PartsInit => (part = "intake" => Intake!Init)
  BY DEF PartsInit
<1>2. [PartsNext]_allVars =>
          ((part = "intake")' <=> part = "intake") /\ (part = "intake" => [Intake!Next]_(Intake!vars))
  <2>1. PartsNext => part' = part /\ (part = "intake" => Intake!Next)
    BY DEF PartsNext
  <2>2. UNCHANGED allVars => part' = part /\ UNCHANGED Intake!vars
    BY DEF allVars, slots, Intake!vars
  <2> QED BY <2>1, <2>2
<1> QED BY <1>1, <1>2, PTL DEF PartsSpec, Intake!Spec

\* The behaviours about portfolio.
LEMMA PortfolioBehaviour == PartsSpec => Portfolio!Spec \/ [](~(part = "portfolio"))
<1>1. PartsInit => (part = "portfolio" => Portfolio!Init)
  BY DEF PartsInit
<1>2. [PartsNext]_allVars =>
          ((part = "portfolio")' <=> part = "portfolio") /\ (part = "portfolio" => [Portfolio!Next]_(Portfolio!vars))
  <2>1. PartsNext => part' = part /\ (part = "portfolio" => Portfolio!Next)
    BY DEF PartsNext
  <2>2. UNCHANGED allVars => part' = part /\ UNCHANGED Portfolio!vars
    BY DEF allVars, slots, Portfolio!vars
  <2> QED BY <2>1, <2>2
<1> QED BY <1>1, <1>2, PTL DEF PartsSpec, Portfolio!Spec

\* The behaviours about roles.
LEMMA RolesBehaviour == PartsSpec => Roles!Spec \/ [](~(part = "roles"))
<1>1. PartsInit => (part = "roles" => Roles!Init)
  BY DEF PartsInit
<1>2. [PartsNext]_allVars =>
          ((part = "roles")' <=> part = "roles") /\ (part = "roles" => [Roles!Next]_(Roles!vars))
  <2>1. PartsNext => part' = part /\ (part = "roles" => Roles!Next)
    BY DEF PartsNext
  <2>2. UNCHANGED allVars => part' = part /\ UNCHANGED Roles!vars
    BY DEF allVars, slots, Roles!vars
  <2> QED BY <2>1, <2>2
<1> QED BY <1>1, <1>2, PTL DEF PartsSpec, Roles!Spec

\* The behaviours about attached.
LEMMA AttachedBehaviour == PartsSpec => Attached!Spec \/ [](~(part = "attached"))
<1>1. PartsInit => (part = "attached" => Attached!Init)
  BY DEF PartsInit
<1>2. [PartsNext]_allVars =>
          ((part = "attached")' <=> part = "attached") /\ (part = "attached" => [Attached!Next]_(Attached!vars))
  <2>1. PartsNext => part' = part /\ (part = "attached" => Attached!Next)
    BY DEF PartsNext
  <2>2. UNCHANGED allVars => part' = part /\ UNCHANGED Attached!vars
    BY DEF allVars, slots, Attached!vars
  <2> QED BY <2>1, <2>2
<1> QED BY <1>1, <1>2, PTL DEF PartsSpec, Attached!Spec

\* The behaviours about seeds.
LEMMA SeedsBehaviour == PartsSpec => Seeds!Spec \/ [](~(part = "seeds"))
<1>1. PartsInit => (part = "seeds" => Seeds!Init)
  BY DEF PartsInit
<1>2. [PartsNext]_allVars =>
          ((part = "seeds")' <=> part = "seeds") /\ (part = "seeds" => [Seeds!Next]_(Seeds!vars))
  <2>1. PartsNext => part' = part /\ (part = "seeds" => Seeds!Next)
    BY DEF PartsNext
  <2>2. UNCHANGED allVars => part' = part /\ UNCHANGED Seeds!vars
    BY DEF allVars, slots, Seeds!vars
  <2> QED BY <2>1, <2>2
<1> QED BY <1>1, <1>2, PTL DEF PartsSpec, Seeds!Spec

\* The behaviours about cutover.
LEMMA CutoverBehaviour == PartsSpec => Cutover!Spec \/ [](~(part = "cutover"))
<1>1. PartsInit => (part = "cutover" => Cutover!Init)
  BY DEF PartsInit
<1>2. [PartsNext]_allVars =>
          ((part = "cutover")' <=> part = "cutover") /\ (part = "cutover" => [Cutover!Next]_(Cutover!vars))
  <2>1. PartsNext => part' = part /\ (part = "cutover" => Cutover!Next)
    BY DEF PartsNext
  <2>2. UNCHANGED allVars => part' = part /\ UNCHANGED Cutover!vars
    BY DEF allVars, slots, Cutover!vars
  <2> QED BY <2>1, <2>2
<1> QED BY <1>1, <1>2, PTL DEF PartsSpec, Cutover!Spec

\* The behaviours about scratch.
LEMMA ScratchBehaviour == PartsSpec => Scratch!Spec \/ [](~(part = "scratch"))
<1>1. PartsInit => (part = "scratch" => Scratch!Init)
  BY DEF PartsInit
<1>2. [PartsNext]_allVars =>
          ((part = "scratch")' <=> part = "scratch") /\ (part = "scratch" => [Scratch!Next]_(Scratch!vars))
  <2>1. PartsNext => part' = part /\ (part = "scratch" => Scratch!Next)
    BY DEF PartsNext
  <2>2. UNCHANGED allVars => part' = part /\ UNCHANGED Scratch!vars
    BY DEF allVars, slots, Scratch!vars
  <2> QED BY <2>1, <2>2
<1> QED BY <1>1, <1>2, PTL DEF PartsSpec, Scratch!Spec

\* The behaviours about vault.
LEMMA VaultBehaviour == PartsSpec => Vault!Spec \/ [](~(part = "vault"))
<1>1. PartsInit => (part = "vault" => Vault!Init)
  BY DEF PartsInit
<1>2. [PartsNext]_allVars =>
          ((part = "vault")' <=> part = "vault") /\ (part = "vault" => [Vault!Next]_(Vault!vars))
  <2>1. PartsNext => part' = part /\ (part = "vault" => Vault!Next)
    BY DEF PartsNext
  <2>2. UNCHANGED allVars => part' = part /\ UNCHANGED Vault!vars
    BY DEF allVars, slots, Vault!vars, Vault!accountVars
  <2> QED BY <2>1, <2>2
<1> QED BY <1>1, <1>2, PTL DEF PartsSpec, Vault!Spec

\* The behaviours about evaluation.
LEMMA EvaluationBehaviour == PartsSpec => Evaluation!Spec \/ [](~(part = "evaluation"))
<1>1. PartsInit => (part = "evaluation" => Evaluation!Init)
  BY DEF PartsInit
<1>2. [PartsNext]_allVars =>
          ((part = "evaluation")' <=> part = "evaluation") /\ (part = "evaluation" => [Evaluation!Next]_(Evaluation!vars))
  <2>1. PartsNext => part' = part /\ (part = "evaluation" => Evaluation!Next)
    BY DEF PartsNext
  <2>2. UNCHANGED allVars => part' = part /\ UNCHANGED Evaluation!vars
    BY DEF allVars, slots, Evaluation!vars
  <2> QED BY <2>1, <2>2
<1> QED BY <1>1, <1>2, PTL DEF PartsSpec, Evaluation!Spec

\* The behaviours about items.
LEMMA ItemsBehaviour == PartsSpec => Items!Spec \/ [](~(part = "items"))
<1>1. PartsInit => (part = "items" => Items!Init)
  BY DEF PartsInit
<1>2. [PartsNext]_allVars =>
          ((part = "items")' <=> part = "items") /\ (part = "items" => [Items!Next]_(Items!vars))
  <2>1. PartsNext => part' = part /\ (part = "items" => Items!Next)
    BY DEF PartsNext
  <2>2. UNCHANGED allVars => part' = part /\ UNCHANGED Items!vars
    BY DEF allVars, slots, Items!vars
  <2> QED BY <2>1, <2>2
<1> QED BY <1>1, <1>2, PTL DEF PartsSpec, Items!Spec

\* The behaviours about config.
LEMMA ConfigBehaviour == PartsSpec => Config!Spec \/ [](~(part = "config"))
<1>1. PartsInit => (part = "config" => Config!Init)
  BY DEF PartsInit
<1>2. [PartsNext]_allVars =>
          ((part = "config")' <=> part = "config") /\ (part = "config" => [Config!Next]_(Config!vars))
  <2>1. PartsNext => part' = part /\ (part = "config" => Config!Next)
    BY DEF PartsNext
  <2>2. UNCHANGED allVars => part' = part /\ UNCHANGED Config!vars
    BY DEF allVars, slots, Config!vars
  <2> QED BY <2>1, <2>2
<1> QED BY <1>1, <1>2, PTL DEF PartsSpec, Config!Spec

-----------------------------------------------------------------------------
(* What the components promise, of every behaviour of theirs.              *)

\* A post of the day goes out once, unless one of the named causes came in between, and
\* what is recorded as sent was posted (discord-schedulers.service.ts,
\* phone-maintenance.scheduler.ts).
THEOREM PostsStaySound == PartsSpec => []PostsSound
<1>1. Birthdays!Spec => []Birthdays!DailyPostsSound
  <2>1. Birthdays!DailyLimits
    BY ComponentsAssumption DEF Birthdays!DailyLimits, Birthdays!IsFiniteSet, IsFiniteSet
  <2> QED BY <2>1, Birthdays!DailyPostsAreSound
<1>2. WeeklyPosts!Spec => []WeeklyPosts!DailyPostsSound
  <2>1. WeeklyPosts!DailyLimits
    BY ComponentsAssumption DEF WeeklyPosts!DailyLimits, WeeklyPosts!IsFiniteSet, IsFiniteSet
  <2> QED BY <2>1, WeeklyPosts!DailyPostsAreSound
<1> QED BY <1>1, <1>2, BirthdaysBehaviour, WeeklyPostsBehaviour, PTL DEF PostsSound

\* Of proposals, leads, posts and the requests of the site: a reply has its lead, only bids
\* spend connects, stamps follow the status unless two updates overlapped, and what a
\* client has sent is stored or cleaned up (proposal.service.ts, lead.service.ts,
\* linkedin-post.service.ts, client-requests.service.ts).
THEOREM SalesStaySound == PartsSpec => []SalesSound
  BY SalesFunnelIsSound, ClientIntakeIsSound, FunnelBehaviour, IntakeBehaviour, PTL DEF SalesSound

\* Of portfolios, the slugs and tags of their items, settings, roles, attachments, seeds, the
\* move of the store, restores, credentials and prompts: an owner remains and a role has the
\* keys of one form, what is listed can be opened, a seed gives what the code names and keeps
\* what an operator has saved, an object at the destination is never replaced unseen, a
\* restore writes only into a scratch database, a credential that was replaced is in the
\* history, one prompt of each type is in force, an address is one item's, and the cache of
\* the settings holds what is stored, each up to the causes that its module names
\* (portfolio.service.ts, settings.service.ts, roles.service.ts, attachments.service.ts,
\* seed.ts, b2-cutover.ts, restore.ts, credentials-account.service.ts, prompt.service.ts).
THEOREM PlatformStaysSound == PartsSpec => []PlatformSound
<1>1. PartsSpec =>
          /\ [](part = "portfolio" => Portfolio!PortfolioSound)
          /\ [](part = "roles" => Roles!RolesSound)
          /\ [](part = "attached" => Attached!AttachmentsSound)
          /\ [](part = "seeds" => Seeds!SeedingSound)
  BY PortfolioIsSound, RolesAreSound, AttachmentsAreSound, SeedingIsSound,
     PortfolioBehaviour, RolesBehaviour, AttachedBehaviour, SeedsBehaviour, PTL
<1>2. PartsSpec =>
          /\ [](part = "cutover" => Cutover!BucketCutoverSound)
          /\ [](part = "scratch" => Scratch!RestoreSafe)
          /\ [](part = "vault" => Vault!CredentialsSound)
          /\ [](part = "evaluation" => Evaluation!PromptsSound)
  BY BucketCutoverIsSound, RestoresAreSound, CredentialsAreSound, PromptsAreSound,
     CutoverBehaviour, ScratchBehaviour, VaultBehaviour, EvaluationBehaviour, PTL
<1>3. PartsSpec =>
          /\ [](part = "items" => Items!PortfolioItemsSound)
          /\ [](part = "config" => Config!SettingsSound)
  BY ItemsAreSound, SettingsAreSound, ItemsBehaviour, ConfigBehaviour, PTL
<1> QED BY <1>1, <1>2, <1>3, PTL DEF PlatformSound

=============================================================================

-------------------------- MODULE CredentialHistory --------------------------
(***************************************************************************)
(* The credentials of one service account, their history, and the profiles *)
(* they hang from (CredentialsAccountService, CredentialsProfileService).  *)
(*                                                                         *)
(* A change of a secret reads the row, merges, files the old ciphertext as *)
(* a version and writes, in three statements without a transaction; other  *)
(* requests, a deletion or the end of the process come in between.  The    *)
(* secrets are two fields, a password and the security answers: the second *)
(* is the field that diffSecretKeys does not look at.                      *)
(***************************************************************************)
EXTENDS Integers, FiniteSets, FiniteSetsExt

CONSTANTS Requests,      \* slots of the API
          Forms,         \* bodies of PATCH: which of pw and ans, with what value
          Names,         \* names of profiles
          MaxRequests,   \* BOUND: requests in a behaviour
          MaxRestarts    \* BOUND: restarts, each of which may change the keys

Profiles == {1, 2}   \* the account is filed under 1
Owner == 1
Fields == {"pw", "ans"}
Empty == [pw |-> 0, ans |-> 0]
Secrets == [pw : 0..2, ans : 0..1]
Ciphers == [secret : Secrets, key : 1..(MaxRestarts + 1)]
NoCipher == [secret |-> Empty, key |-> 0]

VARIABLES profile,    \* profile -> its name and slug; no entry: no row
          row,        \* encPayload and encKeyVersion of the account
          versions,   \* CredentialSecretVersion rows of the account
          keys,       \* master keys loaded at boot
          req,        \* the requests under way
          begun, restarts,
          past,       \* what the row has held
          trampled    \* what a change replaced that had not read it

accountVars == <<row, versions, past, trampled>>
vars == <<profile, accountVars, keys, req, begun, restarts>>

NoReq == [pc |-> "idle"]

Init ==
    /\ profile = [p \in {Owner} |-> [name |-> Min(Names), slug |-> <<Min(Names), 1>>]]
    /\ row = NoCipher /\ versions = {} /\ past = {} /\ trampled = {}
    /\ keys = {1}
    /\ req = [r \in Requests |-> NoReq]
    /\ begun = 0 /\ restarts = 0

Alive(p) == p \in DOMAIN profile

\* One statement that ends the request, and one that goes on with `next`.
Ends(r) == req' = [req EXCEPT ![r] = NoReq] /\ UNCHANGED <<begun, keys, restarts>>
Goes(r, next) == req' = [req EXCEPT ![r] = next] /\ UNCHANGED <<begun, keys, restarts>>

Arrives(r, next) ==
    /\ req[r] = NoReq /\ begun < MaxRequests
    /\ req' = [req EXCEPT ![r] = next] /\ begun' = begun + 1
    /\ UNCHANGED <<profile, accountVars, keys, restarts>>

-----------------------------------------------------------------------------
(* Accounts.                                                               *)

Encrypt(s) == [secret |-> s, key |-> Max(keys)]
Decrypts(c) == c.key \in keys
Read(c) == IF Decrypts(c) THEN c.secret ELSE Empty

\* create: the profile is looked up, then the row inserted under its foreign key.
CreateAccount(r, s) ==
    /\ Alive(Owner) /\ past = {}
    /\ Arrives(r, [pc |-> "insert", next |-> Encrypt(s)])

Insert(r) ==
    /\ req[r].pc = "insert"
    /\ IF Alive(Owner) /\ past = {}
       THEN row' = req[r].next /\ past' = {req[r].next}
       ELSE UNCHANGED <<row, past>>
    /\ Ends(r) /\ UNCHANGED <<profile, versions, trampled>>

\* diffSecretKeys: blanks trimmed, recovery codes and custom fields, no securityAnswers.
Diff(a, b) == {"pw"} \cap (IF a.pw # b.pw THEN {"pw"} ELSE {})
\* { ...previous, ...dto.secrets }, then sanitizePayload.  The body is an instance of a class
\* whose fields are its own, undefined where the form leaves them out: each of them
\* overwrites the previous one and is dropped, so the fields of the form alone remain.
Merged(f) == [x \in Fields |-> IF x \in DOMAIN f THEN f[x] ELSE 0]

Update(r, f) ==
    /\ row # NoCipher
    /\ LET m == Merged(f) IN
       Arrives(r, IF Diff(Read(row), m) # {}
                  THEN [pc |-> "version", base |-> row, next |-> Encrypt(m)]
                  ELSE [pc |-> "details"])

\* Metadata alone: no version and no ciphertext is written.
Details(r) ==
    /\ req[r].pc = "details" /\ Ends(r)
    /\ UNCHANGED <<profile, accountVars>>

\* MUTANT: the new ciphertext is filed.
FiledNew(r) == req[r].next
Filed(r) == req[r].base

\* credentialSecretVersion.create; the account is gone: the foreign key fails.
Snapshot(r) ==
    /\ req[r].pc = "version"
    /\ IF row # NoCipher
       THEN /\ versions' = versions \cup {Filed(r)}
            /\ Goes(r, [req[r] EXCEPT !.pc = "write"])
       ELSE UNCHANGED versions /\ Ends(r)
    /\ UNCHANGED <<profile, row, past, trampled>>

Write(r) ==
    /\ req[r].pc = "write"
    /\ IF row # NoCipher
       THEN /\ row' = req[r].next /\ past' = past \cup {row'}
            /\ trampled' = IF row = req[r].base THEN trampled ELSE trampled \cup {row}
       ELSE UNCHANGED <<row, past, trampled>>
    /\ Ends(r) /\ UNCHANGED <<profile, versions>>

RestoreVersion(r, v) ==
    /\ row # NoCipher /\ v \in versions
    /\ Arrives(r, [pc |-> "version", base |-> row, next |-> v])

\* hardDelete: read and confirmed, then deleted with all its versions.
HardDelete(r) == row # NoCipher /\ Arrives(r, [pc |-> "delete"])

Gone ==
    /\ row' = NoCipher /\ versions' = {} /\ UNCHANGED <<past, trampled>>

Delete(r) ==
    /\ req[r].pc = "delete" /\ Gone /\ Ends(r) /\ UNCHANGED profile

-----------------------------------------------------------------------------
(* Profiles.  A slug is a name and a number: "ann", "ann-2", ...           *)

\* uniqueSlug: the first candidate that is free, or the profile's own.
Free(n, p) ==
    LET taken == {q \in DOMAIN profile \ {p} : profile[q].slug[1] = n}
    IN  <<n, Min({k \in 1..3 : \A q \in taken : profile[q].slug[2] # k})>>

CreateProfile(r, p, n) ==
    /\ ~Alive(p) /\ p # Owner
    /\ Arrives(r, [pc |-> "profile", p |-> p, new |-> TRUE, to |-> [name |-> n, slug |-> Free(n, p)]])

\* MUTANT: a new name leaves the slug.
KeptSlugAlways(p, n) == TRUE
KeptSlug(p, n) == n = profile[p].name

Rename(r, p, n) ==
    /\ Alive(p)
    /\ Arrives(r, [pc |-> "profile", p |-> p, new |-> FALSE,
                   to |-> [name |-> n, slug |-> IF KeptSlug(p, n) THEN profile[p].slug ELSE Free(n, p)]])

\* The slug is unique; the row may be gone.
WriteProfile(r) ==
    /\ req[r].pc = "profile"
    /\ profile' = IF /\ req[r].new \/ Alive(req[r].p)
                     /\ \A q \in DOMAIN profile \ {req[r].p} : profile[q].slug # req[r].to.slug
                     /\ ~(req[r].new /\ Alive(req[r].p))
                  THEN [q \in DOMAIN profile \cup {req[r].p} |-> IF q = req[r].p THEN req[r].to ELSE profile[q]]
                  ELSE profile
    /\ Ends(r) /\ UNCHANGED accountVars

DeleteProfile(r, p) == Alive(p) /\ Arrives(r, [pc |-> "drop", p |-> p])

\* The accounts of the profile and their versions go with it.
Drop(r) ==
    /\ req[r].pc = "drop"
    /\ profile' = [q \in DOMAIN profile \ {req[r].p} |-> profile[q]]
    /\ IF req[r].p = Owner THEN Gone ELSE UNCHANGED accountVars
    /\ Ends(r)

\* The process restarts: requests are cut, and the environment may bring the next
\* key, with or without the old ones.
Restart ==
    /\ restarts < MaxRestarts /\ restarts' = restarts + 1
    /\ keys' \in {keys, keys \cup {Max(keys) + 1}, {Max(keys) + 1}}
    /\ req' = [r \in Requests |-> NoReq]
    /\ UNCHANGED <<profile, accountVars, begun>>

Next ==
    \/ \E r \in Requests :
         \/ \E s \in {[pw |-> 1, ans |-> 1]} : CreateAccount(r, s)
         \/ \E f \in Forms : Update(r, f)
         \/ \E v \in versions : RestoreVersion(r, v)
         \/ HardDelete(r) \/ Insert(r) \/ Details(r) \/ Snapshot(r) \/ Write(r) \/ Delete(r)
         \/ \E p \in Profiles, n \in Names : CreateProfile(r, p, n) \/ Rename(r, p, n)
         \/ \E p \in Profiles : DeleteProfile(r, p)
         \/ WriteProfile(r) \/ Drop(r)
    \/ Restart

Spec == Init /\ [][Next]_vars

-----------------------------------------------------------------------------
TypeOK ==
    /\ DOMAIN profile \subseteq Profiles
    /\ \A p \in DOMAIN profile : profile[p] \in [name : Names, slug : Names \X (1..3)]
    /\ row \in Ciphers \cup {NoCipher}
    /\ versions \cup past \cup trampled \subseteq Ciphers
    /\ keys \subseteq 1..(MaxRestarts + 1) /\ keys # {}
    /\ DOMAIN req = Requests
    /\ begun \in 0..MaxRequests /\ restarts \in 0..MaxRestarts

\* "The entire change history is preserved": whatever the account has held is there
\* or in its history, what a form that left fields out has taken away included, after
\* crashes and lost keys too, except what a change has replaced without having read it.
NothingLost ==
    row # NoCipher => past \subseteq {row} \cup versions \cup trampled

\* A version is what the account once held, never what a cut change was about to store.
HistoryIsPast == versions \subseteq past

\* A slug always belongs to the name it stands beside, whatever renames overlap.
SlugOfName == \A p \in DOMAIN profile : profile[p].slug[1] = profile[p].name

CredentialsSound ==
    /\ NothingLost
    /\ HistoryIsPast
    /\ SlugOfName
=============================================================================

---------------------------------- MODULE Roles ----------------------------------
(***************************************************************************)
(* RolesService: the owner role, which is locked, one role that the team    *)
(* has defined, and who has which.  Every operation reads and checks first  *)
(* and writes later, without a lock in between.                             *)
(***************************************************************************)
EXTENDS Integers, FiniteSets

CONSTANTS Users,
          FirstOwners,   \* the users who start as owners
          Keys,          \* permission keys
          Requests,
          MaxRequests    \* bound of the requests that begin

VARIABLES roleOf,    \* user.roleId: "owner", "team" or "none"
          team,      \* the defined role: does it exist, its id, the keys it has
          req,       \* requests at work
          begun,     \* requests so far
          form,      \* history: the last set of keys that was saved
          mixed,     \* history: that save overlapped another one
          demoted,   \* history: an owner was demoted on an outdated count
          dropped    \* history: users who lost the role to its deletion

vars == <<roleOf, team, req, begun, form, mixed, demoted, dropped>>

Idle == [pc |-> "idle"]
Owners == {u \in Users : roleOf[u] = "owner"}
Members == {u \in Users : roleOf[u] = "team"}
Exists(role) == role = "owner" \/ team.exists
\* The role that the request has read is still there, not one of the same name.
Still(r) == team.exists /\ team.id = req[r].id

Init ==
    /\ roleOf = [u \in Users |-> IF u \in FirstOwners THEN "owner" ELSE "none"]
    /\ team = [exists |-> FALSE, id |-> 0, keys |-> {}]
    /\ req = [r \in Requests |-> Idle] /\ begun = 0
    /\ form = {} /\ mixed = FALSE /\ demoted = FALSE /\ dropped = {}

Goto(r, rec) == req' = [req EXCEPT ![r] = rec]
To(r, pc) == req' = [req EXCEPT ![r].pc = pc]
Fresh(r) == req[r].pc = "idle" /\ begun < MaxRequests /\ begun' = begun + 1

-----------------------------------------------------------------------------
(* assignRoleToUser.                                                       *)

\* Only an owner makes owners; who moves to the role that he has is done.
AssignBegins(r, actor, u, role) ==
    /\ Fresh(r)
    /\ Exists(role) /\ (role = "owner" => actor \in Owners)
    /\ Goto(r, IF roleOf[u] = "owner" /\ role # "owner"
               THEN [pc |-> "count", user |-> u, role |-> role, id |-> team.id, stale |-> FALSE]
               ELSE IF roleOf[u] = role THEN Idle
               ELSE [pc |-> "assign", user |-> u, role |-> role, id |-> team.id, stale |-> FALSE])
    /\ UNCHANGED <<roleOf, team, form, mixed, demoted, dropped>>

\* LAST_OWNER_LOCK.
\* Mutant: the last owner may go.
OneMoreOwner == Cardinality(Owners) > 0
AnotherOwner == Cardinality(Owners) > 1

CountOwners(r) ==
    /\ req[r].pc = "count"
    /\ IF AnotherOwner THEN To(r, "assign") ELSE Goto(r, Idle)
    /\ UNCHANGED <<roleOf, team, begun, form, mixed, demoted, dropped>>

\* Whoever has read the owners before this write is behind.
Assign(r) ==
    /\ req[r].pc = "assign"
    /\ IF req[r].role = "owner" \/ Still(r)
       THEN /\ roleOf' = [roleOf EXCEPT ![req[r].user] = req[r].role]
            /\ demoted' = (demoted \/ (roleOf[req[r].user] = "owner" /\ req[r].stale))
            /\ req' = [q \in Requests |-> IF q = r THEN Idle
                                          ELSE IF req[q].pc = "assign" THEN [req[q] EXCEPT !.stale = TRUE]
                                          ELSE req[q]]
       ELSE Goto(r, Idle) /\ UNCHANGED <<roleOf, demoted>>
    /\ UNCHANGED <<team, begun, form, mixed, dropped>>

-----------------------------------------------------------------------------
(* createRole, updateRole, deleteRole.                                     *)

CreateBegins(r, keys) ==
    /\ ~team.exists /\ Fresh(r) /\ Goto(r, [pc |-> "create", keys |-> keys])
    /\ UNCHANGED <<roleOf, team, form, mixed, demoted, dropped>>
\* The name is unique.
Create(r) ==
    /\ req[r].pc = "create"
    /\ IF team.exists THEN UNCHANGED <<team, form, mixed>>
       ELSE /\ team' = [exists |-> TRUE, id |-> team.id + 1, keys |-> req[r].keys]
            /\ form' = req[r].keys /\ mixed' = FALSE
    /\ Goto(r, Idle)
    /\ UNCHANGED <<roleOf, begun, demoted, dropped>>

\* The same keys again are no change.
UpdateBegins(r, keys) ==
    /\ team.exists /\ Fresh(r)
    /\ Goto(r, IF keys = team.keys THEN Idle ELSE [pc |-> "clear", id |-> team.id, keys |-> keys])
    /\ UNCHANGED <<roleOf, team, form, mixed, demoted, dropped>>
\* The transaction deletes the keys that its statement sees ...
Clear(r) ==
    /\ req[r].pc = "clear"
    /\ IF Still(r)
       THEN Goto(r, [pc |-> "fill", id |-> team.id, keys |-> req[r].keys, seen |-> team.keys, stale |-> FALSE])
       ELSE Goto(r, Idle)
    /\ UNCHANGED <<roleOf, team, begun, form, mixed, demoted, dropped>>
\* ... and commits with the new ones beside whatever was added meanwhile; without
\* the role there is nothing that could have them.
Fill(r) ==
    /\ req[r].pc = "fill"
    /\ IF Still(r)
       THEN /\ team' = [team EXCEPT !.keys = (@ \ req[r].seen) \union req[r].keys]
            /\ form' = req[r].keys /\ mixed' = req[r].stale
            /\ req' = [q \in Requests |-> IF q = r THEN Idle
                                          ELSE IF req[q].pc = "fill" THEN [req[q] EXCEPT !.stale = TRUE]
                                          ELSE req[q]]
       ELSE Goto(r, Idle) /\ UNCHANGED <<team, form, mixed>>
    /\ UNCHANGED <<roleOf, begun, demoted, dropped>>

\* ROLE_HAS_USERS.
DeleteBegins(r) ==
    /\ team.exists /\ Fresh(r)
    /\ Goto(r, IF Members = {} THEN [pc |-> "delete", id |-> team.id] ELSE Idle)
    /\ UNCHANGED <<roleOf, team, form, mixed, demoted, dropped>>
\* The foreign key sets null for whoever was assigned after the count.
Delete(r) ==
    /\ req[r].pc = "delete"
    /\ IF Still(r)
       THEN /\ team' = [team EXCEPT !.exists = FALSE, !.keys = {}]
            /\ roleOf' = [u \in Users |-> IF u \in Members THEN "none" ELSE roleOf[u]]
            /\ dropped' = dropped \union Members
       ELSE UNCHANGED <<team, roleOf, dropped>>
    /\ Goto(r, Idle)
    /\ UNCHANGED <<begun, form, mixed, demoted>>

Next == \E r \in Requests :
    \/ \E a, u \in Users, role \in {"owner", "team"} : AssignBegins(r, a, u, role)
    \/ \E keys \in SUBSET Keys : CreateBegins(r, keys) \/ UpdateBegins(r, keys)
    \/ CountOwners(r) \/ Assign(r) \/ Create(r) \/ Clear(r) \/ Fill(r)
    \/ DeleteBegins(r) \/ Delete(r)

Spec == Init /\ [][Next]_vars

-----------------------------------------------------------------------------
(* Properties.                                                             *)

\* Every variable keeps its type.
TypeOK ==
    /\ roleOf \in [Users -> {"owner", "team", "none"}]
    /\ team \in [exists : BOOLEAN, id : 0..MaxRequests, keys : SUBSET Keys] /\ form \subseteq Keys
    /\ mixed \in BOOLEAN /\ demoted \in BOOLEAN /\ dropped \subseteq Users

\* An owner is left, unless two of them were moved away by requests that counted
\* before either wrote.
OwnerRemains == demoted \/ Owners # {}

\* Nobody has a role that is gone, and whoever got one keeps one: only an
\* assignment between the count and the delete of a role loses it again.
RoleIsKept ==
    /\ Members # {} => team.exists
    /\ FirstOwners \ dropped \subseteq Owners \union Members

\* A role has the keys of the last form that was saved, unless that form was
\* saved together with another, which leaves the keys of both.
KeysAreAForm == team.exists /\ ~mixed => team.keys = form

RolesSound ==
    /\ OwnerRemains
    /\ RoleIsKept
    /\ KeysAreAForm
=============================================================================

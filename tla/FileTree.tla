------------------------------ MODULE FileTree ------------------------------
(***************************************************************************)
(* The file manager: folders, files, their objects in B2, and the shares   *)
(* and invites that name them (file-manager.service.ts, -share.service.ts, *)
(* -access.service.ts and consumeInvite of portal-auth.service.ts).  Every *)
(* handler checks on reads that nothing locks and writes later; the bulk   *)
(* handlers call the single ones in turn.                                  *)
(***************************************************************************)
EXTENDS Integers, FiniteSets, Sequences

CONSTANTS Folders,    \* "a" and "b" exist at first, side by side
          Files,      \* "x" in "b" exists at first
          Names,      \* "n" and "m" among them
          MaxOps,     \* bound of the requests, numbered as they come
          MaxFaults   \* bound of failing calls to B2 or to the database

VARIABLES folder,   \* FileManagerFolder
          file,     \* FileManagerFile
          objects,  \* what the bucket holds
          shares,   \* FileManagerShare: the folders and files shared
          invite,   \* the resource an invite will share, and its state
          op,       \* the requests under way
          crossed,  \* history: pairs of a write and a write that fell between
                    \* its checks and it
          faults

vars == <<folder, file, objects, shares, invite, op, crossed, faults>>

Root == "root"
Ops == 1..MaxOps
NoOp == [pc |-> "idle", kind |-> "", id |-> "", to |-> Root, name |-> "",
         ids |-> {}, met |-> {}]

Init ==
    /\ folder = [f \in Folders |->
           [is |-> IF f \in {"a", "b"} THEN "live" ELSE "new",
            parent |-> Root, name |-> IF f = "b" THEN "m" ELSE "n"]]
    /\ file = [x \in Files |-> [is |-> IF x = "x" THEN "live" ELSE "new", in |-> "b"]]
    /\ objects = {"x"}
    /\ shares = {} /\ invite = [state |-> "none", id |-> ""]
    /\ op = [o \in Ops |-> NoOp] /\ crossed = {} /\ faults = 0

-----------------------------------------------------------------------------
(* The tree.                                                               *)

LiveFolder(f) == f \in Folders /\ folder[f].is = "live"
LiveFile(x) == x \in Files /\ file[x].is = "live"
Exists(t) == t = Root \/ LiveFolder(t)

ChildrenOf(S) == {f \in Folders : LiveFolder(f) /\ folder[f].parent \in S}
\* S and everything below it; a cycle ends the walk, as the sets "seen" do.
Subtree(S) ==
    LET below[n \in 0..Cardinality(Folders)] ==
            IF n = 0 THEN S ELSE LET T == below[n - 1] IN T \union ChildrenOf(T)
    IN below[Cardinality(Folders)]
FilesIn(S) == {x \in Files : LiveFile(x) /\ file[x].in \in S}

\* assertNoFolderNameClash, and the unique index, which takes no two nulls as equal.
Clash(f, to, n) == \E g \in ChildrenOf({to}) \ {f} : folder[g].name = n
IndexAllows(f, to, n) == to # Root => ~Clash(f, to, n)

\* assertNotDescendantOf.  Mutant: only the folder itself is refused.
MayGoUnderSelf(f, to) == f # to
MayGoUnder(f, to) == to \notin Subtree({f})

-----------------------------------------------------------------------------
(* What is listed: to the team, and to the portal user the shares are for. *)

\* The breadcrumbs of f: up to the root, or as far as the folders of S go.
Trail(f, S) ==
    LET up[n \in 0..Cardinality(Folders)] ==
            IF n = 0 THEN <<f>>
            ELSE LET t == up[n - 1]
                     p == folder[Head(t)].parent
                 IN IF LiveFolder(p) /\ p \in S /\ \A i \in DOMAIN t : t[i] # p
                    THEN <<p>> \o t ELSE t
    IN up[Cardinality(Folders)]
Breadcrumbs(f) == Trail(f, Folders)

\* listTree: a folder under its parent, at the top when the parent is unknown.
TreeRoots == {f \in Folders : LiveFolder(f) /\ ~LiveFolder(folder[f].parent)}

\* computeScope: the shared folders, even gone ones, and all that lies below.
Shared == shares \intersect Folders
Open == Shared \union Subtree({s \in Shared : LiveFolder(s)})

\* listSharedTopLevel; listFolderFiltered under a scope.
TopLevel == {s \in shares : LiveFolder(s) \/ LiveFile(s)}
ListFiltered(f, scope) == (ChildrenOf({f}) \intersect scope) \union FilesIn({f})

\* What the portal user may see of the tree.
Visible == Open \union shares \union FilesIn(Open)

-----------------------------------------------------------------------------
(* Requests: the checks begin one, its write ends it.                      *)

Begin(o, rec) ==
    /\ op[o].pc = "idle" /\ \A q \in 1..(o - 1) : op[q].pc # "idle"
    /\ op' = [op EXCEPT ![o] = rec]

Pending(o) == op[o].pc \notin {"idle", "done"}

\* The write of o has been done, or refused when ok is false; a delete has
\* taken the objects by then.
Wrote(o, ok) ==
    /\ op' = [q \in Ops |->
          IF q = o THEN [op[q] EXCEPT !.pc = "done"]
          ELSE IF ok /\ Pending(q) THEN [op[q] EXCEPT !.met = @ \union {op[o].kind}]
          ELSE op[q]]
    /\ crossed' = IF ok \/ op[o].kind = "delete"
                  THEN crossed \union ({op[o].kind} \X op[o].met) ELSE crossed

Request(kind, id, to, name) ==
    [NoOp EXCEPT !.pc = "write", !.kind = kind, !.id = id, !.to = to, !.name = name]

CheckCreate(o, f, to, n) ==
    /\ folder[f].is = "new" /\ \A q \in Ops : op[q].id # f
    /\ Exists(to) /\ ~Clash(f, to, n)
    /\ Begin(o, Request("create", f, to, n))

CheckRename(o, f, n) ==
    /\ LiveFolder(f) /\ n # folder[f].name /\ ~Clash(f, folder[f].parent, n)
    /\ Begin(o, Request("rename", f, Root, n))

CheckMove(o, f, to) ==
    /\ LiveFolder(f) /\ to # f /\ Exists(to)
    /\ MayGoUnder(f, to) /\ ~Clash(f, to, folder[f].name)
    /\ Begin(o, Request("move", f, to, ""))

CheckMoveFile(o, x, to) ==
    /\ LiveFile(x) /\ Exists(to)
    /\ Begin(o, Request("moveFile", x, to, ""))

\* ensureResourceExists before the upsert.
CheckShare(o, id) ==
    /\ LiveFolder(id) \/ LiveFile(id)
    /\ Begin(o, Request("share", id, Root, ""))

Check(o) ==
    /\ \/ \E f \in Folders, n \in Names :
             \/ CheckRename(o, f, n)
             \/ \E to \in Folders \union {Root} : CheckCreate(o, f, to, n)
       \/ \E f \in Folders, to \in Folders \union {Root} : CheckMove(o, f, to)
       \/ \E x \in Files, to \in Folders \union {Root} : CheckMoveFile(o, x, to)
       \/ \E id \in Folders \union Files : CheckShare(o, id)
    /\ UNCHANGED <<folder, file, objects, shares, invite, crossed, faults>>

\* The update by id; the foreign key and the unique index may refuse it.
Target(o) ==
    CASE op[o].kind = "create" -> [is |-> "live", parent |-> op[o].to, name |-> op[o].name]
      [] op[o].kind = "rename" -> [folder[op[o].id] EXCEPT !.name = op[o].name]
      [] op[o].kind = "move"   -> [folder[op[o].id] EXCEPT !.parent = op[o].to]

WriteFolder(o) ==
    /\ op[o].pc = "write" /\ op[o].kind \in {"create", "rename", "move"}
    /\ LET f == op[o].id
           t == Target(o)
           ok == /\ op[o].kind = "create" \/ LiveFolder(f)
                 /\ Exists(t.parent) /\ IndexAllows(f, t.parent, t.name)
       IN /\ folder' = IF ok THEN [folder EXCEPT ![f] = t] ELSE folder
          /\ Wrote(o, ok)
    /\ UNCHANGED <<file, objects, shares, invite, faults>>

WriteFile(o) ==
    /\ op[o].pc = "write" /\ op[o].kind = "moveFile"
    /\ LET ok == LiveFile(op[o].id) /\ Exists(op[o].to)
       IN /\ file' = IF ok THEN [file EXCEPT ![op[o].id].in = op[o].to] ELSE file
          /\ Wrote(o, ok)
    /\ UNCHANGED <<folder, objects, shares, invite, faults>>

WriteShare(o) ==
    /\ op[o].pc = "write" /\ op[o].kind = "share"
    /\ shares' = shares \union {op[o].id}
    /\ Wrote(o, TRUE)
    /\ UNCHANGED <<folder, file, objects, invite, faults>>

-----------------------------------------------------------------------------
(* uploadFile: the object first, then the row.                             *)

Upload(o, x, to) ==
    /\ file[x].is = "new" /\ x \notin objects /\ Exists(to)
    /\ objects' = objects \union {x}
    /\ Begin(o, [Request("upload", x, to, "") EXCEPT !.pc = "row"])
    /\ UNCHANGED <<folder, file, shares, invite, crossed, faults>>

UploadRow(o) ==
    /\ op[o].pc = "row"
    /\ \/ LET ok == Exists(op[o].to)
          IN /\ file' = IF ok THEN [file EXCEPT ![op[o].id] = [is |-> "live", in |-> op[o].to]]
                              ELSE file
             /\ Wrote(o, ok)
             /\ UNCHANGED faults
       \/ /\ faults < MaxFaults /\ faults' = faults + 1
          /\ Wrote(o, FALSE) /\ UNCHANGED file
    /\ UNCHANGED <<folder, objects, shares, invite>>

-----------------------------------------------------------------------------
(* deleteFolder and deleteFile: a snapshot, the objects, then shares and   *)
(* rows in one transaction.  The rows go by cascade, the shares by id.     *)

Snapshot(id) == IF id \in Files THEN {id} ELSE Subtree({id}) \union FilesIn(Subtree({id}))

CheckDelete(o, id) ==
    /\ LiveFolder(id) \/ LiveFile(id)
    /\ Begin(o, [Request("delete", id, Root, "") EXCEPT !.pc = "objects", !.ids = Snapshot(id)])
    /\ UNCHANGED <<folder, file, objects, shares, invite, crossed, faults>>

\* A failing delete is logged and left.
DeleteObjects(o) ==
    /\ op[o].pc = "objects"
    /\ \/ objects' = objects \ op[o].ids /\ UNCHANGED faults
       \/ /\ faults < MaxFaults /\ faults' = faults + 1
          /\ UNCHANGED objects
    /\ op' = [op EXCEPT ![o].pc = "rows"]
    /\ UNCHANGED <<folder, file, shares, invite, crossed>>

Gone(id) == IF id \in Files THEN {id} ELSE Subtree({id}) \union FilesIn(Subtree({id}))

DeleteRows(o) ==
    /\ op[o].pc = "rows"
    /\ LET id == op[o].id
           ok == LiveFolder(id) \/ LiveFile(id)
           gone == IF ok THEN Gone(id) ELSE {}
       IN \/ /\ folder' = [f \in Folders |-> IF f \in gone THEN [folder[f] EXCEPT !.is = "gone"]
                                             ELSE folder[f]]
             /\ file' = [x \in Files |-> IF x \in gone THEN [file[x] EXCEPT !.is = "gone"]
                                         ELSE file[x]]
             /\ shares' = IF ok THEN shares \ op[o].ids ELSE shares
             /\ Wrote(o, ok)
             /\ UNCHANGED faults
          \/ /\ faults < MaxFaults /\ faults' = faults + 1
             /\ Wrote(o, FALSE)
             /\ UNCHANGED <<folder, file, shares>>
    /\ UNCHANGED <<objects, invite>>

-----------------------------------------------------------------------------
(* Invites name a resource when they are made and share it when consumed.  *)

CreateInvite(id) ==
    /\ invite.state = "none" /\ (LiveFolder(id) \/ LiveFile(id))
    /\ invite' = [state |-> "open", id |-> id]
    /\ UNCHANGED <<folder, file, objects, shares, op, crossed, faults>>

ConsumeInvite ==
    /\ invite.state = "open"
    /\ invite' = [invite EXCEPT !.state = "used"]
    /\ shares' = shares \union {invite.id}
    /\ UNCHANGED <<folder, file, objects, op, crossed, faults>>

Revoke ==
    /\ \/ /\ invite.state = "open" /\ invite' = [invite EXCEPT !.state = "revoked"]
          /\ UNCHANGED <<shares, op>>
       \/ /\ \E s \in shares : shares' = shares \ {s}
          /\ op' = [q \in Ops |-> IF op[q].pc = "view"
                                  THEN [op[q] EXCEPT !.met = @ \union {"revoke"}] ELSE op[q]]
          /\ UNCHANGED invite
    /\ UNCHANGED <<folder, file, objects, crossed, faults>>

-----------------------------------------------------------------------------
(* GET folders/:id of the portal user: the scope is computed first, the    *)
(* listing is read later.                                                  *)

ComputeScope(o, f) ==
    /\ shares # {} /\ f \in Open
    /\ Begin(o, [Request("view", f, Root, "") EXCEPT !.pc = "view", !.ids = Open])
    /\ UNCHANGED <<folder, file, objects, shares, invite, crossed, faults>>

\* canSeeFolder, then the listing; ids keeps what of it is not his any more.
ListFolder(o) ==
    /\ op[o].pc = "view"
    /\ LET f == op[o].id
           shown == IF LiveFolder(f) THEN ListFiltered(f, op[o].ids) ELSE {}
       IN op' = [op EXCEPT ![o].pc = "done", ![o].ids = shown \ Visible]
    /\ UNCHANGED <<folder, file, objects, shares, invite, crossed, faults>>

OpStep(o) ==
    \/ Check(o) \/ WriteFolder(o) \/ WriteFile(o) \/ WriteShare(o)
    \/ \E x \in Files, to \in Folders \union {Root} : Upload(o, x, to)
    \/ UploadRow(o)
    \/ \E id \in Folders \union Files : CheckDelete(o, id)
    \/ DeleteObjects(o) \/ DeleteRows(o)
    \/ \E f \in Folders : ComputeScope(o, f)
    \/ ListFolder(o)

Next ==
    \/ \E o \in Ops : OpStep(o)
    \/ \E id \in Folders \union Files : CreateInvite(id)
    \/ ConsumeInvite \/ Revoke

Spec == Init /\ [][Next]_vars

-----------------------------------------------------------------------------
(* Properties.                                                             *)

\* Every variable keeps its type.
TypeOK ==
    /\ folder \in [Folders -> [is : {"new", "live", "gone"}, parent : Folders \union {Root},
                               name : Names]]
    /\ file \in [Files -> [is : {"new", "live", "gone"}, in : Folders \union {Root}]]
    /\ objects \subseteq Files /\ shares \subseteq Folders \union Files
    /\ invite.state \in {"none", "open", "used", "revoked"}
    /\ \A o \in Ops : op[o].pc \in {"idle", "write", "row", "objects", "rows", "view", "done"}

Both(kinds) == crossed \intersect (kinds \X kinds) # {}

\* listTree shows every folder: the folders form a tree under the root.  Only
\* two moves whose checks overlap can tie a knot that no listing reaches.
EveryFolderListed ==
    ~Both({"move"}) => \A f \in Folders : LiveFolder(f) => f \in Subtree({Root})

\* Two folders side by side have different names, but for two requests that
\* overlap at the root, where the unique index does not see its nulls.
SiblingsDiffer ==
    \A f, g \in Folders :
        /\ f # g /\ LiveFolder(f) /\ LiveFolder(g)
        /\ folder[f].parent = folder[g].parent /\ folder[f].name = folder[g].name
        => folder[f].parent = Root /\ Both({"create", "rename", "move"})

\* A file that is listed can be downloaded: a row loses its object only to a
\* delete that it, or its folder, escaped by a move, or to a failed transaction.
RowHasObject ==
    \A x \in Files : LiveFile(x) /\ x \notin objects =>
        \/ faults > 0
        \/ \E o \in Ops : op[o].kind = "delete" /\ Pending(o)
        \/ Both({"delete", "move", "moveFile"})

\* The bucket keeps no object without a row, but for failed calls and for files
\* that came into a folder while it was being deleted.
ObjectHasRow ==
    \A x \in objects : ~LiveFile(x) =>
        \/ faults > 0
        \/ \E o \in Ops : op[o].id = x /\ Pending(o)
        \/ Both({"delete", "upload", "move", "moveFile"})
        \/ \E o \in Ops : op[o].kind = "upload" /\ "delete" \in op[o].met

\* A share names something that exists, unless an invite brought it or the
\* request that made it, or brought its resource into the folder, overlapped
\* a delete: resourceId is no foreign key and nothing else takes it away.
ShareHasResource ==
    \A s \in shares : ~LiveFolder(s) /\ ~LiveFile(s) =>
        \/ invite = [state |-> "used", id |-> s]
        \/ \E p \in crossed : "delete" \in {p[1], p[2]}

\* The breadcrumbs lead from the top to every folder, and the sidebar's tree
\* hangs from the same folders: only a knot has no top.
TrailFromTop ==
    ~Both({"move"}) => \A f \in Folders : LiveFolder(f) => Breadcrumbs(f)[1] \in TreeRoots

\* Whatever folder is open to the portal user he reaches by clicking from his
\* top level: the walk down of the query and the walk up of the breadcrumbs
\* agree on where his part of the tree begins.
PortalFindsWay ==
    ~Both({"move"}) => \A f \in Open : LiveFolder(f) =>
        LET t == Trail(f, Open)
        IN /\ t[1] \in TopLevel
           /\ \A i \in 1..(Len(t) - 1) : t[i + 1] \in ListFiltered(t[i], Open)

\* The portal user is shown nothing outside his shares, unless a folder was
\* moved or deleted, or a share taken, between his scope and his listing.
PortalSeesOwn ==
    \A o \in Ops : op[o].kind = "view" /\ op[o].pc = "done" /\ op[o].ids # {}
        => op[o].met \intersect {"move", "delete", "revoke"} # {}

\* What the file manager keeps consistent without locks.
FilesSafe ==
    /\ EveryFolderListed
    /\ SiblingsDiffer
    /\ RowHasObject
    /\ ObjectHasRow
    /\ ShareHasResource
    /\ TrailFromTop
    /\ PortalFindsWay
    /\ PortalSeesOwn
=============================================================================

------------------------------ MODULE FileTree ------------------------------
(***************************************************************************)
(* The folders and files of one user: user_file rows with their parent,    *)
(* name and recycle flag, and the requests that create, rename, move, copy,*)
(* recycle, restore and purge them (internal/service/user_file.go).        *)
(*                                                                         *)
(* A request is a process whose steps are its SQL statements: the subfolder *)
(* check of a move walks up the tree one SELECT at a time, copies and      *)
(* purges walk it downwards, and the tree may change between two steps.    *)
(***************************************************************************)
EXTENDS Naturals, Sequences, FiniteSets

CONSTANTS
    Sessions,      \* HTTP connections of the user, one request each
    Names,         \* file names
    OpsOf,         \* the requests each session makes: subsets of OpNames
    MaxEntries,    \* bound on the rows inserted in a behaviour
    MaxRequests,   \* bound on the requests of several statements
    MaxActive,     \* such requests served at the same time
    MaxBatch,      \* bound on the file_ids of a request
    Root,          \* parent_id IS NULL
    Null

OpNames == {"mkdir", "upload", "rename", "move", "copy", "recycle", "restore", "purge"}

Ids == 1 .. MaxEntries

ASSUME TreeAssumption ==
    /\ OpsOf \in [Sessions -> SUBSET OpNames]
    /\ MaxEntries \in Nat /\ MaxRequests \in Nat
    /\ Root \notin Ids /\ Null \notin Ids /\ Null # Root
    /\ Null \notin Names

VARIABLES
    used,       \* the last autoincrement id
    entries,    \* ids of the rows that exist
    dirs,       \* ids inserted with is_dir = 1
    bin,        \* the entries with is_deleted = 1
    parent,     \* parent_id
    name,       \* the name column
    pc,         \* the next statement of each session's request
    req,        \* the request's arguments and local variables
    left        \* requests that may still be made

treeVars == <<used, entries, dirs, bin, parent, name>>
vars == <<treeVars, pc, req, left>>

Steps == {"idle", "mk_count", "mk_insert", "rn_count", "rn_update",
          "walk_from", "walk", "mv_find", "mv_count", "mv_update",
          "cp_target", "cp_find", "cp_count", "cp_insert", "cp_children",
          "pg_children", "pg_delete"}

(* A call in progress: the folder it works in and the rows it has yet to do. *)
Frame == [dir : Ids \cup {Root}, rows : SUBSET (Ids \X Names)]

(* files: file_ids; target: target_id or parent_id; name: the name sent;       *)
(* todo: files the subfolder check has yet to pass; file: the file in hand;    *)
(* cur: the walk's currentParent; stack: the calls in progress, innermost first. *)
Request == [files : SUBSET Ids, target : Ids \cup {Root, Null}, name : Names \cup {Null},
            todo : SUBSET Ids, file : Ids \cup {Null}, cur : Ids \cup {Root, Null},
            stack : Seq(Frame)]
NoArgs == [files |-> {}, target |-> Null, name |-> Null, todo |-> {}, file |-> Null,
           cur |-> Null, stack |-> <<>>]

TypeOK ==
    /\ used \in 0 .. MaxEntries
    /\ entries \subseteq 1 .. used
    /\ dirs \subseteq 1 .. used
    /\ bin \subseteq entries
    /\ parent \in [Ids -> Ids \cup {Root}]
    /\ \A e \in entries : parent[e] \in entries \cup {Root}
    /\ name \in [Ids -> Names \cup {Null}]
    /\ \A e \in entries : name[e] \in Names
    /\ pc \in [Sessions -> Steps]
    /\ req \in [Sessions -> Request]
    /\ left \in 0 .. MaxRequests

Init ==
    /\ used = 0
    /\ entries = {}
    /\ dirs = {}
    /\ bin = {}
    /\ parent = [e \in Ids |-> Root]
    /\ name = [e \in Ids |-> Null]
    /\ pc = [s \in Sessions |-> "idle"]
    /\ req = [s \in Sessions |-> NoArgs]
    /\ left = MaxRequests

-----------------------------------------------------------------------------
(* deleted_at hides recycled rows from every statement that is not Unscoped. *)
Live    == entries \ bin
Folders == Live \cap dirs

Children(f) == {e \in entries : parent[e] = f}
Rows(S) == {<<e, name[e]>> : e \in S}

Batches == {F \in SUBSET entries : F # {} /\ Cardinality(F) <= MaxBatch}

(* The count of Move and Copy: a live entry of that name in folder f. *)
Taken(f, n) == \E e \in Live : parent[e] = f /\ name[e] = n

(* uk_user_parent_name_active: NULL parents never clash. *)
Clash(f, n, deleted, E) ==
    /\ f # Root
    /\ \E e \in entries \ E : parent[e] = f /\ name[e] = n /\ (e \in bin) = deleted

At(s, step) == pc[s] = step
Goto(s, step, args) ==
    /\ pc' = [pc EXCEPT ![s] = step]
    /\ req' = [req EXCEPT ![s] = args]
Return(s) == Goto(s, "idle", NoArgs)

Begin(s, op, step, args) ==
    /\ At(s, "idle")
    /\ op \in OpsOf[s]
    /\ left > 0
    /\ Cardinality({t \in Sessions : ~ At(t, "idle")}) < MaxActive
    /\ left' = left - 1
    /\ Goto(s, step, args)
    /\ UNCHANGED treeVars

(* A single UPDATE or INSERT. *)
AtOnce(s, op) ==
    /\ At(s, "idle")
    /\ op \in OpsOf[s]
    /\ UNCHANGED <<pc, req, left>>

(* INSERT INTO user_file: foreign key and unique index permitting; a full   *)
(* table (MaxEntries) refuses it as well.                                   *)
Insertable(f, n) ==
    /\ used < MaxEntries
    /\ f \in entries \cup {Root}
    /\ ~ Clash(f, n, FALSE, {})

Insert(f, n, dir) ==
    /\ used' = used + 1
    /\ entries' = entries \cup {used + 1}
    /\ dirs' = IF dir THEN dirs \cup {used + 1} ELSE dirs
    /\ parent' = [parent EXCEPT ![used + 1] = f]
    /\ name' = [name EXCEPT ![used + 1] = n]
    /\ UNCHANGED bin

-----------------------------------------------------------------------------
(* CreateFolder: look the parent up, count folders of that name, insert. *)
CreateFolder(s) == \E f \in Folders \cup {Root}, n \in Names :
    Begin(s, "mkdir", "mk_count", [NoArgs EXCEPT !.target = f, !.name = n])

CountFolder(s) ==
    /\ At(s, "mk_count")
    /\ IF \E e \in Folders : parent[e] = req[s].target /\ name[e] = req[s].name
         THEN Return(s)
         ELSE Goto(s, "mk_insert", req[s])
    /\ UNCHANGED <<treeVars, left>>

InsertFolder(s) ==
    /\ At(s, "mk_insert")
    /\ IF Insertable(req[s].target, req[s].name)
         THEN Insert(req[s].target, req[s].name, TRUE)
         ELSE UNCHANGED treeVars
    /\ Return(s)
    /\ UNCHANGED left

(* CreateUserFile, the end of every upload: one INSERT into a folder the    *)
(* client has seen, which may be recycled by now.                           *)
CreateUserFile(s) == \E f \in (entries \cap dirs) \cup {Root}, n \in Names :
    /\ AtOnce(s, "upload")
    /\ Insertable(f, n)
    /\ Insert(f, n, FALSE)

-----------------------------------------------------------------------------
(* RenameFile: read the file, count its namesakes, update. *)
RenameFile(s) == \E e \in Live, n \in Names :
    Begin(s, "rename", "rn_count", [NoArgs EXCEPT !.file = e, !.cur = parent[e], !.name = n])

(* parent_id = NULL is never true: in the root folder nothing is counted. *)
CountNamesakes(s) ==
    /\ At(s, "rn_count")
    /\ IF /\ req[s].cur # Root
          /\ \E e \in Live \ {req[s].file} : parent[e] = req[s].cur /\ name[e] = req[s].name
         THEN Return(s)
         ELSE Goto(s, "rn_update", req[s])
    /\ UNCHANGED <<treeVars, left>>

UpdateName(s) ==
    /\ At(s, "rn_update")
    /\ LET e == req[s].file IN
         IF e \in Live /\ ~ Clash(parent[e], req[s].name, FALSE, {e})
           THEN name' = [name EXCEPT ![e] = req[s].name]
           ELSE UNCHANGED name
    /\ Return(s)
    /\ UNCHANGED <<used, entries, dirs, bin, parent, left>>

-----------------------------------------------------------------------------
(* mutant: the target may be one of the files *)
MoveIntoSelf(s) == \E F \in Batches, t \in Folders \cup {Root} :
    Begin(s, "move", IF t = Root THEN "mv_find" ELSE "walk_from",
          [NoArgs EXCEPT !.files = F, !.target = t, !.todo = F])

(* MoveFiles: the target is a live folder and none of the files. *)
MoveFiles(s) == \E F \in Batches, t \in Folders \cup {Root} :
    /\ t \notin F
    /\ Begin(s, "move", IF t = Root THEN "mv_find" ELSE "walk_from",
             [NoArgs EXCEPT !.files = F, !.target = t, !.todo = F])

(* The file is not above the target: the next one is checked. *)
Passed(s, e) ==
    LET rest == req[s].todo \ {e} IN
    Goto(s, IF rest = {} THEN "mv_find" ELSE "walk_from",
         [req[s] EXCEPT !.todo = rest, !.file = Null, !.cur = Null])

(* isChildFolder goes on from folder f, or ends: at the root the file e is   *)
(* passed, at e itself the move is refused.                                  *)
Climb(s, e, f) ==
    \/ f = Root /\ Passed(s, e)
    \/ f = e /\ Return(s)
    \/ f \notin {Root, e} /\ Goto(s, "walk", [req[s] EXCEPT !.file = e, !.cur = f])

(* A row that is not found, recycled ones included, ends the walk with "no". *)
ClimbFrom(s, e, f) == IF f \in Live THEN Climb(s, e, parent[f]) ELSE Passed(s, e)

WalkFrom(s) ==
    /\ At(s, "walk_from")
    /\ \E e \in req[s].todo : ClimbFrom(s, e, req[s].target)
    /\ UNCHANGED <<treeVars, left>>

Walk(s) ==
    /\ At(s, "walk")
    /\ ClimbFrom(s, req[s].file, req[s].cur)
    /\ UNCHANGED <<treeVars, left>>

FindMoved(s) ==
    /\ At(s, "mv_find")
    /\ IF req[s].files \subseteq Live
         THEN Goto(s, "mv_count", [req[s] EXCEPT !.stack =
                  <<[dir |-> req[s].target, rows |-> Rows(req[s].files)]>>])
         ELSE Return(s)
    /\ UNCHANGED <<treeVars, left>>

CountMoved(s) ==
    /\ At(s, "mv_count")
    /\ LET top == Head(req[s].stack) IN \E r \in top.rows :
         IF Taken(top.dir, r[2])
           THEN Return(s)
           ELSE Goto(s, IF top.rows = {r} THEN "mv_update" ELSE "mv_count",
                     [req[s] EXCEPT !.stack = <<[top EXCEPT !.rows = @ \ {r}]>>])
    /\ UNCHANGED <<treeVars, left>>

(* The files that are still live get the new parent, all of them or, when   *)
(* the foreign key or the unique index refuses one, none.                    *)
UpdateParent(s) ==
    /\ At(s, "mv_update")
    /\ LET t == req[s].target
           moved == req[s].files \cap Live
       IN IF /\ t \in entries \cup {Root}
             /\ \A e \in moved : ~ Clash(t, name[e], FALSE, moved)
             /\ t # Root => \A d, e \in moved : name[d] = name[e] => d = e
            THEN parent' = [e \in Ids |-> IF e \in moved THEN t ELSE parent[e]]
            ELSE UNCHANGED parent
    /\ Return(s)
    /\ UNCHANGED <<used, entries, dirs, bin, name, left>>

-----------------------------------------------------------------------------
(* CopyFiles, which calls itself for the children of a folder: nobody asks  *)
(* whether the target lies below what is copied.                            *)
CopyFiles(s) == \E F \in Batches, t \in Folders \cup {Root} :
    Begin(s, "copy", "cp_find", [NoArgs EXCEPT !.files = F, !.target = t])

CopyTarget(s) ==
    /\ At(s, "cp_target")
    /\ IF req[s].target \in Folders THEN Goto(s, "cp_find", req[s]) ELSE Return(s)
    /\ UNCHANGED <<treeVars, left>>

FindCopied(s) ==
    /\ At(s, "cp_find")
    /\ IF req[s].files \subseteq Live
         THEN Goto(s, "cp_count", [req[s] EXCEPT !.stack =
                  <<[dir |-> req[s].target, rows |-> Rows(req[s].files)]>> \o @])
         ELSE Return(s)
    /\ UNCHANGED <<treeVars, left>>

CountCopied(s) ==
    /\ At(s, "cp_count")
    /\ LET top == Head(req[s].stack) IN \E r \in top.rows :
         IF Taken(top.dir, r[2])
           THEN Return(s)
           ELSE Goto(s, "cp_insert", [req[s] EXCEPT !.file = r[1], !.name = r[2]])
    /\ UNCHANGED <<treeVars, left>>

(* On to the next row of this call or of the one that made it. *)
NextCopy(s, stack) ==
    IF stack = <<>> THEN Return(s) ELSE Goto(s, "cp_count", [NoArgs EXCEPT !.stack = stack])

(* A call whose last row this is leaves the stack. *)
InsertCopy(s) ==
    /\ At(s, "cp_insert")
    /\ LET top  == Head(req[s].stack)
           rows == top.rows \ {<<req[s].file, req[s].name>>}
           rest == (IF rows = {} THEN <<>> ELSE <<[top EXCEPT !.rows = rows]>>)
                       \o Tail(req[s].stack)
           dir  == req[s].file \in dirs
       IN IF ~ Insertable(top.dir, req[s].name)
            THEN Return(s) /\ UNCHANGED treeVars
            ELSE /\ Insert(top.dir, req[s].name, dir)
                 /\ IF dir
                      THEN Goto(s, "cp_children", [req[s] EXCEPT !.stack = rest, !.target = used + 1])
                      ELSE NextCopy(s, rest)
    /\ UNCHANGED left

CopyChildren(s) ==
    /\ At(s, "cp_children")
    /\ LET children == Children(req[s].file) \cap Live IN
         IF children = {}
           THEN NextCopy(s, req[s].stack)
           ELSE Goto(s, "cp_target", [req[s] EXCEPT !.files = children])
    /\ UNCHANGED <<treeVars, left>>

-----------------------------------------------------------------------------
(* MoveToRecycle and BatchMoveToRecycle: one UPDATE, which marks the files   *)
(* and not what lies below them; the unique index covers the bin as well.    *)
Recycle(s) == \E F \in Batches :
    /\ AtOnce(s, "recycle")
    /\ F \subseteq Live
    /\ \A e \in F : ~ Clash(parent[e], name[e], TRUE, {})
    /\ bin' = bin \cup F
    /\ UNCHANGED <<used, entries, dirs, parent, name>>

RestoreFile(s) == \E e \in bin :
    /\ AtOnce(s, "restore")
    /\ ~ Clash(parent[e], name[e], FALSE, {})
    /\ bin' = bin \ {e}
    /\ UNCHANGED <<used, entries, dirs, parent, name>>

(* mutant: the recycle flag is not asked for *)
DeleteAnyRecord(s) == \E e \in entries :
    Begin(s, "purge", IF e \in dirs THEN "pg_children" ELSE "pg_delete", [NoArgs EXCEPT !.file = e])

(* DeleteFileRecord reads a recycled file and deletes it, a folder after    *)
(* everything below it.                                                     *)
DeleteFileRecord(s) == \E e \in bin :
    Begin(s, "purge", IF e \in dirs THEN "pg_children" ELSE "pg_delete", [NoArgs EXCEPT !.file = e])

(* deleteFolderRecursively: the next child, or the folder itself. *)
NextPurge(s, stack) ==
    IF stack = <<>> THEN Return(s) ELSE
      LET top == Head(stack) IN
      IF top.rows = {}
        THEN Goto(s, "pg_delete", [NoArgs EXCEPT !.file = top.dir, !.stack = Tail(stack)])
        ELSE \E r \in top.rows :
               Goto(s, IF r[1] \in dirs THEN "pg_children" ELSE "pg_delete",
                    [NoArgs EXCEPT !.file = r[1],
                                   !.stack = <<[top EXCEPT !.rows = @ \ {r}]>> \o Tail(stack)])

(* SELECT of the children, recycled ones included. *)
PurgeChildren(s) ==
    /\ At(s, "pg_children")
    /\ NextPurge(s, <<[dir |-> req[s].file, rows |-> Rows(Children(req[s].file))]>> \o req[s].stack)
    /\ UNCHANGED <<treeVars, left>>

(* mutant: the recycle flag outlives the row *)
PurgeKeepsBin(s) ==
    /\ At(s, "pg_delete")
    /\ Children(req[s].file) = {}
    /\ entries' = entries \ {req[s].file}
    /\ NextPurge(s, req[s].stack)
    /\ UNCHANGED <<used, dirs, bin, parent, name, left>>

(* mutant: a refused delete is tried again *)
PurgeRetries(s) ==
    /\ At(s, "pg_delete")
    /\ LET e == req[s].file IN
         IF Children(e) = {}
           THEN /\ entries' = entries \ {e}
                /\ bin' = bin \ {e}
                /\ NextPurge(s, req[s].stack)
           ELSE UNCHANGED <<entries, bin, pc, req>>
    /\ UNCHANGED <<used, dirs, parent, name, left>>

(* DELETE FROM user_file: no row is no error, a row with children is refused *)
(* by the foreign key and ends the purge.                                    *)
PurgeEntry(s) ==
    /\ At(s, "pg_delete")
    /\ LET e == req[s].file IN
         IF Children(e) = {}
           THEN /\ entries' = entries \ {e}
                /\ bin' = bin \ {e}
                /\ NextPurge(s, req[s].stack)
           ELSE UNCHANGED <<entries, bin>> /\ Return(s)
    /\ UNCHANGED <<used, dirs, parent, name, left>>

-----------------------------------------------------------------------------
(* A statement fails, or the process ends: what is written stays. *)
Abort(s) ==
    /\ ~ At(s, "idle")
    /\ Return(s)
    /\ UNCHANGED <<treeVars, left>>

Call(s) ==
    \/ CreateFolder(s) \/ CreateUserFile(s) \/ RenameFile(s) \/ MoveFiles(s) \/ CopyFiles(s)
    \/ Recycle(s) \/ RestoreFile(s) \/ DeleteFileRecord(s)

Step(s) ==
    \/ CountFolder(s) \/ InsertFolder(s) \/ CountNamesakes(s) \/ UpdateName(s)
    \/ WalkFrom(s) \/ Walk(s) \/ FindMoved(s) \/ CountMoved(s) \/ UpdateParent(s)
    \/ CopyTarget(s) \/ FindCopied(s) \/ CountCopied(s) \/ InsertCopy(s) \/ CopyChildren(s)
    \/ PurgeChildren(s) \/ PurgeEntry(s)

Next == \E s \in Sessions : Call(s) \/ Step(s) \/ Abort(s)

Spec == Init /\ [][Next]_vars

(* The server goes on with the requests it serves. *)
FairSpec == Spec /\ \A s \in Sessions : WF_vars(Step(s))

-----------------------------------------------------------------------------
(* Properties. *)

(* Who may do what: one session moves, nothing is recycled, what a session   *)
(* purges nobody else restores or moves.                                      *)
OneMover    == \A s, t \in Sessions : "move" \in OpsOf[s] \cap OpsOf[t] => s = t
NoRecycle   == \A s \in Sessions : "recycle" \notin OpsOf[s]
PurgerAlone == \A s, t \in Sessions :
    "purge" \in OpsOf[s] /\ OpsOf[t] \cap {"restore", "move"} # {} => s = t

(* The entries form a forest: no group of them has all its parents in itself, *)
(* so every entry is reached from the root and every walk ends.  MoveFiles     *)
(* keeps it with a subfolder check whose SELECTs precede its UPDATE.           *)
Forest == \A S \in SUBSET entries : S # {} => \E e \in S : parent[e] \notin S

(* Entry e, or a folder above it, lies in the recycle bin: whoever climbs     *)
(* from e meets the bin.                                                       *)
Closed(S) == \A e \in S : parent[e] \in S \cup {Root}
Recycled(e) == \A S \in SUBSET entries : e \in S /\ Closed(S) => S \cap bin # {}

(* Only what lies in the recycle bin, itself or in a recycled folder, is     *)
(* deleted for good, whatever is created, copied or renamed below the folder  *)
(* while deleteFolderRecursively works its way through it.                    *)
PurgesRecycled == [][\A e \in entries \ entries' : Recycled(e)]_vars

(* The climb of isChildFolder, whose loop has no bound, comes to an end. *)
WalkEnds == \A s \in Sessions : At(s, "walk") ~> ~ At(s, "walk")

(* The descent of deleteFolderRecursively comes to an end, whatever is put   *)
(* into the folders meanwhile.                                               *)
PurgeEnds == \A s \in Sessions : At(s, "pg_children") ~> At(s, "idle")

=============================================================================

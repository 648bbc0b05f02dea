------------------------------ MODULE Listings ------------------------------
(***************************************************************************)
(* Folder listings of one user and their cache in Redis                    *)
(* (service/user_file.go GetFileList and the invalidateFileListCache of    *)
(* the requests that change a folder; utils/cache.go).                     *)
(*                                                                         *)
(* What matters of an entry is which folder lists it, and whether it is in *)
(* the recycle bin or purged.  FileTree has the tree with its names and    *)
(* checks; here a request is the query that tells which listings it will   *)
(* invalidate, the statement that changes the table, and the               *)
(* invalidations.  pc[s] names the next of them.                           *)
(***************************************************************************)
EXTENDS Integers, FiniteSets

CONSTANTS
    Sessions,      \* requests of the user that are served at a time
    Files,         \* entries that are or may be inserted
    Folders,       \* the folders that are listed
    MaxRequests,   \* bound on the requests of a behaviour
    Null

New    == "new"
Purged == "purged"

(* What is assumed of these constants; Views, which has both modules, does so. *)
ListingsConstants ==
    /\ {New, Purged, Null} \cap Folders = {}
    /\ MaxRequests \in Nat
    /\ IsFiniteSet(Files)

VARIABLES
    home,       \* parent_id of an entry; New, Purged: it has no row (yet)
    binned,     \* the entries with is_deleted = 1
    cache,      \* user:file:list:<user>:<folder>: a listing, or Null
    pc, req,    \* next call and local variables of each session
    doubts,     \* why a cached listing may be stale; no part of the program
    left        \* requests that may still be made

tableVars == <<home, binned>>
vars == <<tableVars, cache, pc, req, doubts, left>>

Changes == {"recycle", "restore", "move", "copy", "purge"}
Steps == Changes \cup {"idle", "count", "find", "fill", "invalidate"}

(* dir: the folder listed; total, found: the answers of Count and Find;       *)
(* files: file_ids of a change, of a copy those left to do; target: where to; *)
(* flush: listings to be invalidated; raced: another session changed, since   *)
(* it was read, what this one relies on (no part of the program).             *)
NoArgs == [dir |-> Null, total |-> 0, found |-> {}, files |-> {}, target |-> Null,
           flush |-> {}, raced |-> FALSE]

Totals   == 0 .. Cardinality(Files)
Listing  == [files : SUBSET Files, total : Totals]
Reasons  == {"fill", "change", "copy"}

TypeOK ==
    /\ home \in [Files -> Folders \cup {New, Purged}]
    /\ binned \subseteq {f \in Files : home[f] \in Folders}
    /\ \A d \in Folders : cache[d] \in Listing \cup {Null}
    /\ pc \in [Sessions -> Steps]
    /\ req \in [Sessions -> [dir : Folders \cup {Null}, total : Totals, found : SUBSET Files,
                             files : SUBSET Files, target : Folders \cup {Null},
                             flush : SUBSET Folders, raced : BOOLEAN]]
    /\ doubts \in [Folders -> SUBSET Reasons]
    /\ left \in 0 .. MaxRequests

(* Any tree, of which nothing is cached. *)
Init ==
    /\ home \in [Files -> Folders \cup {New}]
    /\ binned = {}
    /\ cache = [d \in Folders |-> Null]
    /\ pc = [s \in Sessions |-> "idle"]
    /\ req = [s \in Sessions |-> NoArgs]
    /\ doubts = [d \in Folders |-> {}]
    /\ left = MaxRequests

-----------------------------------------------------------------------------
At(s, step) == pc[s] = step
Goto(s, step, args) ==
    /\ pc' = [pc EXCEPT ![s] = step]
    /\ req' = [req EXCEPT ![s] = args]
Return(s) == Goto(s, "idle", NoArgs)

Request(s) ==
    /\ At(s, "idle")
    /\ left > 0
    /\ left' = left - 1

Live == {f \in Files : home[f] \in Folders} \ binned
Listed(d) == {f \in Live : home[f] = d}
Truth(d) == [files |-> Listed(d), total |-> Cardinality(Listed(d))]
Homes(F) == {home[f] : f \in F} \cap Folders

Drop(d) ==
    /\ cache' = [cache EXCEPT ![d] = Null]
    /\ doubts' = [doubts EXCEPT ![d] = {}]

(* s has changed the rows of F and goes on at step with args; whoever relies *)
(* on them or on the listings they were or are in is told.                   *)
Changed(s, F, step, args) ==
    LET touched == Homes(F) \cup ({home'[f] : f \in F} \cap Folders)
        relies(t) == t # s /\ (req[t].dir \in touched \/ req[t].files \cap F # {})
    IN /\ pc' = [pc EXCEPT ![s] = step]
       /\ req' = [t \in Sessions |-> IF t = s THEN args
                                     ELSE [req[t] EXCEPT !.raced = @ \/ relies(t)]]
       /\ doubts' = [d \in Folders |->
                        doubts[d] \cup IF req[s].raced /\ d \in touched THEN {"change"} ELSE {}]
       /\ UNCHANGED cache

-----------------------------------------------------------------------------
(* GetFileList: a cached listing is the answer, if there is one. *)
GetFileList(s) == \E d \in Folders :
    /\ Request(s)
    /\ cache[d] = Null
    /\ Goto(s, "count", [NoArgs EXCEPT !.dir = d])
    /\ UNCHANGED <<tableVars, cache, doubts>>

(* Count and Find are two queries: they may disagree. *)
CountFiles(s) ==
    /\ At(s, "count")
    /\ Goto(s, "find", [req[s] EXCEPT !.total = Cardinality(Listed(req[s].dir)), !.raced = FALSE])
    /\ UNCHANGED <<tableVars, cache, doubts, left>>

FindFiles(s) ==
    /\ At(s, "find")
    /\ Goto(s, "fill", [req[s] EXCEPT !.found = Listed(req[s].dir)])
    /\ UNCHANGED <<tableVars, cache, doubts, left>>

(* SetUserFileListToCache, over what is there. *)
FillCache(s) ==
    LET d == req[s].dir
    IN /\ At(s, "fill")
       /\ cache' = [cache EXCEPT ![d] = [files |-> req[s].found, total |-> req[s].total]]
       /\ doubts' = [doubts EXCEPT ![d] = IF req[s].raced THEN {"fill"} ELSE {}]
       /\ Return(s)
       /\ UNCHANGED <<tableVars, left>>

(* The two minutes of a cached listing are over. *)
Expire(d) ==
    /\ cache[d] # Null
    /\ Drop(d)
    /\ UNCHANGED <<tableVars, pc, req, left>>

-----------------------------------------------------------------------------
(* InvalidateUserFileListCache, one folder after the other in any order: *)
(* parentIDs is a Go map.                                                *)
Invalidate(s) == \E d \in req[s].flush :
    LET rest == req[s].flush \ {d}
    IN /\ At(s, "invalidate")
       /\ Drop(d)
       /\ IF rest = {} THEN Return(s) ELSE Goto(s, "invalidate", [req[s] EXCEPT !.flush = rest])
       /\ UNCHANGED <<tableVars, left>>

(* CreateUserFile, CreateUserDir, CreateFolder. *)
Create(s) == \E f \in Files, d \in Folders :
    /\ Request(s)
    /\ home[f] = New
    /\ home' = [home EXCEPT ![f] = d]
    /\ UNCHANGED binned
    /\ Changed(s, {f}, "invalidate", [NoArgs EXCEPT !.flush = {d}])

(* mutant: a move invalidates the listings it takes files from only *)
FlushSource(op, F, d) == IF op = "copy" THEN {d} ELSE Homes(F)

(* The requests that look first: BatchMoveToRecycle, MoveFiles and CopyFiles  *)
(* find the live rows of a batch, RestoreFile and DeleteFileRecord one row of *)
(* the bin.  They invalidate where the files were found, a move the target    *)
(* too and a copy only that.                                                  *)
FlushOf(op, F, d) == CASE op = "move" -> Homes(F) \cup {d}
                       [] op = "copy" -> {d}
                       [] OTHER       -> Homes(F)

Look(s) == \E op \in Changes, F \in SUBSET Files, d \in Folders :
    /\ Request(s)
    /\ F # {}
    /\ IF op \in {"restore", "purge"}
         THEN F \subseteq binned /\ Cardinality(F) = 1
         ELSE F \subseteq Live
    /\ Goto(s, op, [NoArgs EXCEPT !.files = F, !.target = d, !.flush = FlushOf(op, F, d)])
    /\ UNCHANGED <<tableVars, cache, doubts>>

(* The UPDATE of a recycle, a restore or a move hits the rows that still *)
(* qualify.                                                              *)
Update(s) ==
    LET F == req[s].files
    IN /\ \/ At(s, "recycle") /\ binned' = binned \cup (F \cap Live) /\ UNCHANGED home
          \/ At(s, "restore") /\ binned' = binned \ F /\ UNCHANGED home
          \/ /\ At(s, "move")
             /\ home' = [f \in Files |-> IF f \in F \cap Live THEN req[s].target ELSE home[f]]
             /\ UNCHANGED binned
       /\ Changed(s, F, "invalidate", req[s])
       /\ UNCHANGED left

(* mutant: the flag of a deleted row survives *)
PurgeKeepsBin(s) ==
    LET F == req[s].files
    IN /\ At(s, "purge")
       /\ home' = [f \in Files |-> IF f \in F THEN Purged ELSE home[f]]
       /\ UNCHANGED binned
       /\ Changed(s, F, "invalidate", req[s])
       /\ UNCHANGED left

(* DELETE goes by the id alone: a row that was restored meanwhile goes, too. *)
Purge(s) ==
    LET F == req[s].files
    IN /\ At(s, "purge")
       /\ home' = [f \in Files |-> IF f \in F THEN Purged ELSE home[f]]
       /\ binned' = binned \ F
       /\ Changed(s, F, "invalidate", req[s])
       /\ UNCHANGED left

(* CopyFiles inserts the copies one by one ... *)
CopyFile(s) == \E f \in req[s].files, new \in Files :
    /\ At(s, "copy")
    /\ home[new] = New
    /\ home' = [home EXCEPT ![new] = req[s].target]
    /\ UNCHANGED <<binned, left>>
    /\ Changed(s, {new}, "copy", [req[s] EXCEPT !.files = @ \ {f}])

(* ... and invalidates after the last, *)
CopyDone(s) ==
    /\ At(s, "copy")
    /\ req[s].files = {}
    /\ Goto(s, "invalidate", req[s])
    /\ UNCHANGED <<tableVars, cache, doubts, left>>

(* but not when a name is taken or a statement fails on the way: the copies *)
(* made so far stay.                                                        *)
CopyFails(s) ==
    /\ At(s, "copy")
    /\ Return(s)
    /\ doubts' = [doubts EXCEPT ![req[s].target] = @ \cup {"copy"}]
    /\ UNCHANGED <<tableVars, cache, left>>

Read(s)   == CountFiles(s) \/ FindFiles(s) \/ FillCache(s)
Change(s) == Update(s) \/ Purge(s) \/ CopyFile(s) \/ CopyDone(s) \/ CopyFails(s) \/ Invalidate(s)

Next ==
    \/ \E s \in Sessions : GetFileList(s) \/ Create(s) \/ Look(s) \/ Read(s) \/ Change(s)
    \/ \E d \in Folders : Expire(d)

Spec == Init /\ [][Next]_vars

-----------------------------------------------------------------------------
(* Properties. *)

Stale(d) == cache[d] \notin {Null, Truth(d)}

(* A cached listing that differs from the table is about to be invalidated,   *)
(* or it was read while the folder was being changed, or two changes of the   *)
(* same entries overlapped, or a copy broke off: no request on its own leaves *)
(* a stale listing behind (user_file.go:313, 417, 523, 596).                  *)
StaleExplained == \A d \in Folders : Stale(d) =>
    \/ \E s \in Sessions : d \in req[s].flush
    \/ doubts[d] # {}

=============================================================================

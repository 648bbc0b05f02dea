----------------------------- MODULE ObjectRefs -----------------------------
(***************************************************************************)
(* Deduplicated file objects of CloudVault and the requests that share     *)
(* them: file_object rows with their ref_count, user_file rows that point  *)
(* at them, the MinIO bucket that holds the bytes and the Redis copy of a  *)
(* file_object row (internal/service/file_object.go, user_file.go).        *)
(*                                                                         *)
(* The service opens no database transaction, so a request is a process    *)
(* whose steps are its SQL statements and MinIO calls, and everything may  *)
(* happen between two of them.  pc[s] names the next call.                 *)
(***************************************************************************)
EXTENDS Naturals, Integers, FiniteSets

CONSTANTS
    Sessions,      \* HTTP connections; each serves one request at a time
    Users,         \* user_db rows
    UserOf,        \* the user a session is logged in as
    Hashes,        \* content hashes the clients upload
    Ops,           \* the requests made: a subset of OpNames
    Faults,        \* what goes wrong: a subset of FaultNames
    MaxActive,     \* requests served at the same time (1: one after another)
    MaxRequests,   \* bound on the requests of a behaviour
    Null

OpNames == {"fast", "complete", "copy", "purge"}

(* conflict: a user_file insert is refused (same name, parent gone), ...   *)
(* new_conflict: ... that of an upload which has just inserted its         *)
(*           file_object row;                                              *)
(* insert:   a file_object insert fails;                                   *)
(* minio:    GetObject and the rollback's RemoveObject fail;               *)
(* abort:    a request ends at any of its steps (statement error that the  *)
(*           code answers by returning, panic, process crash), ...         *)
(* copy_abort: ... a copy between its insert and its count included;       *)
(* lease:    the merge lock's 30 s run out while its holder still works.   *)
FaultNames == {"conflict", "new_conflict", "insert", "minio", "abort", "copy_abort", "lease"}

ASSUME ConstantsAssumption ==
    /\ UserOf \in [Sessions -> Users]
    /\ Ops \subseteq OpNames
    /\ Faults \subseteq FaultNames
    /\ MaxActive \in Nat
    /\ MaxRequests \in Nat
    /\ IsFiniteSet(Sessions)
    /\ Null \notin Hashes

(* Autoincrement ids.  A request creates at most one row of each table, so *)
(* the bound on requests bounds them too.                                  *)
ObjectIds == 1 .. MaxRequests
FileIds   == 1 .. MaxRequests

ASSUME NullAssumption ==
    /\ Null \notin OpNames
    /\ Null \notin ObjectIds
    /\ Null \notin [hash : Hashes, owner : Users]
    /\ Null \notin [user : Users, object : ObjectIds]

VARIABLES
    object,     \* what file_object id was inserted as, Null before that
    rows,       \* ids whose file_object row exists
    ref,        \* the ref_count column
    file,       \* what user_file id was inserted as, Null before that
    entries,    \* ids whose user_file row exists
    bin,        \* the entries with is_deleted = 1
    store,      \* names of the objects in the MinIO bucket
    cached,     \* ids whose file_object is cached in Redis
    cachedId,   \* the id cached for a hash
    pc,         \* the next call of each session's request
    req,        \* what that request works on
    lease,      \* sessions that hold a live merge lock
    left        \* requests that may still be made

objectVars == <<object, rows, ref>>
fileVars   == <<file, entries, bin>>
cacheVars  == <<cached, cachedId>>
vars == <<objectVars, fileVars, store, cacheVars, pc, req, lease, left>>

Steps == {"idle", "lookup", "fill", "avail", "inc", "entry", "dec", "dec_write",
          "put", "row", "put_undo", "row_cache", "undo_object", "undo_row",
          "repair_put", "repair_row", "copy_entry", "copy_inc",
          "purge_entry", "rm_read", "rm_object", "rm_row", "rm_cache"}

(* op: the handler; hash: the hash sent; obj: the file_object id held;       *)
(* file: the user_file id to purge; fresh: CompleteFile's createdNewObject.  *)
Args(o, h, id, e, new) == [op |-> o, hash |-> h, obj |-> id, file |-> e, fresh |-> new]
NoArgs == Args(Null, Null, Null, Null, FALSE)

TypeOK ==
    /\ object \in [ObjectIds -> [hash : Hashes, owner : Users] \cup {Null}]
    /\ rows \subseteq {i \in ObjectIds : object[i] # Null}
    /\ ref \in [ObjectIds -> Int]
    /\ file \in [FileIds -> [user : Users, object : ObjectIds] \cup {Null}]
    /\ entries \subseteq {e \in FileIds : file[e] # Null}
    /\ bin \subseteq entries
    /\ store \subseteq Users \X Hashes
    /\ cached \subseteq ObjectIds
    /\ cachedId \in [Hashes -> ObjectIds \cup {Null}]
    /\ pc \in [Sessions -> Steps]
    /\ req \in [Sessions -> [op : Ops \cup {Null}, hash : Hashes \cup {Null},
                             obj : ObjectIds \cup {Null}, file : FileIds \cup {Null},
                             fresh : BOOLEAN]]
    /\ lease \subseteq Sessions
    /\ left \in 0 .. MaxRequests

Init ==
    /\ object = [i \in ObjectIds |-> Null]
    /\ rows = {}
    /\ ref = [i \in ObjectIds |-> 0]
    /\ file = [e \in FileIds |-> Null]
    /\ entries = {}
    /\ bin = {}
    /\ store = {}
    /\ cached = {}
    /\ cachedId = [h \in Hashes |-> Null]
    /\ pc = [s \in Sessions |-> "idle"]
    /\ req = [s \in Sessions |-> NoArgs]
    /\ lease = {}
    /\ left = MaxRequests

-----------------------------------------------------------------------------
(* BuildObjectName: the bytes live under the uploader and the hash. *)
NameOf(id) == <<object[id].owner, object[id].hash>>

EntriesOf(id) == {e \in entries : file[e].object = id}
RowsWith(h)   == {id \in rows : object[id].hash = h}

Fresh(f) == {i \in DOMAIN f : f[i] = Null /\ \A j \in 1 .. (i - 1) : f[j] # Null}

At(s, step) == pc[s] = step
Jump(s, step) == pc' = [pc EXCEPT ![s] = step]
Goto(s, step) == Jump(s, step) /\ UNCHANGED req

(* The handler returns; its deferred Unlock drops the lock if it is still its own. *)
Return(s) ==
    /\ Jump(s, "idle")
    /\ req' = [req EXCEPT ![s] = NoArgs]
    /\ lease' = lease \ {s}

Begin(s, step, args) ==
    /\ At(s, "idle")
    /\ args.op \in Ops
    /\ left > 0
    /\ Cardinality({t \in Sessions : ~ At(t, "idle")}) < MaxActive
    /\ left' = left - 1
    /\ Jump(s, step)
    /\ req' = [req EXCEPT ![s] = args]

(* The request goes on with this file_object. *)
Hold(s, id, new) == req' = [req EXCEPT ![s] = Args(req[s].op, req[s].hash, id, Null, new)]

(* cacheFileObject: the row under its id, the id under the hash. *)
CacheFileObject(id) ==
    /\ cached' = cached \cup {id}
    /\ cachedId' = [cachedId EXCEPT ![object[id].hash] = id]

(* UPDATE file_object SET ref_count = ref_count + n WHERE id = id: no row is *)
(* no error; the cached row is dropped, the id cached for the hash is not.   *)
AddRef(id, n) ==
    /\ ref' = IF id \in rows THEN [ref EXCEPT ![id] = @ + n] ELSE ref
    /\ cached' = cached \ {id}
    /\ UNCHANGED cachedId

(* INSERT INTO user_file: the foreign key needs the file_object row. *)
InsertFile(s, id) ==
    /\ id \in rows
    /\ \E e \in Fresh(file) :
        /\ file' = [file EXCEPT ![e] = [user |-> UserOf[s], object |-> id]]
        /\ entries' = entries \cup {e}
        /\ UNCHANGED bin

InsertRefused(s) ==
    \/ req[s].obj \notin rows
    \/ "conflict" \in Faults /\ ~ req[s].fresh
    \/ "new_conflict" \in Faults /\ req[s].fresh

-----------------------------------------------------------------------------
(* The requests. *)

(* FastUpload: an upload by hash alone. *)
FastUpload(s) == \E h \in Hashes :
    /\ Begin(s, "lookup", Args("fast", h, Null, Null, FALSE))
    /\ UNCHANGED <<objectVars, fileVars, store, cacheVars, lease>>

(* mutant: no merge lock *)
CompleteUnlocked(s) == \E h \in Hashes :
    /\ Begin(s, "lookup", Args("complete", h, Null, Null, FALSE))
    /\ lease' = lease \cup {s}
    /\ UNCHANGED <<objectVars, fileVars, store, cacheVars>>

(* MultipartComplete: takes lock:merge:<user>:<hash>, then CompleteFile. *)
MultipartComplete(s) == \E h \in Hashes :
    /\ ~ \E t \in lease : UserOf[t] = UserOf[s] /\ req[t].hash = h
    /\ Begin(s, "lookup", Args("complete", h, Null, Null, FALSE))
    /\ lease' = lease \cup {s}
    /\ UNCHANGED <<objectVars, fileVars, store, cacheVars>>

(* CopyFiles of one file: reads a live entry of the user. *)
CopyFile(s) == \E e \in entries \ bin :
    /\ file[e].user = UserOf[s]
    /\ Begin(s, "copy_entry", Args("copy", Null, file[e].object, Null, FALSE))
    /\ UNCHANGED <<objectVars, fileVars, store, cacheVars, lease>>

(* mutant: GetDeletedFile without is_deleted = 1 *)
DeleteAnyRecord(s) == \E e \in entries :
    /\ file[e].user = UserOf[s]
    /\ Begin(s, "purge_entry", Args("purge", Null, file[e].object, e, FALSE))
    /\ UNCHANGED <<objectVars, fileVars, store, cacheVars, lease>>

(* DeleteFileRecord: GetDeletedFile finds the entry in the recycle bin. *)
DeleteFileRecord(s) == \E e \in bin :
    /\ file[e].user = UserOf[s]
    /\ Begin(s, "purge_entry", Args("purge", Null, file[e].object, e, FALSE))
    /\ UNCHANGED <<objectVars, fileVars, store, cacheVars, lease>>

(* MoveToRecycle and RestoreFile are one UPDATE each. *)
MoveToRecycle(s) ==
    /\ At(s, "idle")
    /\ \E e \in entries \ bin : file[e].user = UserOf[s] /\ bin' = bin \cup {e}
    /\ UNCHANGED <<objectVars, file, entries, store, cacheVars, pc, req, lease, left>>

RestoreFile(s) ==
    /\ At(s, "idle")
    /\ \E e \in bin : file[e].user = UserOf[s] /\ bin' = bin \ {e}
    /\ UNCHANGED <<objectVars, file, entries, store, cacheVars, pc, req, lease, left>>

-----------------------------------------------------------------------------
(* GetFileObjectByHash. *)

(* The id the Redis keys or, when either key is missing, the table gives. *)
Known(h) == IF cachedId[h] \in cached THEN {cachedId[h]} ELSE RowsWith(h)

LookupFound(s) ==
    /\ At(s, "lookup")
    /\ \E id \in Known(req[s].hash) : Hold(s, id, FALSE)
    /\ Jump(s, "fill")
    /\ UNCHANGED <<objectVars, fileVars, store, cacheVars, lease, left>>

(* Not found: the hash key is dropped; CompleteFile uploads, FastUpload says so. *)
LookupNone(s) ==
    /\ At(s, "lookup")
    /\ Known(req[s].hash) = {}
    /\ cachedId' = [cachedId EXCEPT ![req[s].hash] = Null]
    /\ \/ req[s].op = "complete" /\ Goto(s, "put") /\ UNCHANGED lease
       \/ req[s].op = "fast" /\ Return(s)
    /\ UNCHANGED <<objectVars, fileVars, store, cached, left>>

Fill(s) ==
    /\ At(s, "fill")
    /\ CacheFileObject(req[s].obj)
    /\ Goto(s, "avail")
    /\ UNCHANGED <<objectVars, fileVars, store, lease, left>>

(* FastUpload answers size_mismatch when the declared size is another. *)
SizeMismatch(s) ==
    /\ At(s, "avail")
    /\ req[s].op = "fast"
    /\ Return(s)
    /\ UNCHANGED <<objectVars, fileVars, store, cacheVars, left>>

(* mutant: the instant path forgets IncreaseRefCount *)
AvailableUncounted(s) ==
    /\ At(s, "avail")
    /\ NameOf(req[s].obj) \in store
    /\ Goto(s, "entry")
    /\ UNCHANGED <<objectVars, fileVars, store, cacheVars, lease, left>>

(* isFileObjectAvailable: any error of GetObject reads as "missing". *)
Available(s) ==
    /\ At(s, "avail")
    /\ NameOf(req[s].obj) \in store
    /\ Goto(s, "inc")
    /\ UNCHANGED <<objectVars, fileVars, store, cacheVars, lease, left>>

NotAvailable(s) ==
    /\ At(s, "avail")
    /\ NameOf(req[s].obj) \notin store \/ "minio" \in Faults
    /\ \/ req[s].op = "complete" /\ Goto(s, "repair_put") /\ UNCHANGED lease
       \/ req[s].op = "fast" /\ Return(s)
    /\ UNCHANGED <<objectVars, fileVars, store, cacheVars, left>>

(* CompleteFile composes the missing object again under the row's name ... *)
RepairPut(s) ==
    /\ At(s, "repair_put")
    /\ store' = store \cup {NameOf(req[s].obj)}
    /\ Goto(s, "repair_row")
    /\ UNCHANGED <<objectVars, fileVars, cacheVars, lease, left>>

(* ... updates the row's size (no row is no error) and caches it. *)
RepairRow(s) ==
    /\ At(s, "repair_row")
    /\ CacheFileObject(req[s].obj)
    /\ Goto(s, "inc")
    /\ UNCHANGED <<objectVars, fileVars, store, lease, left>>

IncreaseRefCount(s) ==
    /\ At(s, "inc")
    /\ AddRef(req[s].obj, 1)
    /\ Goto(s, "entry")
    /\ UNCHANGED <<object, rows, fileVars, store, lease, left>>

(* CreateUserFileEntry at the end of FastUpload and CompleteFile. *)
CreateEntry(s) ==
    /\ At(s, "entry")
    /\ InsertFile(s, req[s].obj)
    /\ Return(s)
    /\ UNCHANGED <<objectVars, store, cacheVars, left>>

(* mutant: the rollback removes the object without asking createdNewObject *)
EntryFailsDestroys(s) ==
    /\ At(s, "entry")
    /\ InsertRefused(s)
    /\ Goto(s, "undo_object")
    /\ UNCHANGED <<objectVars, fileVars, store, cacheVars, lease, left>>

(* mutant: no rollback of the reference *)
EntryFailsKeepsRef(s) ==
    /\ At(s, "entry")
    /\ InsertRefused(s)
    /\ IF req[s].fresh THEN Goto(s, "undo_object") /\ UNCHANGED lease ELSE Return(s)
    /\ UNCHANGED <<objectVars, fileVars, store, cacheVars, left>>

(* Its failure rolls back what this request did: the new object or the reference. *)
CreateEntryFails(s) ==
    /\ At(s, "entry")
    /\ InsertRefused(s)
    /\ Goto(s, IF req[s].fresh THEN "undo_object" ELSE "dec")
    /\ UNCHANGED <<objectVars, fileVars, store, cacheVars, lease, left>>

-----------------------------------------------------------------------------
(* CompleteFile with a new hash: compose, insert the row, cache it. *)
PutObject(s) ==
    /\ At(s, "put")
    /\ store' = store \cup {<<UserOf[s], req[s].hash>>}
    /\ Goto(s, "row")
    /\ UNCHANGED <<objectVars, fileVars, cacheVars, lease, left>>

CreateFilesObject(s) ==
    /\ At(s, "row")
    /\ RowsWith(req[s].hash) = {}
    /\ \E id \in Fresh(object) :
        /\ object' = [object EXCEPT ![id] = [hash |-> req[s].hash, owner |-> UserOf[s]]]
        /\ rows' = rows \cup {id}
        /\ ref' = [ref EXCEPT ![id] = 1]
        /\ Hold(s, id, TRUE)
    /\ Jump(s, "row_cache")
    /\ UNCHANGED <<fileVars, store, cacheVars, lease, left>>

(* The unique index on hash, or the database, refuses the row. *)
CreateFilesObjectFails(s) ==
    /\ At(s, "row")
    /\ RowsWith(req[s].hash) # {} \/ "insert" \in Faults
    /\ Goto(s, "put_undo")
    /\ UNCHANGED <<objectVars, fileVars, store, cacheVars, lease, left>>

CacheNewObject(s) ==
    /\ At(s, "row_cache")
    /\ CacheFileObject(req[s].obj)
    /\ Goto(s, "entry")
    /\ UNCHANGED <<objectVars, fileVars, store, lease, left>>

(* RemoveObject of a rollback; its error is ignored. *)
Discard(name) ==
    \/ store' = store \ {name}
    \/ "minio" \in Faults /\ UNCHANGED store

(* mutant: no RemoveObject when the row is refused *)
KeepPut(s) ==
    /\ At(s, "put_undo")
    /\ Return(s)
    /\ UNCHANGED <<objectVars, fileVars, store, cacheVars, left>>

UndoPut(s) ==
    /\ At(s, "put_undo")
    /\ Discard(<<UserOf[s], req[s].hash>>)
    /\ Return(s)
    /\ UNCHANGED <<objectVars, fileVars, cacheVars, left>>

UndoObject(s) ==
    /\ At(s, "undo_object")
    /\ Discard(<<UserOf[s], req[s].hash>>)
    /\ Goto(s, "undo_row")
    /\ UNCHANGED <<objectVars, fileVars, cacheVars, lease, left>>

(* DELETE FROM file_object: refused while a user_file row, recycled or not, *)
(* points at it.  The rollback ignores that, and no cache key is dropped.   *)
DeleteRow(id) == rows' = IF EntriesOf(id) = {} THEN rows \ {id} ELSE rows

UndoRow(s) ==
    /\ At(s, "undo_row")
    /\ DeleteRow(req[s].obj)
    /\ Return(s)
    /\ UNCHANGED <<object, ref, fileVars, store, cacheVars, left>>

-----------------------------------------------------------------------------
(* CopyFiles inserts the new entry first and counts the reference after. *)
CopyEntry(s) ==
    /\ At(s, "copy_entry")
    /\ InsertFile(s, req[s].obj)
    /\ Goto(s, "copy_inc")
    /\ UNCHANGED <<objectVars, store, cacheVars, lease, left>>

CopyEntryFails(s) ==
    /\ At(s, "copy_entry")
    /\ InsertRefused(s)
    /\ Return(s)
    /\ UNCHANGED <<objectVars, fileVars, store, cacheVars, left>>

(* mutant: CopyFiles without IncreaseRefCount *)
CopyUncounted(s) ==
    /\ At(s, "copy_inc")
    /\ Return(s)
    /\ UNCHANGED <<objectVars, fileVars, store, cacheVars, left>>

CopyIncrease(s) ==
    /\ At(s, "copy_inc")
    /\ AddRef(req[s].obj, 1)
    /\ Return(s)
    /\ UNCHANGED <<object, rows, fileVars, store, left>>

-----------------------------------------------------------------------------
(* mutant: the purge forgets the bin *)
PurgeKeepsBin(s) ==
    /\ At(s, "purge_entry")
    /\ entries' = entries \ {req[s].file}
    /\ Goto(s, "rm_read")
    /\ UNCHANGED <<objectVars, file, bin, store, cacheVars, lease, left>>

(* DeleteFileRecord: DELETE FROM user_file WHERE id; no row is no error. *)
PurgeEntry(s) ==
    /\ At(s, "purge_entry")
    /\ entries' = entries \ {req[s].file}
    /\ bin' = bin \ {req[s].file}
    /\ Goto(s, "rm_read")
    /\ UNCHANGED <<objectVars, file, store, cacheVars, lease, left>>

(* mutant: RemoveObject deletes without DecreaseRefCount *)
RemoveUncounted(s) ==
    /\ At(s, "rm_read")
    /\ IF req[s].obj \in rows
         THEN Goto(s, "rm_object") /\ UNCHANGED lease
         ELSE Return(s)
    /\ UNCHANGED <<objectVars, fileVars, store, cacheVars, left>>

(* RemoveObject reads the row it will need the name of. *)
RemoveRead(s) ==
    /\ At(s, "rm_read")
    /\ IF req[s].obj \in rows
         THEN Goto(s, "dec") /\ UNCHANGED lease
         ELSE Return(s)
    /\ UNCHANGED <<objectVars, fileVars, store, cacheVars, left>>

(* DecreaseRefCount reads ref_count; above 1 it goes on to write it, ... *)
DecreaseRead(s) ==
    /\ At(s, "dec")
    /\ req[s].obj \in rows
    /\ ref[req[s].obj] > 1
    /\ Goto(s, "dec_write")
    /\ UNCHANGED <<objectVars, fileVars, store, cacheVars, lease, left>>

(* ... otherwise it answers 0 and writes nothing: a rollback stops there, *)
(* RemoveObject goes on to delete the object.                             *)
DecreaseLast(s) ==
    /\ At(s, "dec")
    /\ req[s].obj \in rows => ref[req[s].obj] <= 1
    /\ IF req[s].op = "purge" /\ req[s].obj \in rows
         THEN Goto(s, "rm_object") /\ UNCHANGED lease
         ELSE Return(s)
    /\ UNCHANGED <<objectVars, fileVars, store, cacheVars, left>>

DecreaseWrite(s) ==
    /\ At(s, "dec_write")
    /\ AddRef(req[s].obj, -1)
    /\ Return(s)
    /\ UNCHANGED <<object, rows, fileVars, store, left>>

(* mutant: the error of DeleteMinioFile is ignored *)
DeleteMinioLost(s) ==
    /\ At(s, "rm_object")
    /\ Goto(s, "rm_row")
    /\ UNCHANGED <<objectVars, fileVars, store, cacheVars, lease, left>>

DeleteMinioFile(s) ==
    /\ At(s, "rm_object")
    /\ store' = store \ {NameOf(req[s].obj)}
    /\ Goto(s, "rm_row")
    /\ UNCHANGED <<objectVars, fileVars, cacheVars, lease, left>>

RemoveRow(s) ==
    /\ At(s, "rm_row")
    /\ DeleteRow(req[s].obj)
    /\ IF EntriesOf(req[s].obj) = {}
         THEN Goto(s, "rm_cache") /\ UNCHANGED lease
         ELSE Return(s)
    /\ UNCHANGED <<object, ref, fileVars, store, cacheVars, left>>

(* mutant: RemoveObject drops no Redis key *)
RemoveNoKey(s) ==
    /\ At(s, "rm_cache")
    /\ Return(s)
    /\ UNCHANGED <<objectVars, fileVars, store, cacheVars, left>>

RemoveCache(s) ==
    /\ At(s, "rm_cache")
    /\ cached' = cached \ {req[s].obj}
    /\ cachedId' = [cachedId EXCEPT ![object[req[s].obj].hash] = Null]
    /\ Return(s)
    /\ UNCHANGED <<objectVars, fileVars, store, left>>

-----------------------------------------------------------------------------
(* A request ends early; what it has written stays. *)
Abort(s) ==
    /\ "abort" \in Faults
    /\ ~ At(s, "idle")
    /\ At(s, "copy_inc") => "copy_abort" \in Faults
    /\ Return(s)
    /\ UNCHANGED <<objectVars, fileVars, store, cacheVars, left>>

LeaseExpires(s) ==
    /\ "lease" \in Faults
    /\ s \in lease
    /\ lease' = lease \ {s}
    /\ UNCHANGED <<objectVars, fileVars, store, cacheVars, pc, req, left>>

(* Both Redis keys live five minutes from their last use. *)
CacheExpires ==
    /\ \/ \E id \in cached : cached' = cached \ {id} /\ UNCHANGED cachedId
       \/ \E h \in Hashes : /\ cachedId[h] # Null
                            /\ cachedId' = [cachedId EXCEPT ![h] = Null]
                            /\ UNCHANGED cached
    /\ UNCHANGED <<objectVars, fileVars, store, pc, req, lease, left>>

Request(s) == FastUpload(s) \/ MultipartComplete(s) \/ CopyFile(s) \/ DeleteFileRecord(s)
              \/ MoveToRecycle(s) \/ RestoreFile(s)

Step(s) ==
    \/ LookupFound(s) \/ LookupNone(s) \/ Fill(s) \/ SizeMismatch(s)
    \/ Available(s) \/ NotAvailable(s) \/ RepairPut(s) \/ RepairRow(s)
    \/ IncreaseRefCount(s) \/ CreateEntry(s) \/ CreateEntryFails(s)
    \/ PutObject(s) \/ CreateFilesObject(s) \/ CreateFilesObjectFails(s)
    \/ CacheNewObject(s) \/ UndoPut(s) \/ UndoObject(s) \/ UndoRow(s)
    \/ CopyEntry(s) \/ CopyEntryFails(s) \/ CopyIncrease(s)
    \/ PurgeEntry(s) \/ RemoveRead(s) \/ DecreaseRead(s) \/ DecreaseLast(s)
    \/ DecreaseWrite(s) \/ DeleteMinioFile(s) \/ RemoveRow(s) \/ RemoveCache(s)

Next ==
    \/ \E s \in Sessions : Request(s) \/ Step(s) \/ Abort(s) \/ LeaseExpires(s)
    \/ CacheExpires

Spec == Init /\ [][Next]_vars

-----------------------------------------------------------------------------
(* Properties. *)

(* A deleted entry is purged by one request at a time: a user with one       *)
(* session cannot purge an entry twice at once.                              *)
OnePurgePerUser ==
    "purge" \in Ops => \A s, t \in Sessions : UserOf[s] = UserOf[t] => s = t

(* A copy that inserted its entry goes on to count it. *)
CopiesComplete == "copy_abort" \notin Faults

(* Requests that have inserted an entry and not yet counted it (CopyFiles). *)
Debtors(id) == {s \in Sessions : At(s, "copy_inc") /\ req[s].obj = id}

(* ref_count never falls below the entries that share the object, the ones a *)
(* copy is about to count excepted: DecreaseRefCount's separate read and     *)
(* write, its silence at 1, and rollbacks of CompleteFile and FastUpload     *)
(* that overlap may leave the count too high, never too low.                 *)
RefCovers ==
    \A id \in rows : ref[id] + Cardinality(Debtors(id)) >= Cardinality(EntriesOf(id))

(* Every entry of a drive, recycled or not, has its bytes: RemoveObject and *)
(* the rollbacks of CompleteFile delete an object from MinIO only when no    *)
(* user_file row is left that shares it (file_object.go:588).                *)
EntriesStored == \A e \in entries : NameOf(file[e].object) \in store

(* When no request is served, ref_count is the number of entries that share  *)
(* the object, and not 0: every reference taken was given an entry or given  *)
(* back.                                                                     *)
CountsExactAtRest ==
    (\A s \in Sessions : At(s, "idle")) =>
        \A id \in rows : ref[id] = Cardinality(EntriesOf(id)) /\ ref[id] > 0

(* When no request is served, the bucket holds the objects of the rows and   *)
(* no others: the last purge and the rollbacks of CompleteFile leave no bytes.*)
NoOrphansAtRest ==
    (\A s \in Sessions : At(s, "idle")) => store = {NameOf(id) : id \in rows}

(* Only an entry that lies in the recycle bin at that moment is deleted for  *)
(* good: DeleteFileRecord checks is_deleted before, not in, its DELETE.      *)
PurgesOnlyRecycled == [][entries \ entries' \subseteq bin]_vars

(* A request works on a file_object row that exists: what the cache knows    *)
(* and the table does not is noticed and dropped (file_object.go:73).        *)
NoGhostUsed ==
    \A s \in Sessions : pc[s] \in {"avail", "repair_put", "repair_row", "inc", "entry"}
        => req[s].obj \in rows

(* The content a request works on: the hash sent, or that of the object held. *)
ContentOf(s) == IF req[s].hash # Null THEN req[s].hash ELSE object[req[s].obj].hash

(* Requests about one content come one after another, those about different *)
(* contents overlap as they like.                                           *)
Apart ==
    \A s, t \in Sessions :
        ~ At(s, "idle") /\ ~ At(t, "idle") /\ ContentOf(s) = ContentOf(t) => s = t

ApartSpec == Init /\ [][Next /\ Apart']_vars

(* Who purges is alone with the content; uploads and copies of it overlap. *)
PurgesApart ==
    \A s, t \in Sessions :
        ~ At(s, "idle") /\ ~ At(t, "idle") /\ ContentOf(s) = ContentOf(t)
            => s = t \/ "purge" \notin {req[s].op, req[t].op}

PurgesApartSpec == Init /\ [][Next /\ PurgesApart']_vars

(* Requests that stay apart keep the promise of Drive: the count, the        *)
(* rollbacks and the repair of a missing object are hidden, every entry      *)
(* always has the content its upload declared.                               *)
DriveOf == [e \in entries |->
    [user    |-> file[e].user,
     content |-> IF NameOf(file[e].object) \in store THEN object[file[e].object].hash ELSE Null,
     binned  |-> e \in bin]]

D == INSTANCE Drive WITH Contents <- Hashes, Files <- FileIds, drive <- DriveOf

KeepsPromise == D!Spec

=============================================================================

------------------------------ MODULE Multipart ------------------------------
(***************************************************************************)
(* Multipart uploads of one content by one user: upload_session and        *)
(* file_chunk rows, the chunk objects in the bucket, the merge and its     *)
(* clean-up (service/file_object.go, handler/minio.go), and the browser    *)
(* that drives them (static/app.js).  The lookups of the code name user    *)
(* and hash or a random upload_id, so uploads of other users or contents   *)
(* never meet these.  They would meet at the file object, which is shared  *)
(* by hash: here it is this user's own.                                    *)
(*                                                                         *)
(* A tab cuts the file as its user chose, asks for a session, sends the    *)
(* chunks the server does not have and completes.  pc[t] names its next    *)
(* SQL statement, MinIO call or Redis call.  The file object of the merge  *)
(* is the subject of ObjectRefs; here it is there or not, as `file'.       *)
(***************************************************************************)
EXTENDS Integers, FiniteSets

CONSTANTS
    Tabs,          \* browser tabs, or devices, of the user
    Cuts,          \* chunk sizes the user may choose
    PiecesOf,      \* how many chunks the file has under a chunk size
    Faults,        \* what goes wrong: a subset of FaultNames
    PurgeRaces,    \* the merged file may be purged while a tab uploads it again
    MaxSessions,   \* bound on upload_session ids
    MaxAttempts,   \* bound on the requests the user starts
    Null

(* abort: an upload ends at any step (tab closed, a call fails, the API dies); *)
(* purge_abort: so does a purge.                                               *)
FaultNames == {"abort", "purge_abort"}

ASSUME ConstantsAssumption ==
    /\ PiecesOf \in [Cuts -> Nat \ {0}]
    /\ Faults \subseteq FaultNames
    /\ PurgeRaces \in BOOLEAN
    /\ MaxSessions \in Nat
    /\ MaxAttempts \in Nat
    /\ IsFiniteSet(Tabs)
    /\ Null \notin Cuts \cup Tabs \cup Nat

Ids == 1 .. MaxSessions

Pieces(c) == 0 .. (PiecesOf[c] - 1)
Index == UNION {Pieces(c) : c \in Cuts}
Chunks == Ids \X Index

(* No merged object is mistaken for none. *)
ASSUME FileAssumption == \A S \in SUBSET Index : Null \notin [S -> Cuts \cup {Null}]

VARIABLES
    live,       \* ids whose upload_session row exists
    total,      \* total_chunks of a session, kept after its row is gone; 0 before
    rows,       \* the (upload_id, chunk_index) of the file_chunk rows
    bytes,      \* the chunk objects in the bucket: the cut each was sent under
    file,       \* the merged object: the cut of each piece; Null: no file_object
    lock,       \* lock:merge:<user>:<hash>: the tab that holds it, or Null
    pc, req,    \* next call and local variables of each tab
    left        \* requests that may still be started

sessionVars == <<live, total>>
chunkVars   == <<rows, bytes>>
vars == <<sessionVars, chunkVars, file, lock, pc, req, left>>

Steps == {"idle", "lookup", "uploaded", "create", "latest", "chunk", "put", "row",
          "complete", "lock", "find", "count", "exists", "compose",
          "clean", "clean_find", "clean_rows", "clean_session", "purge_find", "purge_rows"}
Merging  == {"find", "count", "exists", "compose", "clean", "clean_find", "clean_rows", "clean_session"}
Cleaning == {"clean", "clean_find", "clean_rows", "clean_session"}
Purging  == {"purge_find", "purge_rows"}

(* cut: the chunk size; id: the session in hand; todo: the chunk indices that *)
(* the server has, then those still to be sent; parts: the chunks CompleteFile *)
(* has read; clean: those whose objects it has still to remove.               *)
Args(c, id, todo) == [cut |-> c, id |-> id, todo |-> todo, parts |-> {}, clean |-> {}]
NoArgs == Args(Null, Null, {})

TypeOK ==
    /\ live \subseteq Ids
    /\ total \in [Ids -> {0} \cup {PiecesOf[c] : c \in Cuts}]
    /\ rows \subseteq Chunks
    /\ bytes \in [Chunks -> Cuts \cup {Null}]
    /\ lock \in Tabs \cup {Null}
    /\ pc \in [Tabs -> Steps]
    /\ req \in [Tabs -> [cut : Cuts \cup {Null}, id : Ids \cup {Null},
                         todo : SUBSET Index,
                         parts : SUBSET Chunks, clean : SUBSET Chunks]]
    /\ left \in 0 .. MaxAttempts

Init ==
    /\ live = {}
    /\ total = [id \in Ids |-> 0]
    /\ rows = {}
    /\ bytes = [k \in Chunks |-> Null]
    /\ file = Null
    /\ lock = Null
    /\ pc = [t \in Tabs |-> "idle"]
    /\ req = [t \in Tabs |-> NoArgs]
    /\ left = MaxAttempts

-----------------------------------------------------------------------------
At(t, step) == pc[t] = step
In(steps) == \E t \in Tabs : pc[t] \in steps
Goto(t, step) == pc' = [pc EXCEPT ![t] = step]

(* The tab has its answer, or gives up; the handler's Unlock is deferred. *)
Return(t) ==
    /\ Goto(t, "idle")
    /\ req' = [req EXCEPT ![t] = NoArgs]
    /\ lock' = IF lock = t THEN Null ELSE lock

(* GetUploadSessionByHash: ORDER BY id DESC, the newest row. *)
Latest(id) == id \in live /\ \A other \in live : other <= id

NextId(id) == id \in Ids /\ total[id] = 0 /\ \A other \in 1 .. (id - 1) : total[other] # 0

RowsOf(id) == {k \in rows : k[1] = id}

(* The chunk a tab sends next. *)
NextChunk(t) == CHOOSE i \in req[t].todo : \A j \in req[t].todo : i <= j

-----------------------------------------------------------------------------
(* The browser: handleMultipartUpload cuts the file by the size the user chose. *)
StartUpload(t) == \E c \in Cuts :
    /\ At(t, "idle")
    /\ left > 0
    /\ PurgeRaces \/ ~ In(Purging)
    /\ left' = left - 1
    /\ Goto(t, "lookup")
    /\ req' = [req EXCEPT ![t] = Args(c, Null, {})]
    /\ UNCHANGED <<sessionVars, chunkVars, file, lock>>

(* MultiPartFileInit: a content that is there already is shared at once, ... *)
Instant(t) ==
    /\ At(t, "lookup")
    /\ file # Null
    /\ Return(t)
    /\ UNCHANGED <<sessionVars, chunkVars, file, left>>

(* ... otherwise CheckChunkNum asks for the newest session ... *)
CheckChunkNum(t) ==
    /\ At(t, "lookup")
    /\ file = Null
    /\ \/ \E id \in live : /\ Latest(id)
                           /\ Goto(t, "uploaded")
                           /\ req' = [req EXCEPT ![t].id = id]
       \/ /\ live = {}
          /\ Goto(t, "create")
          /\ UNCHANGED req
    /\ UNCHANGED <<sessionVars, chunkVars, file, lock, left>>

(* ... and for the chunks it has: those are not sent again. *)
Uploaded(t) ==
    /\ At(t, "uploaded")
    /\ req' = [req EXCEPT ![t].todo = {k[2] : k \in RowsOf(req[t].id)}]
    /\ Goto(t, IF RowsOf(req[t].id) = {} THEN "create" ELSE "latest")
    /\ UNCHANGED <<sessionVars, chunkVars, file, lock, left>>

CreateUploadSession(t) ==
    /\ At(t, "create")
    /\ \E id \in Ids : /\ NextId(id)
                       /\ live' = live \cup {id}
                       /\ total' = [total EXCEPT ![id] = PiecesOf[req[t].cut]]
    /\ Goto(t, "latest")
    /\ UNCHANGED <<chunkVars, file, lock, req, left>>

(* The answer carries the session that is the newest by now; without one the *)
(* browser gives up.                                                         *)
InitAnswer(t) ==
    /\ At(t, "latest")
    /\ \/ \E id \in live :
             LET todo == Pieces(req[t].cut) \ req[t].todo
             IN /\ Latest(id)
                /\ Goto(t, IF todo = {} THEN "complete" ELSE "chunk")
                /\ req' = [req EXCEPT ![t] = Args(@.cut, id, todo)]
                /\ UNCHANGED lock
       \/ live = {} /\ Return(t)
    /\ UNCHANGED <<sessionVars, chunkVars, file, left>>

-----------------------------------------------------------------------------
(* MultipartUploadChunk: the session must exist and have such a chunk. *)
CheckChunk(t) ==
    /\ At(t, "chunk")
    /\ IF req[t].id \in live /\ NextChunk(t) < total[req[t].id]
         THEN Goto(t, "put") /\ UNCHANGED <<req, lock>>
         ELSE Return(t)
    /\ UNCHANGED <<sessionVars, chunkVars, file, left>>

(* UploadChunk stores chunks/<upload_id>/<index>, over what was there, ... *)
PutChunk(t) ==
    /\ At(t, "put")
    /\ bytes' = [bytes EXCEPT ![<<req[t].id, NextChunk(t)>>] = req[t].cut]
    /\ Goto(t, "row")
    /\ UNCHANGED <<sessionVars, rows, file, lock, req, left>>

(* mutant: the row counts its chunk from one *)
SaveFromOne(t) ==
    LET rest == req[t].todo \ {NextChunk(t)}
    IN /\ At(t, "row")
       /\ rows' = rows \cup {<<req[t].id, NextChunk(t) + 1>>}
       /\ req' = [req EXCEPT ![t].todo = rest]
       /\ Goto(t, IF rest = {} THEN "complete" ELSE "chunk")
       /\ UNCHANGED <<sessionVars, bytes, file, lock, left>>

(* ... and upserts the row, whether the session is still there or not. *)
SaveChunk(t) ==
    LET rest == req[t].todo \ {NextChunk(t)}
    IN /\ At(t, "row")
       /\ rows' = rows \cup {<<req[t].id, NextChunk(t)>>}
       /\ req' = [req EXCEPT ![t].todo = rest]
       /\ Goto(t, IF rest = {} THEN "complete" ELSE "chunk")
       /\ UNCHANGED <<sessionVars, bytes, file, lock, left>>

-----------------------------------------------------------------------------
(* MultipartComplete: the newest session must have as many chunks as the *)
(* browser says.                                                         *)
MultipartComplete(t) ==
    /\ At(t, "complete")
    /\ IF \E id \in live : Latest(id) /\ total[id] = PiecesOf[req[t].cut]
         THEN Goto(t, "lock") /\ UNCHANGED <<req, lock>>
         ELSE Return(t)
    /\ UNCHANGED <<sessionVars, chunkVars, file, left>>

(* mutant: complete goes on without the lock *)
MergeUnlocked(t) ==
    /\ At(t, "lock")
    /\ Goto(t, "find")
    /\ UNCHANGED <<sessionVars, chunkVars, file, lock, req, left>>

MergeLock(t) ==
    /\ At(t, "lock")
    /\ lock # t
    /\ IF lock = Null
         THEN lock' = t /\ Goto(t, "find") /\ UNCHANGED req
         ELSE Return(t)
    /\ UNCHANGED <<sessionVars, chunkVars, file, left>>

(* FindAllChunkFile: the newest session once more, ... *)
FindSession(t) ==
    /\ At(t, "find")
    /\ \/ \E id \in live : /\ Latest(id)
                           /\ Goto(t, "count")
                           /\ req' = [req EXCEPT ![t].id = id]
                           /\ UNCHANGED lock
       \/ live = {} /\ Return(t)
    /\ UNCHANGED <<sessionVars, chunkVars, file, left>>

(* mutant: CompleteFile does not count the chunks *)
CountNothing(t) ==
    /\ At(t, "count")
    /\ Goto(t, "exists")
    /\ req' = [req EXCEPT ![t].parts = RowsOf(req[t].id)]
    /\ UNCHANGED <<sessionVars, chunkVars, file, lock, left>>

(* ... and its chunks: CompleteFile goes on when it has total_chunks of them. *)
CountChunks(t) ==
    LET parts == RowsOf(req[t].id)
    IN /\ At(t, "count")
       /\ IF Cardinality(parts) = PiecesOf[req[t].cut]
            THEN /\ Goto(t, "exists")
                 /\ req' = [req EXCEPT ![t].parts = parts]
                 /\ UNCHANGED lock
            ELSE Return(t)
       /\ UNCHANGED <<sessionVars, chunkVars, file, left>>

(* GetFileObjectByHash: a file that is there gets one more reference, the *)
(* chunks are not used.                                                   *)
LookupHash(t) ==
    /\ At(t, "exists")
    /\ Goto(t, IF file = Null THEN "compose" ELSE "clean")
    /\ req' = [req EXCEPT ![t].clean = req[t].parts]
    /\ UNCHANGED <<sessionVars, chunkVars, file, lock, left>>

(* ComposeObject joins the chunk objects in the order of their index, and   *)
(* fails when one is missing; then the rows of the file follow (ObjectRefs).*)
ComposeObject(t) ==
    LET parts == req[t].parts
    IN /\ At(t, "compose")
       /\ IF \A k \in parts : bytes[k] # Null
            THEN /\ file' = [i \in {k[2] : k \in parts} |-> bytes[<<req[t].id, i>>]]
                 /\ Goto(t, "clean")
                 /\ UNCHANGED <<req, lock>>
            ELSE Return(t) /\ UNCHANGED file
       /\ UNCHANGED <<sessionVars, chunkVars, left>>

-----------------------------------------------------------------------------
(* cleanupUploadData: the chunk objects one by one, ... *)
CleanChunk(t) == \E k \in req[t].clean :
    LET rest == req[t].clean \ {k}
    IN /\ At(t, "clean")
       /\ \A l \in rest : k[2] < l[2]
       /\ bytes' = [bytes EXCEPT ![k] = Null]
       /\ req' = [req EXCEPT ![t].clean = rest]
       /\ Goto(t, IF rest = {} THEN "clean_find" ELSE "clean")
       /\ UNCHANGED <<sessionVars, rows, file, lock, left>>

(* ... then the newest session, read a third time, ... *)
CleanFind(t) ==
    /\ At(t, "clean_find")
    /\ \/ \E id \in live : /\ Latest(id)
                           /\ Goto(t, "clean_rows")
                           /\ req' = [req EXCEPT ![t].id = id]
                           /\ UNCHANGED lock
       \/ live = {} /\ Return(t)
    /\ UNCHANGED <<sessionVars, chunkVars, file, left>>

(* ... all its chunk rows, and the session itself. *)
CleanRows(t) ==
    /\ At(t, "clean_rows")
    /\ rows' = rows \ RowsOf(req[t].id)
    /\ Goto(t, "clean_session")
    /\ UNCHANGED <<sessionVars, bytes, file, lock, req, left>>

CleanSession(t) ==
    /\ At(t, "clean_session")
    /\ live' = live \ {req[t].id}
    /\ Return(t)
    /\ UNCHANGED <<total, chunkVars, file, left>>

-----------------------------------------------------------------------------
(* RemoveObject of the last entry: the object and its row are deleted, *)
PurgeFile(t) ==
    /\ At(t, "idle")
    /\ file # Null
    /\ left > 0
    /\ PurgeRaces \/ \A other \in Tabs : At(other, "idle")
    /\ left' = left - 1
    /\ file' = Null
    /\ Goto(t, "purge_find")
    /\ UNCHANGED <<sessionVars, chunkVars, lock, req>>

(* and the chunk rows of the newest session with the hash, an upload under way. *)
PurgeFind(t) ==
    /\ At(t, "purge_find")
    /\ \/ \E id \in live : /\ Latest(id)
                           /\ Goto(t, "purge_rows")
                           /\ req' = [req EXCEPT ![t].id = id]
                           /\ UNCHANGED lock
       \/ live = {} /\ Return(t)
    /\ UNCHANGED <<sessionVars, chunkVars, file, left>>

(* mutant: RemoveObject leaves the chunk rows alone *)
PurgeNoRows(t) ==
    /\ At(t, "purge_rows")
    /\ Return(t)
    /\ UNCHANGED <<sessionVars, chunkVars, file, left>>

PurgeRows(t) ==
    /\ At(t, "purge_rows")
    /\ rows' = rows \ RowsOf(req[t].id)
    /\ Return(t)
    /\ UNCHANGED <<sessionVars, bytes, file, left>>

(* A request ends where it is; a lock it holds runs out before the next merge. *)
Abort(t) ==
    /\ ~ At(t, "idle")
    /\ (IF pc[t] \in Purging THEN "purge_abort" ELSE "abort") \in Faults
    /\ Return(t)
    /\ UNCHANGED <<sessionVars, chunkVars, file, left>>

Upload(t) ==
    \/ Instant(t) \/ CheckChunkNum(t) \/ Uploaded(t) \/ CreateUploadSession(t) \/ InitAnswer(t)
    \/ CheckChunk(t) \/ PutChunk(t) \/ SaveChunk(t)

Complete(t) ==
    \/ MultipartComplete(t) \/ MergeLock(t) \/ FindSession(t) \/ CountChunks(t)
    \/ LookupHash(t) \/ ComposeObject(t)
    \/ CleanChunk(t) \/ CleanFind(t) \/ CleanRows(t) \/ CleanSession(t)

Purge(t) == PurgeFile(t) \/ PurgeFind(t) \/ PurgeRows(t)

Next == \E t \in Tabs : StartUpload(t) \/ Upload(t) \/ Complete(t) \/ Purge(t) \/ Abort(t)

Spec == Init /\ [][Next]_vars

-----------------------------------------------------------------------------
(* Properties. *)

(* What is merged is the whole content, every piece of one cut once and in  *)
(* order: CompleteFile compares only how many chunk rows there are, MySQL's *)
(* unique (upload_id, chunk_index) and the range check of the handler do    *)
(* the rest (handler/minio.go:209, file_object.go:425).                     *)
MergeWhole == file # Null => \E c \in Cuts : file = [i \in Pieces(c) |-> c]

(* While the content is not there, a chunk that the next MultiPartFileInit  *)
(* reports as uploaded, so that the browser does not send it again, is in   *)
(* the bucket: clean-ups that break off half way do not make a later upload *)
(* impossible to complete (file_object.go:309).                             *)
ResumeTruthful ==
    file = Null /\ ~ In(Cleaning \cup Purging) =>
        \A k \in rows : Latest(k[1]) => bytes[k] # Null

(* A merge that has counted its chunks finds them in the bucket, whatever   *)
(* the other tabs finish, clean up or send again meanwhile: this is what    *)
(* lock:merge is for (handler/minio.go:256, file_object.go:471).            *)
MergeFinds == \A t \in Tabs : At(t, "compose") => \A k \in req[t].parts : bytes[k] # Null

=============================================================================

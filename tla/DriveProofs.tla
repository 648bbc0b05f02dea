----------------------------- MODULE DriveProofs -----------------------------
(* The bytes of file objects.  Requests that overlap only about different    *)
(* contents, faults included, leave every entry its bytes and implement      *)
(* Drive.  Overlapping uploads and copies of one content do, too, as long as *)
(* a purge is alone with its content and the merge lock is kept; when inserts *)
(* are all that fails, counts, cache and bucket are exact as well.           *)
EXTENDS ObjectRefsProofs

(* The unique index on hash. *)
OneRowPerHash == \A i, j \in rows : object[i].hash = object[j].hash => i = j

(* The calls before which the object's bytes must have arrived, ... *)
BytesSteps == {"repair_row", "inc", "entry", "row_cache", "copy_entry"}
(* ... those of a request that inserted the row itself, ... *)
FreshSteps == {"row_cache", "entry", "undo_object", "undo_row"}
(* ... and those of one that found no row for its hash. *)
NewSteps == {"put", "row", "put_undo"}

FreshKnown(s) ==
    req[s].fresh =>
        /\ pc[s] \in FreshSteps
        /\ object[req[s].obj] = [hash |-> req[s].hash, owner |-> UserOf[s]]

(* What a request has made sure of when it comes to each of its calls. *)
Ready(s) ==
    /\ pc[s] \in NewSteps => RowsWith(req[s].hash) = {}
    /\ pc[s] = "row" => <<UserOf[s], req[s].hash>> \in store
    /\ pc[s] \in BytesSteps => NameOf(req[s].obj) \in store
    /\ pc[s] \in {"row_cache", "undo_object", "undo_row"} => req[s].fresh
    /\ FreshKnown(s)
    /\ req[s].fresh \/ pc[s] \in {"rm_object", "rm_row"} =>
          req[s].obj \in rows /\ EntriesOf(req[s].obj) = {}

(* What is cached for a hash, and what a request that was sent a hash holds. *)
Keyed ==
    /\ \A h \in Hashes : cachedId[h] # Null => object[cachedId[h]].hash = h
    /\ \A s \in Sessions :
          pc[s] \in ObjectSteps /\ req[s].hash # Null => object[req[s].obj].hash = req[s].hash

SInv == IInv /\ Keyed /\ OneRowPerHash /\ EntriesStored /\ \A s \in Sessions : Ready(s)

(* A request works on one content: the hash it was sent, that of its object. *)
LEMMA ContentKnown ==
    ASSUME TypeOK, Shape, Keyed, NEW s \in Sessions
    PROVE  /\ pc[s] \in HashSteps => ContentOf(s) = req[s].hash
           /\ pc[s] \in ObjectSteps => ContentOf(s) = object[req[s].obj].hash
  BY ConstantsAssumption DEF ContentOf, Keyed, Shape

(* A purge that is alone with its content purges an entry of its own. *)
LEMMA ApartDistinct ==
    ASSUME TypeOK, Shape, Marked, Keyed, PurgesApart
    PROVE  PurgesDistinct
<1> SUFFICES ASSUME NEW s \in Sessions, NEW t \in Sessions, pc[s] = "purge_entry",
                    pc[t] = "purge_entry", req[s].file = req[t].file
             PROVE  s = t
  BY DEF PurgesDistinct
<1>1. req[s].op = "purge" /\ req[s].obj = req[t].obj
  BY DEF Marked
<1>2. ContentOf(s) = object[req[s].obj].hash /\ ContentOf(t) = object[req[t].obj].hash
  BY ContentKnown DEF ObjectSteps
<1> QED BY <1>1, <1>2 DEF PurgesApart, At

(* What was inserted as a row keeps its hash and owner. *)
LEMMA InsertedStay ==
    ASSUME TypeOK, NEW s \in Sessions, Step(s) \/ Abort(s)
    PROVE  \A i \in ObjectIds : object[i] # Null => object'[i] = object[i]
<1> USE DEF objectVars
<1>1. CASE CreateFilesObject(s)
  BY <1>1 DEF CreateFilesObject, Fresh, TypeOK
<1>2. CASE ~ CreateFilesObject(s)
  BY <1>2 DEF Step, LookupFound, LookupNone, Fill, SizeMismatch, Available, NotAvailable,
     RepairPut, RepairRow, IncreaseRefCount, CreateEntry, CreateEntryFails, PutObject,
     CreateFilesObjectFails, CacheNewObject, UndoPut, UndoObject, UndoRow,
     CopyEntry, CopyEntryFails, CopyIncrease, PurgeEntry, RemoveRead, DecreaseRead,
     DecreaseLast, DecreaseWrite, DeleteMinioFile, RemoveRow, RemoveCache, Abort
<1> QED BY <1>1, <1>2

(* What the cache and the requests know of hashes stays true. *)
LEMMA KeyedStep ==
    ASSUME TypeOK, Shape, Keyed, [Next]_vars
    PROVE  Keyed'
<1> USE ConstantsAssumption, NullAssumption DEF objectVars, fileVars, cacheVars, At, Goto, Jump, Hold, Args, NoArgs, Return
<1>1. ASSUME NEW s \in Sessions, Request(s) \/ LeaseExpires(s) PROVE Keyed'
  <2>1. UNCHANGED <<object, cachedId>>
    BY <1>1 DEF Request, FastUpload, MultipartComplete, CopyFile, DeleteFileRecord,
       MoveToRecycle,
       RestoreFile, LeaseExpires
  <2>2. CASE FastUpload(s) \/ MultipartComplete(s) \/ CopyFile(s) \/ DeleteFileRecord(s)
    <3>1. pc'[s] \notin ObjectSteps \/ req'[s].hash = Null
      <4>1. CASE FastUpload(s) \/ MultipartComplete(s)
        BY <4>1 DEF FastUpload, MultipartComplete, Begin, TypeOK, ObjectSteps
      <4>2. CASE CopyFile(s)
        BY <4>2 DEF CopyFile, Begin, TypeOK
      <4>3. CASE DeleteFileRecord(s)
        BY <4>3 DEF DeleteFileRecord, Begin, TypeOK
      <4> QED BY <2>2, <4>1, <4>2, <4>3
    <3>2. OthersKeep(s)
      BY <1>1, StepIsLocal
    <3> QED BY <2>1, <3>1, <3>2 DEF Keyed, OthersKeep
  <2>3. CASE MoveToRecycle(s) \/ RestoreFile(s) \/ LeaseExpires(s)
    BY <2>1, <2>3 DEF MoveToRecycle, RestoreFile, LeaseExpires, Keyed
  <2> QED BY <1>1, <2>2, <2>3 DEF Request
<1>2. ASSUME NEW s \in Sessions, Step(s) \/ Abort(s) PROVE Keyed'
  <2>1. OthersKeep(s)
    BY <1>2, StepIsLocal
  <2>2. \A i \in ObjectIds : object[i] # Null => object'[i] = object[i]
    BY <1>2, InsertedStay
  <2>3. \A t \in Sessions \ {s} :
          pc'[t] \in ObjectSteps /\ req'[t].hash # Null => object'[req'[t].obj].hash = req'[t].hash
    BY <2>1, <2>2 DEF OthersKeep, Keyed, Shape
  <2>4. \A h \in Hashes : cachedId'[h] # Null =>
            \/ cachedId'[h] = cachedId[h]
            \/ pc[s] \in ObjectSteps /\ cachedId'[h] = req[s].obj /\ h = object[req[s].obj].hash
    BY <1>2 DEF Step, LookupFound, LookupNone, Fill, SizeMismatch, Available, NotAvailable,
         RepairPut, RepairRow, IncreaseRefCount, CreateEntry, CreateEntryFails, PutObject,
         CreateFilesObject, CreateFilesObjectFails, CacheNewObject, UndoPut, UndoObject, UndoRow,
         CopyEntry, CopyEntryFails, CopyIncrease, PurgeEntry, RemoveRead, DecreaseRead,
         DecreaseLast, DecreaseWrite, DeleteMinioFile, RemoveRow, RemoveCache, Abort,
         CacheFileObject, AddRef, ObjectSteps, TypeOK
  <2>5. \A h \in Hashes : cachedId'[h] # Null => object'[cachedId'[h]].hash = h
    BY <2>2, <2>4 DEF Keyed, Shape, TypeOK
  <2>6. pc'[s] \in ObjectSteps /\ req'[s].hash # Null => object'[req'[s].obj].hash = req'[s].hash
    <3>1. CASE LookupFound(s)
      <4>1. PICK id \in Known(req[s].hash) : Hold(s, id, FALSE)
        BY <3>1 DEF LookupFound
      <4>2. req[s].hash \in Hashes
        BY <3>1 DEF LookupFound, Shape, HashSteps
      <4>3. id \in ObjectIds /\ object[id] # Null /\ object[id].hash = req[s].hash
        BY <4>2 DEF Known, RowsWith, Keyed, TypeOK, Shape
      <4> QED BY <2>2, <4>1, <4>3 DEF TypeOK
    <3>2. CASE CreateFilesObject(s)
      <4>1. PICK id \in Fresh(object) :
              /\ object' = [object EXCEPT ![id] = [hash |-> req[s].hash, owner |-> UserOf[s]]]
              /\ Hold(s, id, TRUE)
        BY <3>2 DEF CreateFilesObject
      <4> QED BY <4>1 DEF TypeOK, Fresh
    <3>3. CASE Step(s) /\ ~ LookupFound(s) /\ ~ CreateFilesObject(s)
      <4>1. \/ UNCHANGED req /\ (pc'[s] \in ObjectSteps => pc[s] \in ObjectSteps)
            \/ pc'[s] \notin ObjectSteps
        BY <3>3 DEF Step, LookupNone, Fill, SizeMismatch, Available, NotAvailable,
           RepairPut, RepairRow, IncreaseRefCount, CreateEntry, CreateEntryFails, PutObject,
           CreateFilesObjectFails, CacheNewObject, UndoPut, UndoObject, UndoRow,
           CopyEntry, CopyEntryFails, CopyIncrease, PurgeEntry, RemoveRead, DecreaseRead,
           DecreaseLast, DecreaseWrite, DeleteMinioFile, RemoveRow, RemoveCache, ObjectSteps, TypeOK
      <4> QED BY <2>2, <4>1 DEF Keyed, Shape
    <3>4. CASE Abort(s)
      BY <3>4 DEF Abort, TypeOK, ObjectSteps
    <3> QED BY <1>2, <3>1, <3>2, <3>3, <3>4
  <2> QED BY <2>3, <2>5, <2>6 DEF Keyed
<1>3. CASE CacheExpires \/ UNCHANGED vars
  BY <1>3 DEF CacheExpires, vars, Keyed, TypeOK
<1> QED BY <1>1, <1>2, <1>3 DEF Next

(* What a request that returns leaves to be ready for. *)
LEMMA IdleReady ==
    ASSUME NEW s \in Sessions, pc'[s] = "idle", ~ req'[s].fresh
    PROVE  Ready(s)'
  BY DEF Ready, FreshKnown, NewSteps, BytesSteps

(* The steps that write the tables or the bucket. *)
Tables == <<object, rows, entries, file, store>>
Writes(s) ==
    \/ RepairPut(s) \/ PutObject(s) \/ UndoPut(s) \/ UndoObject(s) \/ DeleteMinioFile(s)
    \/ CreateFilesObject(s) \/ UndoRow(s) \/ RemoveRow(s)
    \/ CreateEntry(s) \/ CopyEntry(s) \/ PurgeEntry(s)

(* Steps that leave the tables and the bucket alone. *)
LEMMA ReadsOnly ==
    ASSUME NEW s, Step(s) \/ Abort(s), ~ Writes(s)
    PROVE  UNCHANGED Tables
  BY DEF Tables, objectVars, fileVars, Step, Writes, LookupFound, LookupNone, Fill,
     SizeMismatch,
     Available, NotAvailable, RepairRow, IncreaseRefCount, CreateEntryFails, CreateFilesObjectFails,
     CacheNewObject, CopyEntryFails, CopyIncrease, RemoveRead, DecreaseRead, DecreaseLast,
     DecreaseWrite, RemoveCache, Abort, AddRef

(* A purge that reads ref_count <= 1 has taken the last entry: it is a holder *)
(* itself, and no copy about its content is under way.                        *)
LEMMA LastReference ==
    ASSUME IInv, Keyed, PurgesApart, NEW s \in Sessions, DecreaseLast(s), pc'[s] = "rm_object"
    PROVE  req[s].op = "purge" /\ req[s].obj \in rows /\ EntriesOf(req[s].obj) = {}
<1> DEFINE o == req[s].obj
<1>0. TypeOK
  BY DEF IInv
<1>1. pc[s] = "dec" /\ req[s].op = "purge" /\ o \in rows /\ ref[o] <= 1 /\ ref[o] \in Int
  BY <1>0 DEF DecreaseLast, Return, Jump, At, TypeOK
<1>2. s \in Holders(o)
  BY <1>1 DEF Holders, Counted
<1>3. Debtors(o) = {}
  <2> SUFFICES ASSUME NEW t \in Debtors(o) PROVE FALSE
    OBVIOUS
  <2>1. t \in Sessions /\ pc[t] = "copy_inc" /\ req[t].obj = o
    BY DEF Debtors, At
  <2>2. ContentOf(t) = object[o].hash /\ ContentOf(s) = object[o].hash
    BY <1>0, <1>1, <2>1, ContentKnown DEF IInv, ObjectSteps
  <2>3. t = s
    BY <1>1, <2>1, <2>2 DEF PurgesApart, At
  <2> QED BY <1>1, <2>1, <2>3
<1>4. Balanced(o)
  BY <1>1 DEF IInv, Balance
<1>5. Cardinality(Debtors(o)) = 0
  BY <1>3, FS_EmptySet
<1>6. Cardinality(Holders(o)) # 0
  BY <1>0, <1>2, Finite, FS_EmptySet
<1>7. Cardinality(EntriesOf(o)) = 0
  BY <1>0, <1>1, <1>4, <1>5, <1>6, Finite DEF Balanced
<1>8. EntriesOf(o) = {}
  BY <1>0, <1>7, Finite, FS_EmptySet
<1> QED BY <1>1, <1>8

(* What they make sure of. *)
LEMMA ReadsReady ==
    ASSUME SInv, Apart, NEW s \in Sessions, Step(s) \/ Abort(s), ~ Writes(s)
    PROVE  Ready(s)'
<1> USE DEF objectVars, fileVars, cacheVars, Tables, At, Goto, Jump, Hold, Args,
            ObjectSteps, HashSteps, BytesSteps, FreshSteps, NewSteps
<1>0. TypeOK /\ Ready(s)
  BY DEF SInv, IInv
<1>tables. UNCHANGED Tables
  BY ReadsOnly
<1>1. ASSUME Return(s) PROVE Ready(s)'
  BY <1>0, <1>1, IdleReady DEF Return, NoArgs, TypeOK
<1>2. CASE LookupFound(s)
  BY <1>0, <1>2 DEF LookupFound, Ready, FreshKnown, TypeOK
<1>3. CASE LookupNone(s)
  <2>1. RowsWith(req[s].hash) = {}
    BY <1>3 DEF LookupNone, Known
  <2>2. CASE Goto(s, "put")
    BY <1>0, <1>3, <2>1, <2>2 DEF LookupNone, Ready, FreshKnown, TypeOK, RowsWith
  <2> QED BY <1>1, <1>3, <2>2 DEF LookupNone
<1>4. CASE Fill(s)
  BY <1>0, <1>4 DEF Fill, Ready, FreshKnown, TypeOK
<1>5. CASE SizeMismatch(s)
  BY <1>1, <1>5 DEF SizeMismatch
<1>6. CASE Available(s)
  BY <1>0, <1>6 DEF Available, Ready, FreshKnown, TypeOK, NameOf
<1>7. CASE NotAvailable(s)
  <2>1. CASE Goto(s, "repair_put")
    BY <1>0, <1>7, <2>1 DEF NotAvailable, Ready, FreshKnown, TypeOK
  <2> QED BY <1>1, <1>7, <2>1 DEF NotAvailable
<1>8. CASE RepairRow(s)
  BY <1>0, <1>8 DEF RepairRow, Ready, FreshKnown, TypeOK, NameOf
<1>9. CASE IncreaseRefCount(s)
  BY <1>0, <1>9 DEF IncreaseRefCount, Ready, FreshKnown, TypeOK, NameOf
<1>10. CASE CreateEntryFails(s)
  BY <1>0, <1>10 DEF CreateEntryFails, Ready, FreshKnown, TypeOK, EntriesOf
<1>11. CASE CreateFilesObjectFails(s)
  BY <1>0, <1>11 DEF CreateFilesObjectFails, Ready, FreshKnown, TypeOK, RowsWith
<1>12. CASE CacheNewObject(s)
  BY <1>0, <1>12 DEF CacheNewObject, Ready, FreshKnown, TypeOK, NameOf, EntriesOf
<1>13. CASE CopyEntryFails(s) \/ CopyIncrease(s) \/ DecreaseWrite(s) \/ RemoveCache(s) \/ Abort(s)
  BY <1>1, <1>13 DEF CopyEntryFails, CopyIncrease, DecreaseWrite, RemoveCache, Abort
<1>14. CASE RemoveRead(s)
  <2>1. CASE Goto(s, "dec")
    BY <1>0, <1>14, <2>1 DEF RemoveRead, Ready, FreshKnown, TypeOK
  <2> QED BY <1>1, <1>14, <2>1 DEF RemoveRead
<1>15. CASE DecreaseRead(s)
  BY <1>0, <1>15 DEF DecreaseRead, Ready, FreshKnown, TypeOK
<1>16. CASE DecreaseLast(s)
  <2>1. CASE req[s].obj \in rows /\ Goto(s, "rm_object")
    <3>1. UNCHANGED <<req, object, rows, entries, file>> /\ pc[s] = "dec" /\ pc'[s] = "rm_object"
      BY <1>0, <1>16, <2>1 DEF DecreaseLast, TypeOK
    <3>2. PurgesApart
      BY DEF Apart, PurgesApart
    <3>3. req[s].obj \in rows /\ EntriesOf(req[s].obj) = {}
      BY <1>16, <3>1, <3>2, LastReference DEF SInv
    <3>4. ~ req[s].fresh
      BY <1>0, <3>1 DEF Ready, FreshKnown
    <3>5. req'[s].obj \in rows' /\ EntriesOf(req[s].obj)' = {} /\ req'[s] = req[s]
      BY <3>1, <3>3 DEF EntriesOf
    <3> QED BY <3>1, <3>4, <3>5 DEF Ready, FreshKnown
  <2> QED BY <1>1, <1>16, <2>1 DEF DecreaseLast
<1> QED
  BY <1>2, <1>3, <1>4, <1>5, <1>6, <1>7, <1>8, <1>9, <1>10, <1>11, <1>12, <1>13, <1>14, <1>15,
     <1>16 DEF Step, Writes

(* Each write keeps one row for a hash and leaves every entry its bytes. *)
LEMMA WritesReady ==
    ASSUME SInv, NEW s \in Sessions, Writes(s)
    PROVE  OneRowPerHash' /\ EntriesStored' /\ Ready(s)'
<1> USE DEF objectVars, fileVars, cacheVars, At, Goto, Jump, Hold, Args, BytesSteps, FreshSteps, NewSteps
<1>0. TypeOK /\ Shape /\ OneRowPerHash /\ EntriesStored /\ Ready(s)
  BY DEF SInv, IInv
<1>1. ASSUME Return(s) PROVE Ready(s)'
  BY <1>0, <1>1, IdleReady DEF Return, NoArgs, TypeOK
<1>2. ASSUME UNCHANGED <<object, rows>> PROVE OneRowPerHash'
  BY <1>0, <1>2 DEF OneRowPerHash
<1>3. ASSUME UNCHANGED <<object, entries, file>>, store \subseteq store' PROVE EntriesStored'
  BY <1>0, <1>3 DEF EntriesStored, NameOf
<1>4. ASSUME UNCHANGED <<object, entries, file>>, NEW id \in rows, EntriesOf(id) = {},
             store \ {NameOf(id)} \subseteq store'
      PROVE  EntriesStored'
  <2> SUFFICES ASSUME NEW e \in entries PROVE NameOf(file[e].object) \in store'
    BY <1>4 DEF EntriesStored, NameOf
  <2>1. file[e].object \in rows /\ file[e].object # id
    BY <1>0, <1>4 DEF Shape, EntriesOf
  <2>2. NameOf(file[e].object) # NameOf(id)
    BY <1>0, <2>1 DEF OneRowPerHash, NameOf
  <2> QED BY <1>0, <1>4, <2>2 DEF EntriesStored
<1>5. CASE RepairPut(s)
  BY <1>0, <1>2, <1>3, <1>5 DEF RepairPut, Ready, FreshKnown, TypeOK, NameOf
<1>6. CASE PutObject(s)
  BY <1>0, <1>2, <1>3, <1>6 DEF PutObject, Ready, FreshKnown, TypeOK, RowsWith
<1>7. CASE UndoPut(s)
  <2>1. Return(s) /\ UNCHANGED <<object, rows, entries, file>> /\ pc[s] = "put_undo"
    BY <1>7 DEF UndoPut
  <2>2. store \ {<<UserOf[s], req[s].hash>>} \subseteq store'
    BY <1>7 DEF UndoPut, Discard
  <2>3. ASSUME NEW e \in entries PROVE NameOf(file[e].object) \in store'
    <3>1. file[e].object \in rows /\ NameOf(file[e].object) \in store
      BY <1>0 DEF Shape, EntriesStored
    <3>2. object[file[e].object].hash # req[s].hash
      BY <1>0, <2>1, <3>1 DEF Ready, RowsWith
    <3> QED BY <2>2, <3>1, <3>2 DEF NameOf
  <2>4. EntriesStored'
    BY <2>1, <2>3 DEF EntriesStored, NameOf
  <2> QED BY <1>1, <1>2, <2>1, <2>4
<1>8. CASE UndoObject(s)
  <2>1. req[s].obj \in rows /\ EntriesOf(req[s].obj) = {} /\ <<UserOf[s], req[s].hash>> = NameOf(req[s].obj)
    BY <1>0, <1>8 DEF UndoObject, Ready, FreshKnown, NameOf
  <2>2. store \ {NameOf(req[s].obj)} \subseteq store'
    BY <1>8, <2>1 DEF UndoObject, Discard
  <2>3. OneRowPerHash' /\ EntriesStored'
    BY <1>2, <1>4, <1>8, <2>1, <2>2 DEF UndoObject
  <2>4. Ready(s)'
    BY <1>0, <1>8 DEF UndoObject, Ready, FreshKnown, TypeOK, EntriesOf
  <2> QED BY <2>3, <2>4
<1>9. CASE DeleteMinioFile(s)
  <2>1. req[s].obj \in rows /\ EntriesOf(req[s].obj) = {}
    BY <1>0, <1>9 DEF DeleteMinioFile, Ready
  <2>2. OneRowPerHash' /\ EntriesStored'
    BY <1>2, <1>4, <1>9, <2>1 DEF DeleteMinioFile
  <2>3. Ready(s)'
    BY <1>0, <1>9 DEF DeleteMinioFile, Ready, FreshKnown, TypeOK, EntriesOf
  <2> QED BY <2>2, <2>3
<1>10. CASE CreateFilesObject(s)
  <2>1. PICK id \in Fresh(object) :
          /\ object' = [object EXCEPT ![id] = [hash |-> req[s].hash, owner |-> UserOf[s]]]
          /\ rows' = rows \cup {id}
          /\ Hold(s, id, TRUE)
    BY <1>10 DEF CreateFilesObject
  <2>2. id \in ObjectIds /\ object[id] = Null /\ id \notin rows
    BY <1>0, <2>1 DEF Fresh, TypeOK
  <2>3. \A i \in rows : object'[i] = object[i] /\ object[i].hash # req[s].hash
    BY <1>0, <1>10, <2>1, <2>2 DEF CreateFilesObject, RowsWith, TypeOK
  <2>4. object'[id] = [hash |-> req[s].hash, owner |-> UserOf[s]]
    BY <1>0, <2>1, <2>2 DEF TypeOK
  <2>5. OneRowPerHash'
    BY <1>0, <2>1, <2>3, <2>4 DEF OneRowPerHash
  <2>6. \A e \in entries : file[e].object \in rows
    BY <1>0 DEF Shape
  <2>7. UNCHANGED <<entries, file, store>> /\ pc[s] = "row" /\ pc'[s] = "row_cache"
    BY <1>0, <1>10 DEF CreateFilesObject, TypeOK
  <2>8. EntriesStored'
    BY <1>0, <2>3, <2>6, <2>7 DEF EntriesStored, NameOf
  <2>9. req'[s] = [op |-> req[s].op, hash |-> req[s].hash, obj |-> id, file |-> Null, fresh |-> TRUE]
    BY <1>0, <2>1 DEF TypeOK
  <2>10. EntriesOf(id)' = {}
    BY <2>2, <2>6, <2>7 DEF EntriesOf
  <2>11. <<UserOf[s], req[s].hash>> \in store
    BY <1>0, <2>7 DEF Ready
  <2> QED
    BY <2>1, <2>4, <2>5, <2>7, <2>8, <2>9, <2>10, <2>11 DEF Ready, FreshKnown, NameOf, EntriesOf
<1>11. CASE UndoRow(s)
  <2>1. Return(s) /\ UNCHANGED <<object, entries, file, store>> /\ rows' \subseteq rows
    BY <1>11 DEF UndoRow, DeleteRow
  <2> QED BY <1>0, <1>1, <1>3, <2>1 DEF OneRowPerHash
<1>12. CASE RemoveRow(s)
  <2>1. UNCHANGED <<object, entries, file, store>> /\ rows' \subseteq rows
    BY <1>12 DEF RemoveRow, DeleteRow
  <2>2. OneRowPerHash' /\ EntriesStored'
    BY <1>0, <1>3, <2>1 DEF OneRowPerHash
  <2>3. CASE Goto(s, "rm_cache")
    BY <1>0, <1>12, <2>2, <2>3 DEF RemoveRow, Ready, FreshKnown, TypeOK
  <2> QED BY <1>1, <1>12, <2>2, <2>3 DEF RemoveRow
<1>13. CASE CreateEntry(s) \/ CopyEntry(s)
  <2> DEFINE o == req[s].obj
  <2>1. InsertFile(s, o) /\ o \in rows /\ UNCHANGED <<object, rows, store>> /\ pc[s] \in BytesSteps
    BY <1>13 DEF CreateEntry, CopyEntry, InsertFile
  <2>2. PICK e \in Fresh(file) :
          /\ file' = [file EXCEPT ![e] = [user |-> UserOf[s], object |-> o]]
          /\ entries' = entries \cup {e}
    BY <2>1 DEF InsertFile
  <2>3. e \in FileIds /\ e \notin entries
    BY <1>0, <2>2 DEF Fresh, TypeOK
  <2>4. \A f \in entries : file'[f] = file[f]
    BY <1>0, <2>2, <2>3 DEF TypeOK
  <2>5. file'[e].object = o
    BY <1>0, <2>2, <2>3 DEF TypeOK
  <2>6. NameOf(o) \in store
    BY <1>0, <2>1 DEF Ready
  <2>7. EntriesStored'
    BY <1>0, <2>1, <2>2, <2>4, <2>5, <2>6 DEF EntriesStored, NameOf
  <2>8. CASE CreateEntry(s)
    BY <1>1, <1>2, <2>1, <2>7, <2>8 DEF CreateEntry
  <2>9. CASE CopyEntry(s)
    <3>1. ~ req[s].fresh /\ UNCHANGED req /\ pc'[s] = "copy_inc"
      BY <1>0, <2>9 DEF CopyEntry, Ready, FreshKnown, TypeOK
    <3> QED BY <1>2, <2>1, <2>7, <3>1 DEF Ready, FreshKnown
  <2> QED BY <1>13, <2>8, <2>9
<1>14. CASE PurgeEntry(s)
  <2>1. entries' \subseteq entries /\ UNCHANGED <<object, rows, file, store>>
    BY <1>14 DEF PurgeEntry
  <2>2. EntriesStored'
    BY <1>0, <2>1 DEF EntriesStored, NameOf
  <2> QED BY <1>0, <1>2, <1>14, <2>1, <2>2 DEF PurgeEntry, Ready, FreshKnown, TypeOK
<1> QED
  BY <1>5, <1>6, <1>7, <1>8, <1>9, <1>10, <1>11, <1>12, <1>13, <1>14 DEF Writes

(* What a step may touch of a content: its rows, its names in the bucket and *)
(* the entries that share its objects.                                       *)
Untouched(h) ==
    /\ \A i \in ObjectIds : object[i] # Null => object'[i] = object[i]
    /\ \A i \in rows : object[i].hash = h => i \in rows'
    /\ \A i \in rows' : object'[i].hash = h => i \in rows
    /\ \A u : <<u, h>> \in store' <=> <<u, h>> \in store
    /\ \A i \in ObjectIds : object[i] # Null /\ object[i].hash = h => EntriesOf(i)' = EntriesOf(i)

(* A step touches the content of its request only. *)
LEMMA Footprint ==
    ASSUME TypeOK, Shape, Keyed, Marked,
           NEW s \in Sessions, Step(s) \/ Abort(s), NEW h, h # ContentOf(s)
    PROVE  Untouched(h)
<1> USE DEF objectVars, fileVars, cacheVars, At
<1> DEFINE o == req[s].obj
<1>0. TypeOK /\ Shape /\ Keyed
  OBVIOUS
<1>1. /\ pc[s] \in HashSteps => req[s].hash # h
      /\ pc[s] \in ObjectSteps => o \in ObjectIds /\ object[o] # Null /\ object[o].hash # h
  BY <1>0, ContentKnown DEF Shape
<1>2. ASSUME UNCHANGED <<object, rows, entries, file>>, \A u : <<u, h>> \in store' <=> <<u, h>> \in store
      PROVE  Untouched(h)
  BY <1>2 DEF Untouched, EntriesOf
<1>3. CASE RepairPut(s) \/ PutObject(s) \/ UndoPut(s) \/ UndoObject(s) \/ DeleteMinioFile(s)
  <2>1. UNCHANGED <<object, rows, entries, file>>
    BY <1>3 DEF RepairPut, PutObject, UndoPut, UndoObject, DeleteMinioFile
  <2>2. PICK u, c : /\ c # h
                    /\ \/ store' = store \cup {<<u, c>>}
                       \/ store' = store \ {<<u, c>>}
                       \/ store' = store
    <3>1. CASE RepairPut(s) \/ DeleteMinioFile(s)
      <4>1. object[o].hash # h /\ object[o].owner \in Users
        BY <1>0, <1>1, <3>1 DEF RepairPut, DeleteMinioFile, ObjectSteps, TypeOK
      <4> QED BY <3>1, <4>1 DEF RepairPut, DeleteMinioFile, NameOf
    <3>2. CASE PutObject(s) \/ UndoPut(s) \/ UndoObject(s)
      <4>1. req[s].hash # h
        BY <1>1, <3>2 DEF PutObject, UndoPut, UndoObject, HashSteps
      <4>2. UserOf[s] \in Users
        BY ConstantsAssumption
      <4>3. \/ store' = store \cup {<<UserOf[s], req[s].hash>>}
            \/ store' = store \ {<<UserOf[s], req[s].hash>>}
            \/ store' = store
        BY <3>2 DEF PutObject, UndoPut, UndoObject, Discard
      <4> QED BY <4>1, <4>2, <4>3
    <3> QED BY <1>3, <3>1, <3>2
  <2> QED BY <1>2, <2>1, <2>2
<1>4. CASE CreateFilesObject(s)
  <2>1. PICK id \in Fresh(object) :
          /\ object' = [object EXCEPT ![id] = [hash |-> req[s].hash, owner |-> UserOf[s]]]
          /\ rows' = rows \cup {id}
    BY <1>4 DEF CreateFilesObject
  <2>2. id \in ObjectIds /\ object[id] = Null /\ object'[id].hash = req[s].hash
    BY <1>0, <2>1 DEF Fresh, TypeOK
  <2>3. req[s].hash # h /\ UNCHANGED <<entries, file, store>>
    BY <1>1, <1>4 DEF CreateFilesObject, HashSteps
  <2>4. \A i \in ObjectIds : object[i] # Null => object'[i] = object[i]
    BY <1>0, <2>1, <2>2 DEF TypeOK
  <2> QED BY <2>1, <2>2, <2>3, <2>4 DEF Untouched, EntriesOf
<1>5. CASE UndoRow(s) \/ RemoveRow(s)
  <2>1. object[o].hash # h /\ UNCHANGED <<object, entries, file, store>>
    BY <1>1, <1>5 DEF UndoRow, RemoveRow, ObjectSteps
  <2>2. rows' = rows \/ rows' = rows \ {o}
    BY <1>5 DEF UndoRow, RemoveRow, DeleteRow
  <2> QED BY <2>1, <2>2 DEF Untouched, EntriesOf
<1>6. CASE CreateEntry(s) \/ CopyEntry(s)
  <2>1. InsertFile(s, o) /\ object[o].hash # h /\ UNCHANGED <<object, rows, store>>
    BY <1>1, <1>6 DEF CreateEntry, CopyEntry, ObjectSteps
  <2>2. PICK e \in Fresh(file) :
          /\ file' = [file EXCEPT ![e] = [user |-> UserOf[s], object |-> o]]
          /\ entries' = entries \cup {e}
    BY <2>1 DEF InsertFile
  <2>3. e \notin entries /\ file'[e].object = o /\ \A f \in entries : file'[f] = file[f]
    BY <1>0, <2>2 DEF Fresh, TypeOK
  <2>4. \A i : i # o => EntriesOf(i)' = EntriesOf(i)
    BY <2>2, <2>3 DEF EntriesOf
  <2> QED BY <2>1, <2>4 DEF Untouched
<1>7. CASE PurgeEntry(s)
  <2>1. o \in ObjectIds /\ object[o].hash # h /\ pc[s] = "purge_entry"
    BY <1>1, <1>7 DEF PurgeEntry, ObjectSteps
  <2>2. entries' = entries \ {req[s].file} /\ UNCHANGED <<object, rows, file, store>>
    BY <1>7 DEF PurgeEntry
  <2>3. file[req[s].file].object = o
    BY <2>1 DEF Marked
  <2>4. \A i : i # o => EntriesOf(i)' = EntriesOf(i)
    BY <2>2, <2>3 DEF EntriesOf
  <2> QED BY <2>1, <2>2, <2>4 DEF Untouched
<1>8. CASE ~ Writes(s)
  <2>1. UNCHANGED Tables
    BY <1>8, ReadsOnly
  <2> QED BY <1>2, <2>1 DEF Tables
<1> QED BY <1>3, <1>4, <1>5, <1>6, <1>7, <1>8 DEF Writes

(* The requests that stand still work on other contents or are idle. *)
LEMMA OthersReady ==
    ASSUME SInv, Apart, NEW s \in Sessions, Step(s) \/ Abort(s), pc[s] # "idle",
           NEW t \in Sessions, t # s
    PROVE  Ready(t)'
<1> DEFINE h == ContentOf(t)
           o == req[t].obj
<1> USE DEF FreshSteps, NewSteps, BytesSteps
<1>0. TypeOK /\ Shape /\ Keyed /\ Ready(t)
  BY DEF SInv, IInv
<1>1. pc'[t] = pc[t] /\ req'[t] = req[t]
  BY <1>0, StepIsLocal DEF OthersKeep
<1>2. CASE pc[t] = "idle"
  BY <1>0, <1>1, <1>2 DEF Ready, FreshKnown
<1>3. CASE pc[t] # "idle"
  <2>1. Untouched(h)
    BY <1>3, Footprint DEF SInv, IInv, Apart, At
  <2>2. /\ pc[t] \in HashSteps => h = req[t].hash
        /\ pc[t] \in ObjectSteps => h = object[o].hash /\ o \in ObjectIds /\ object[o] # Null
    BY <1>0, ContentKnown DEF Shape
  <2>3. pc[t] \in ObjectSteps =>
          NameOf(o)' = NameOf(o) /\ EntriesOf(o)' = EntriesOf(o) /\ object'[o] = object[o]
    BY <1>1, <2>1, <2>2 DEF Untouched, NameOf
  <2>4. pc[t] \in NewSteps => RowsWith(req[t].hash)' = {}
    <3>1. pc[t] \in NewSteps => h = req[t].hash /\ RowsWith(h) = {}
      BY <1>0, <2>2 DEF Ready, HashSteps
    <3>2. RowsWith(h) = {} => \A i \in rows' : object'[i].hash # h
      BY <1>0, <2>1 DEF Untouched, RowsWith, TypeOK
    <3> QED BY <1>1, <3>1, <3>2 DEF RowsWith
  <2>5. pc[t] = "row" => <<UserOf[t], req[t].hash>> \in store'
    BY <1>0, <2>1, <2>2 DEF Ready, Untouched, HashSteps
  <2>6. pc[t] \in BytesSteps => NameOf(o)' \in store'
    BY <1>0, <2>1, <2>2, <2>3 DEF Ready, Untouched, NameOf, ObjectSteps
  <2>7. req[t].fresh \/ pc[t] \in {"rm_object", "rm_row"} => o \in rows' /\ EntriesOf(o)' = {}
    <3>1. req[t].fresh \/ pc[t] \in {"rm_object", "rm_row"} =>
             pc[t] \in ObjectSteps /\ o \in rows /\ EntriesOf(o) = {}
      BY <1>0 DEF Ready, FreshKnown, ObjectSteps
    <3> QED BY <2>1, <2>2, <2>3, <3>1 DEF Untouched
  <2>8. FreshKnown(t)'
    BY <1>0, <1>1, <2>3 DEF Ready, FreshKnown, ObjectSteps
  <2>9. NameOf(req[t].obj)' = NameOf(o)' /\ EntriesOf(req[t].obj)' = EntriesOf(o)'
    BY <1>1 DEF NameOf, EntriesOf
  <2> QED BY <1>0, <1>1, <2>4, <2>5, <2>6, <2>7, <2>8, <2>9 DEF Ready
<1> QED BY <1>2, <1>3

(* A request that begins, a move to or from the recycle bin, a lock that     *)
(* runs out.                                                                 *)
LEMMA RequestReady ==
    ASSUME SInv, NEW s \in Sessions, Request(s) \/ LeaseExpires(s)
    PROVE  UNCHANGED Tables /\ \A t \in Sessions : Ready(t)'
<1> USE DEF objectVars, fileVars, Tables, Args, BytesSteps, FreshSteps, NewSteps
<1>0. TypeOK /\ Shape /\ EntriesStored /\ \A t \in Sessions : Ready(t)
  BY DEF SInv, IInv
<1>tables. UNCHANGED Tables
  BY DEF Request, FastUpload, MultipartComplete, CopyFile, DeleteFileRecord, MoveToRecycle,
     RestoreFile, LeaseExpires
<1> SUFFICES \A t \in Sessions : Ready(t)'
  BY <1>tables
<1>1. ASSUME NEW t \in Sessions, pc'[t] = pc[t], req'[t] = req[t] PROVE Ready(t)'
  BY <1>0, <1>tables, <1>1 DEF Ready, FreshKnown, RowsWith, EntriesOf, NameOf
<1>2. CASE MoveToRecycle(s) \/ RestoreFile(s) \/ LeaseExpires(s)
  BY <1>1, <1>2 DEF MoveToRecycle, RestoreFile, LeaseExpires
<1>3. CASE FastUpload(s) \/ MultipartComplete(s) \/ CopyFile(s) \/ DeleteFileRecord(s)
  <2>1. OthersKeep(s)
    BY <1>0, <1>3, StepIsLocal DEF Request
  <2>2. CASE FastUpload(s) \/ MultipartComplete(s) \/ DeleteFileRecord(s)
    <3>1. PICK step, args :
             step \in {"lookup", "purge_entry"} /\ Begin(s, step, args) /\ ~ args.fresh
      <4>1. CASE FastUpload(s)
        BY <4>1 DEF FastUpload
      <4>2. CASE MultipartComplete(s)
        BY <4>2 DEF MultipartComplete
      <4>3. CASE DeleteFileRecord(s)
        BY <4>3 DEF DeleteFileRecord
      <4> QED BY <2>2, <4>1, <4>2, <4>3
    <3>2. pc'[s] \in {"lookup", "purge_entry"} /\ ~ req'[s].fresh
      BY <1>0, <3>1 DEF Begin, Jump, TypeOK
    <3>3. Ready(s)'
      BY <3>2 DEF Ready, FreshKnown
    <3> QED BY <1>1, <2>1, <3>3 DEF OthersKeep
  <2>3. CASE CopyFile(s)
    <3>1. PICK e \in entries : /\ pc' = [pc EXCEPT ![s] = "copy_entry"]
                               /\ req' = [req EXCEPT ![s] = Args("copy", Null, file[e].object, Null, FALSE)]
      BY <2>3 DEF CopyFile, Begin, Jump
    <3>2. pc'[s] = "copy_entry" /\ ~ req'[s].fresh /\ req'[s].obj = file[e].object
      BY <1>0, <3>1 DEF TypeOK
    <3>3. NameOf(req[s].obj)' \in store'
      BY <1>0, <1>tables, <3>2 DEF EntriesStored, NameOf
    <3>4. Ready(s)'
      BY <3>2, <3>3 DEF Ready, FreshKnown
    <3> QED BY <1>1, <2>1, <3>4 DEF OthersKeep
  <2> QED BY <1>3, <2>2, <2>3
<1> QED BY <1>2, <1>3 DEF Request

(* A step is one of a request that is served. *)
LEMMA StepBusy ==
    ASSUME NEW s, Step(s) \/ Abort(s)
    PROVE  pc[s] # "idle"
  BY DEF Step, LookupFound, LookupNone, Fill, SizeMismatch, Available, NotAvailable,
     RepairPut, RepairRow, IncreaseRefCount, CreateEntry, CreateEntryFails, PutObject,
     CreateFilesObject, CreateFilesObjectFails, CacheNewObject, UndoPut, UndoObject, UndoRow,
     CopyEntry, CopyEntryFails, CopyIncrease, PurgeEntry, RemoveRead, DecreaseRead,
     DecreaseLast, DecreaseWrite, DeleteMinioFile, RemoveRow, RemoveCache, Abort, At

(* The invariant is inductive as long as requests about one content do not   *)
(* overlap.                                                                  *)
LEMMA SInvStep ==
    ASSUME CopiesComplete, SInv, Apart, [Next]_vars
    PROVE  SInv'
<1>0. PurgesDistinct
  BY ApartDistinct DEF SInv, IInv, Apart, PurgesApart
<1>1. IInv' /\ Keyed'
  BY <1>0, IInvStep, KeyedStep DEF SInv, IInv
<1>2. ASSUME UNCHANGED Tables PROVE OneRowPerHash' /\ EntriesStored'
  BY <1>2 DEF SInv, OneRowPerHash, EntriesStored, Tables, NameOf
<1>3. CASE \E s \in Sessions : Step(s) \/ Abort(s)
  <2>1. PICK s \in Sessions : Step(s) \/ Abort(s)
    BY <1>3
  <2>2. \A t \in Sessions : t # s => Ready(t)'
    BY <2>1, OthersReady, StepBusy
  <2>3. OneRowPerHash' /\ EntriesStored' /\ Ready(s)'
    BY <1>2, <2>1, ReadsOnly, ReadsReady, WritesReady
  <2> QED BY <1>1, <2>2, <2>3 DEF SInv
<1>4. CASE \E s \in Sessions : Request(s) \/ LeaseExpires(s)
  BY <1>1, <1>2, <1>4, RequestReady DEF SInv
<1>5. CASE CacheExpires \/ UNCHANGED vars
  <2>1. UNCHANGED Tables /\ UNCHANGED <<pc, req>>
    BY <1>5 DEF CacheExpires, vars, objectVars, fileVars, Tables
  <2> QED BY <1>1, <1>2, <2>1 DEF SInv, Ready, FreshKnown, RowsWith, EntriesOf, NameOf, Tables
<1> QED BY <1>3, <1>4, <1>5 DEF Next

(* Nothing is served and nothing stored at first. *)
LEMMA SInvInit ==
    ASSUME Init
    PROVE  SInv
<1>1. TypeOK /\ Shape
  BY ConstantsAssumption, NullAssumption
     DEF Init, TypeOK, Shape, NoArgs, Args, Steps, ObjectSteps, HashSteps
<1>2. Keyed
  BY DEF Init, Keyed, ObjectSteps
<1>3. rows = {} /\ entries = {} /\ \A s \in Sessions : pc[s] = "idle" /\ ~ req[s].fresh
  BY DEF Init, NoArgs, Args
<1> QED
  BY <1>1, <1>2, <1>3 DEF SInv, IInv, Balance, Marked, OneRowPerHash, EntriesStored, Ready,
     FreshKnown, NewSteps, BytesSteps

(* Nothing overlaps at first, and no step of ApartSpec makes two requests    *)
(* about one content.                                                        *)
LEMMA StaysApart == ApartSpec => []Apart
<1>1. Init => Apart
  BY DEF Init, Apart, At
<1>2. Apart /\ [Next /\ Apart']_vars => Apart'
  BY DEF vars, objectVars, Apart, ContentOf, At
<1> QED BY <1>1, <1>2, PTL DEF ApartSpec

(* Requests leave every entry its bytes, whatever statement of theirs fails  *)
(* or is cut off, as long as those about one content come one after another: *)
(* RemoveObject and the rollbacks of CompleteFile delete only objects no     *)
(* user_file row shares, and every entry is inserted after its object was    *)
(* found in the bucket or put there.                                         *)
THEOREM ApartEntriesStored ==
    CopiesComplete => (ApartSpec => []EntriesStored)
<1> SUFFICES ASSUME CopiesComplete PROVE ApartSpec => []EntriesStored
  OBVIOUS
<1>1. Init => SInv
  BY SInvInit
<1>2. SInv /\ Apart /\ [Next /\ Apart']_vars => SInv'
  BY SInvStep
<1>3. SInv => EntriesStored
  BY DEF SInv
<1> QED
  BY <1>1, <1>2, <1>3, StaysApart, PTL DEF ApartSpec

-----------------------------------------------------------------------------
(* The refinement of Drive. *)

(* What the refinement needs to know of a state. *)
Kept == TypeOK /\ Shape /\ Purging /\ EntriesStored

(* A drive all of whose entries have their bytes. *)
Listed == [e \in entries |-> [user    |-> file[e].user,
                              content |-> object[file[e].object].hash,
                              binned  |-> e \in bin]]

(* What the drive shows, before and after a step. *)
LEMMA DriveListed ==
    ASSUME EntriesStored, EntriesStored'
    PROVE  DriveOf = Listed /\ DriveOf' = Listed'
<1>1. DriveOf = Listed
  BY DEF EntriesStored, DriveOf, Listed
<1>2. DriveOf' = Listed'
  BY DEF EntriesStored, DriveOf, Listed
<1> QED BY <1>1, <1>2

(* A listing with another place. *)
LEMMA PlaceOnly ==
    ASSUME NEW u, NEW c, NEW b, NEW d
    PROVE  [[user |-> u, content |-> c, binned |-> b] EXCEPT !.binned = d]
              = [user |-> u, content |-> c, binned |-> d]
  OBVIOUS

(* An entry that moves to or from the recycle bin changes its place only. *)
LEMMA MovesBinned ==
    ASSUME NEW e \in entries, NEW b \in BOOLEAN, (e \in bin') = b,
           \A g \in entries \ {e} : g \in bin' <=> g \in bin,
           UNCHANGED <<object, file, entries>>
    PROVE  Listed' = [Listed EXCEPT ![e].binned = b]
<1> DEFINE Place(d) == [user    |-> file[e].user,
                        content |-> object[file[e].object].hash,
                        binned  |-> d]
<1>1. Listed[e] = Place(e \in bin) /\ Listed'[e] = Place(e \in bin')
  BY DEF Listed
<1>2. Listed'[e] = Place(b)
  BY <1>1, Zenon
<1>3. [Place(e \in bin) EXCEPT !.binned = b] = Place(b)
  BY PlaceOnly
<1>4. [Listed[e] EXCEPT !.binned = b] = [Place(e \in bin) EXCEPT !.binned = b]
  BY <1>1, SMT
<1>5. Listed'[e] = [Listed[e] EXCEPT !.binned = b]
  BY <1>2, <1>3, <1>4, Zenon
<1>6. \A g \in entries \ {e} : Listed'[g] = Listed[g]
  BY DEF Listed
<1>7. Listed' = [g \in entries |-> Listed'[g]] /\ Listed = [g \in entries |-> Listed[g]]
  BY DEF Listed
<1> QED BY <1>5, <1>6, <1>7

(* What leaves the entries, their objects and the recycle bin alone cannot be *)
(* seen in the drive.                                                         *)
LEMMA Unseen ==
    ASSUME Kept, Kept', UNCHANGED <<file, entries, bin>>,
           \A i \in rows : object'[i] = object[i]
    PROVE  UNCHANGED DriveOf
<1>1. DriveOf = Listed /\ DriveOf' = Listed'
  BY DriveListed DEF Kept
<1>2. \A e \in entries : file[e].object \in rows
  BY DEF Kept, Shape
<1>3. Listed' = Listed
  BY <1>2 DEF Listed
<1> QED BY <1>1, <1>3

(* A new entry is a file uploaded with the content of its object. *)
LEMMA InsertUploads ==
    ASSUME Kept, Kept', NEW s \in Sessions, InsertFile(s, req[s].obj), UNCHANGED object
    PROVE  \E f \in FileIds, u \in Users, c \in Hashes : D!Upload(f, u, c)
<1> DEFINE o == req[s].obj
<1>0. TypeOK /\ Shape /\ DriveOf = Listed /\ DriveOf' = Listed'
  BY DriveListed DEF Kept
<1>1. PICK e \in Fresh(file) :
        /\ file' = [file EXCEPT ![e] = [user |-> UserOf[s], object |-> o]]
        /\ entries' = entries \cup {e}
        /\ UNCHANGED bin
  BY DEF InsertFile
<1>2. e \in FileIds /\ e \notin entries /\ e \notin bin
  BY <1>0, <1>1 DEF Fresh, TypeOK
<1>3. file'[e] = [user |-> UserOf[s], object |-> o] /\ \A g \in entries : file'[g] = file[g]
  BY <1>0, <1>1, <1>2 DEF TypeOK
<1>4. o \in rows /\ object[o] \in [hash : Hashes, owner : Users]
  BY <1>0 DEF InsertFile, TypeOK
<1> DEFINE h == object[o].hash
           u == UserOf[s]
           new == [user |-> u, content |-> h, binned |-> FALSE]
<1>5. u \in Users /\ h \in Hashes
  BY <1>4, ConstantsAssumption
<1>6. DOMAIN DriveOf = entries
  BY <1>0 DEF Listed
<1>7. Listed' = [g \in entries \cup {e} |-> IF g = e THEN new ELSE Listed[g]]
  <2>1. file'[e].user = u /\ object'[file'[e].object].hash = h /\ e \in entries' /\ e \notin bin'
    BY <1>1, <1>2, <1>3
  <2>2. Listed'[e] = [user |-> u, content |-> h, binned |-> e \in bin']
    BY <2>1 DEF Listed
  <2>3. (e \in bin') = FALSE
    BY <2>1
  <2>4. Listed'[e] = new
    BY <2>2, <2>3, Zenon
  <2>5. \A g \in entries : Listed'[g] = Listed[g]
    BY <1>1, <1>2, <1>3 DEF Listed
  <2>6. Listed' = [g \in entries \cup {e} |-> Listed'[g]]
    BY <1>1 DEF Listed
  <2> QED BY <1>2, <2>4, <2>5, <2>6
<1>8. D!Upload(e, u, h)
  BY <1>0, <1>2, <1>6, <1>7 DEF D!Upload
<1> QED BY <1>2, <1>5, <1>8

(* Every step keeps the promise of Drive or cannot be seen in it. *)
LEMMA DriveStep ==
    ASSUME Kept, Kept', Next
    PROVE  D!Next \/ UNCHANGED DriveOf
<1> USE DEF objectVars, fileVars
<1>0. TypeOK /\ Shape /\ DriveOf = Listed /\ DriveOf' = Listed' /\ DOMAIN Listed = entries
  BY DriveListed DEF Kept, Listed
<1>1. CASE CacheExpires
  BY <1>1, Unseen DEF CacheExpires
<1>2. ASSUME NEW s \in Sessions, CreateEntry(s) \/ CopyEntry(s) PROVE D!Next
  <2>1. InsertFile(s, req[s].obj) /\ UNCHANGED object
    BY <1>2 DEF CreateEntry, CopyEntry
  <2> QED BY <2>1, InsertUploads DEF D!Next
<1>3. ASSUME NEW s \in Sessions, MoveToRecycle(s) PROVE D!Next
  <2>1. PICK e \in entries \ bin : bin' = bin \cup {e}
    BY <1>3 DEF MoveToRecycle
  <2>2. UNCHANGED <<object, file, entries>>
    BY <1>3 DEF MoveToRecycle
  <2>3. Listed' = [Listed EXCEPT ![e].binned = TRUE]
    <3>1. e \in entries /\ (e \in bin') = TRUE /\ \A g \in entries \ {e} : g \in bin' <=> g \in bin
      BY <2>1, <2>2
    <3> QED BY <2>2, <3>1, MovesBinned
  <2>4. ~ Listed[e].binned /\ e \in FileIds
    BY <1>0, <2>1 DEF Listed, TypeOK
  <2>5. D!Recycle(e)
    BY <1>0, <2>1, <2>3, <2>4 DEF D!Recycle
  <2> QED BY <2>4, <2>5 DEF D!Next
<1>4. ASSUME NEW s \in Sessions, RestoreFile(s) PROVE D!Next
  <2>1. PICK e \in bin : bin' = bin \ {e}
    BY <1>4 DEF RestoreFile
  <2>2. UNCHANGED <<object, file, entries>> /\ e \in entries /\ e \in FileIds
    BY <1>0, <1>4, <2>1 DEF RestoreFile, TypeOK
  <2>3. Listed' = [Listed EXCEPT ![e].binned = FALSE]
    <3>1. e \in entries /\ (e \in bin') = FALSE /\ \A g \in entries \ {e} : g \in bin' <=> g \in bin
      BY <2>1, <2>2
    <3> QED BY <2>2, <3>1, MovesBinned
  <2>4. Listed[e].binned
    BY <2>1, <2>2 DEF Listed
  <2>5. D!Restore(e)
    BY <1>0, <2>2, <2>3, <2>4 DEF D!Restore
  <2> QED BY <2>2, <2>5 DEF D!Next
<1>5. ASSUME NEW s \in Sessions, PurgeEntry(s) PROVE D!Next
  <2> DEFINE e == req[s].file
  <2>1. entries' = entries \ {e} /\ bin' = bin \ {e} /\ UNCHANGED <<object, file>> /\ pc[s] = "purge_entry"
    BY <1>5 DEF PurgeEntry, At
  <2>2. e \in bin /\ e \in entries /\ e \in FileIds
    BY <1>0, <2>1 DEF Kept, Purging, TypeOK
  <2>3. Listed' = [g \in entries \ {e} |-> Listed[g]]
    BY <2>1 DEF Listed
  <2>4. Listed[e].binned
    BY <2>2 DEF Listed
  <2>5. D!Purge(e)
    BY <1>0, <2>2, <2>3, <2>4 DEF D!Purge
  <2> QED BY <2>2, <2>5 DEF D!Next
<1>6. ASSUME NEW s \in Sessions, CreateFilesObject(s) PROVE UNCHANGED DriveOf
  <2>1. UNCHANGED <<file, entries, bin>> /\ \A i \in rows : object'[i] = object[i]
    BY <1>0, <1>6 DEF CreateFilesObject, Fresh, TypeOK
  <2> QED BY <2>1, Unseen
<1>7. ASSUME NEW s \in Sessions, Request(s) \/ Step(s) \/ Abort(s) \/ LeaseExpires(s),
             ~ (CreateEntry(s) \/ CopyEntry(s) \/ PurgeEntry(s) \/ CreateFilesObject(s)
                \/ MoveToRecycle(s) \/ RestoreFile(s))
      PROVE  UNCHANGED DriveOf
  <2>1. UNCHANGED <<object, file, entries, bin>>
    BY <1>7 DEF Request, FastUpload, MultipartComplete, CopyFile, DeleteFileRecord, Step,
       LookupFound, LookupNone, Fill, SizeMismatch, Available, NotAvailable, RepairPut, RepairRow,
       IncreaseRefCount, CreateEntryFails, PutObject, CreateFilesObjectFails, CacheNewObject,
       UndoPut, UndoObject, UndoRow, CopyEntryFails, CopyIncrease, RemoveRead, DecreaseRead,
       DecreaseLast, DecreaseWrite, DeleteMinioFile, RemoveRow, RemoveCache, Abort, LeaseExpires
  <2> QED BY <2>1, Unseen
<1> QED
  BY <1>1, <1>2, <1>3, <1>4, <1>5, <1>6, <1>7 DEF Next

(* As long as every entry has its bytes, the steps implement Drive. *)
LEMMA KeptDrives ==
    ASSUME Kept, Kept', [Next]_vars
    PROVE  [D!Next]_DriveOf
<1>1. ASSUME UNCHANGED vars PROVE UNCHANGED DriveOf
  BY <1>1, Unseen DEF vars, objectVars, fileVars
<1> QED BY <1>1, DriveStep

(* What the entries at first show, and that no purge is under way. *)
LEMMA KeptInit ==
    ASSUME Init
    PROVE  D!Init /\ Purging
  BY DEF Init, D!Init, DriveOf, Purging

(* Under the same provisos the requests implement Drive: an entry appears    *)
(* with all the content its upload declared, keeps it until it is purged,    *)
(* and is purged from the recycle bin only.  References, rollbacks, the      *)
(* repair of a missing object, the cache and the requests about other        *)
(* contents stay unseen.                                                     *)
THEOREM ApartKeepsPromise ==
    OnePurgePerUser /\ CopiesComplete => (ApartSpec => KeepsPromise)
<1> SUFFICES ASSUME OnePurgePerUser, CopiesComplete PROVE ApartSpec => KeepsPromise
  OBVIOUS
<1>1. Init => D!Init /\ Purging /\ SInv
  BY KeptInit, SInvInit
<1>2. SInv /\ Purging /\ Apart /\ [Next /\ Apart']_vars => (SInv /\ Purging)'
  BY SInvStep, PurgingStep DEF SInv, IInv
<1>3. (SInv /\ Purging) /\ (SInv /\ Purging)' /\ [Next /\ Apart']_vars => [D!Next]_DriveOf
  BY KeptDrives DEF SInv, IInv, Kept
<1> QED
  BY <1>1, <1>2, <1>3, StaysApart, PTL DEF ApartSpec, KeepsPromise, D!Spec

-----------------------------------------------------------------------------
(* One request at a time (moves to and from the recycle bin are single       *)
(* statements that no limit on requests delays).                             *)
Alone == \A s, t \in Sessions : pc[s] # "idle" /\ pc[t] # "idle" => s = t

(* Begin waits until no request is served. *)
LEMMA BeginAlone ==
    ASSUME MaxActive <= 1, TypeOK, NEW s \in Sessions, NEW step, NEW args, Begin(s, step, args)
    PROVE  \A t \in Sessions : pc[t] = "idle"
<1> DEFINE busy == {t \in Sessions : ~ At(t, "idle")}
<1>1. IsFiniteSet(busy)
  BY ConstantsAssumption, FS_Subset
<1>2. Cardinality(busy) \in Nat /\ Cardinality(busy) < MaxActive
  BY <1>1, FS_CardinalityType DEF Begin
<1>3. Cardinality(busy) = 0
  BY <1>2, ConstantsAssumption
<1>4. busy = {}
  BY <1>1, <1>3, FS_EmptySet
<1> QED BY <1>4 DEF At

(* A request is served alone. *)
LEMMA AloneStep ==
    ASSUME MaxActive <= 1, TypeOK, Alone, [Next]_vars
    PROVE  Alone'
<1>1. CASE \E s \in Sessions : Request(s) \/ Step(s) \/ Abort(s) \/ LeaseExpires(s)
  <2>1. PICK s \in Sessions : Request(s) \/ Step(s) \/ Abort(s) \/ LeaseExpires(s)
    BY <1>1
  <2>2. OthersKeep(s)
    BY <2>1, StepIsLocal
  <2>3. CASE FastUpload(s) \/ MultipartComplete(s) \/ CopyFile(s) \/ DeleteFileRecord(s)
    <3>1. \A t \in Sessions : pc[t] = "idle"
      BY <2>3, BeginAlone DEF FastUpload, MultipartComplete, CopyFile, DeleteFileRecord
    <3> QED BY <2>2, <3>1 DEF Alone, OthersKeep
  <2>4. CASE MoveToRecycle(s) \/ RestoreFile(s) \/ LeaseExpires(s)
    BY <2>4 DEF MoveToRecycle, RestoreFile, LeaseExpires, Alone
  <2>5. CASE Step(s) \/ Abort(s)
    <3>1. pc[s] # "idle"
      BY <2>5, StepBusy
    <3> QED BY <2>2, <3>1 DEF Alone, OthersKeep
  <2> QED BY <2>1, <2>3, <2>4, <2>5 DEF Request
<1>2. CASE CacheExpires \/ UNCHANGED vars
  BY <1>2 DEF CacheExpires, vars, Alone
<1> QED BY <1>1, <1>2 DEF Next

(* One request at a time is the simplest way to stay apart. *)
LEMMA SerialApart ==
    ASSUME MaxActive <= 1
    PROVE  Spec => ApartSpec
<1>1. Init => TypeOK /\ Shape /\ Alone
  <2>1. Init => Alone
    BY DEF Init, Alone
  <2> QED BY <2>1, SInvInit DEF SInv, IInv
<1>2. TypeOK /\ Shape /\ Alone /\ [Next]_vars => (TypeOK /\ Shape /\ Alone)'
  BY TypeStep, AloneStep
<1>3. Alone' => Apart'
  BY DEF Alone, Apart, At
<1>4. TypeOK /\ Shape /\ Alone /\ [Next]_vars => [Next /\ Apart']_vars
  BY <1>2, <1>3
<1> QED BY <1>1, <1>2, <1>4, PTL DEF Spec, ApartSpec

(* Requests served one after another leave every entry its bytes, whatever   *)
(* statement of theirs fails or is cut off.                                  *)
THEOREM SerialEntriesStored ==
    MaxActive <= 1 /\ CopiesComplete => (Spec => []EntriesStored)
  BY ApartEntriesStored, SerialApart

(* Served one after another, faults included, the requests implement Drive.  *)
THEOREM SerialKeepsPromise ==
    MaxActive <= 1 /\ OnePurgePerUser /\ CopiesComplete => (Spec => KeepsPromise)
  BY ApartKeepsPromise, SerialApart

-----------------------------------------------------------------------------
(* Requests about one content that overlap.  A purge is alone with it, and   *)
(* so is the merge of a user among the user's merges, as lock:merge sees to. *)
Orderly ==
    \A s, t \in Sessions :
        ~ At(s, "idle") /\ ~ At(t, "idle") /\ ContentOf(s) = ContentOf(t) /\ s # t =>
            /\ "purge" \notin {req[s].op, req[t].op}
            /\ ~ (req[s].op = "complete" /\ req[t].op = "complete" /\ UserOf[s] = UserOf[t])

OrderlySpec == Init /\ [][Next /\ Orderly']_vars

(* The names of the rows' objects, and that of the object a merge puts. *)
Names == {NameOf(id) : id \in rows}
PutName(s) == <<UserOf[s], req[s].hash>>

PurgeSteps == {"purge_entry", "rm_read", "rm_object", "rm_row", "rm_cache"}

(* What a request knows of the content it shares with others. *)
Sharing(s) ==
    /\ pc[s] \notin {"undo_object", "undo_row"}
    /\ pc[s] \in NewSteps => req[s].op = "complete" /\ PutName(s) \notin Names
    /\ pc[s] = "row" => PutName(s) \in store
    /\ pc[s] \in BytesSteps /\ req[s].obj \in rows => NameOf(req[s].obj) \in store
    /\ req[s].fresh => pc[s] \in {"row_cache", "entry"} /\ req[s].obj \in rows
    /\ pc[s] \in PurgeSteps => req[s].op = "purge"
    /\ pc[s] \in {"rm_object", "rm_row"} => req[s].obj \in rows /\ EntriesOf(req[s].obj) = {}

(* What a purge reads in ref_count it may believe only if that covers the    *)
(* entries (IInv); where nothing is purged, nothing hangs on the count.      *)
OInv ==
    /\ TypeOK /\ Shape /\ Marked /\ ("purge" \in Ops => IInv)
    /\ Keyed /\ OneRowPerHash /\ EntriesStored
    /\ \A s \in Sessions : Sharing(s)

(* The names and the entries are what the tables say. *)
LEMMA TablesOnly ==
    ASSUME UNCHANGED Tables
    PROVE  /\ Names' = Names
           /\ \A i : NameOf(i)' = NameOf(i) /\ EntriesOf(i)' = EntriesOf(i)
           /\ OneRowPerHash' <=> OneRowPerHash
           /\ EntriesStored' <=> EntriesStored
  BY DEF Tables, Names, NameOf, EntriesOf, OneRowPerHash, EntriesStored

(* A request that is over, or has just begun. *)
LEMMA RestShares ==
    ASSUME NEW s \in Sessions, ~ req'[s].fresh,
           \/ pc'[s] \in {"idle", "lookup", "copy_inc"}
           \/ pc'[s] = "purge_entry" /\ req'[s].op = "purge"
    PROVE  Sharing(s)'
  BY DEF Sharing, NewSteps, BytesSteps, PurgeSteps

(* Steps that read, or write what others do not see. *)
LEMMA ReadsShare ==
    ASSUME "new_conflict" \notin Faults, OInv, Orderly,
           NEW s \in Sessions, Step(s) \/ Abort(s), ~ Writes(s)
    PROVE  Sharing(s)'
<1> USE DEF Tables, At, Goto, Jump, Hold, Args, NewSteps, BytesSteps, PurgeSteps
<1>0. TypeOK /\ Sharing(s) /\ UNCHANGED Tables
  BY ReadsOnly DEF OInv
<1>1. ASSUME Return(s) PROVE Sharing(s)'
  BY <1>0, <1>1, RestShares DEF Return, NoArgs, TypeOK
<1>2. ASSUME NEW step, pc'[s] = step, req'[s] = req[s],
             step \notin {"undo_object", "undo_row", "rm_object", "rm_row"},
             step \in NewSteps => pc[s] \in NewSteps \/ (req[s].op = "complete" /\ PutName(s) \notin Names),
             step # "row",
             step \in BytesSteps /\ req[s].obj \in rows => NameOf(req[s].obj) \in store,
             req[s].fresh => step = "entry",
             step \in PurgeSteps => req[s].op = "purge"
      PROVE  Sharing(s)'
  BY <1>0, <1>2, TablesOnly DEF Sharing, PutName
<1>3. CASE LookupFound(s)
  BY <1>0, <1>3 DEF LookupFound, Sharing, TypeOK
<1>4. CASE LookupNone(s)
  <2>1. RowsWith(req[s].hash) = {}
    BY <1>4 DEF LookupNone, Known
  <2>2. PutName(s) \notin Names
    BY <2>1 DEF Names, NameOf, RowsWith, PutName
  <2>3. CASE Goto(s, "put") /\ req[s].op = "complete"
    <3>1. pc'[s] = "put" /\ req'[s] = req[s] /\ pc[s] = "lookup"
      BY <1>0, <1>4, <2>3 DEF LookupNone, TypeOK
    <3> QED BY <1>0, <1>2, <2>2, <2>3, <3>1 DEF Sharing
  <2> QED BY <1>1, <1>4, <2>3 DEF LookupNone
<1>5. CASE Fill(s) \/ SizeMismatch(s) \/ CacheNewObject(s) \/ RepairRow(s) \/ IncreaseRefCount(s)
           \/ CreateFilesObjectFails(s) \/ DecreaseRead(s) \/ Available(s)
  <2>1. CASE Fill(s)
    BY <1>0, <1>2, <2>1 DEF Fill, Sharing, TypeOK
  <2>2. CASE SizeMismatch(s)
    BY <1>1, <2>2 DEF SizeMismatch
  <2>3. CASE CacheNewObject(s)
    BY <1>0, <1>2, <2>3 DEF CacheNewObject, Sharing, TypeOK
  <2>4. CASE RepairRow(s)
    BY <1>0, <1>2, <2>4 DEF RepairRow, Sharing, TypeOK
  <2>5. CASE IncreaseRefCount(s)
    BY <1>0, <1>2, <2>5 DEF IncreaseRefCount, Sharing, TypeOK
  <2>6. CASE CreateFilesObjectFails(s)
    BY <1>0, <1>2, <2>6 DEF CreateFilesObjectFails, Sharing, TypeOK
  <2>7. CASE DecreaseRead(s)
    BY <1>0, <1>2, <2>7 DEF DecreaseRead, Sharing, TypeOK
  <2>8. CASE Available(s)
    BY <1>0, <1>2, <2>8 DEF Available, Sharing, TypeOK
  <2> QED BY <1>5, <2>1, <2>2, <2>3, <2>4, <2>5, <2>6, <2>7, <2>8
<1>6. CASE NotAvailable(s)
  <2>1. CASE Goto(s, "repair_put")
    BY <1>0, <1>2, <1>6, <2>1 DEF NotAvailable, Sharing, TypeOK
  <2> QED BY <1>1, <1>6, <2>1 DEF NotAvailable
<1>7. CASE CreateEntryFails(s)
  <2>1. pc[s] = "entry" /\ ~ req[s].fresh
    BY <1>0, <1>7 DEF CreateEntryFails, InsertRefused, Sharing
  <2>2. pc'[s] = "dec" /\ req'[s] = req[s]
    BY <1>0, <1>7, <2>1 DEF CreateEntryFails, TypeOK
  <2> QED BY <1>2, <2>1, <2>2
<1>8. CASE CopyEntryFails(s) \/ CopyIncrease(s) \/ DecreaseWrite(s) \/ RemoveCache(s) \/ Abort(s)
  BY <1>1, <1>8 DEF CopyEntryFails, CopyIncrease, DecreaseWrite, RemoveCache, Abort
<1>9. CASE RemoveRead(s)
  <2>1. CASE Goto(s, "dec")
    BY <1>0, <1>2, <1>9, <2>1 DEF RemoveRead, Sharing, TypeOK
  <2> QED BY <1>1, <1>9, <2>1 DEF RemoveRead
<1>10. CASE DecreaseLast(s)
  <2>1. CASE Goto(s, "rm_object")
    <3>1. pc'[s] = "rm_object" /\ req'[s] = req[s] /\ pc[s] = "dec"
      BY <1>0, <1>10, <2>1 DEF DecreaseLast, TypeOK
    <3>2. PurgesApart
      BY DEF Orderly, PurgesApart
    <3>6. req[s].op = "purge" /\ "purge" \in Ops
      BY <1>0, <1>10, <2>1, <3>1, NullAssumption DEF DecreaseLast, Return, TypeOK, OpNames
    <3>3. req[s].op = "purge" /\ req[s].obj \in rows /\ EntriesOf(req[s].obj) = {}
      BY <1>10, <3>1, <3>2, <3>6, LastReference DEF OInv
    <3>4. ~ req[s].fresh
      BY <1>0, <3>1 DEF Sharing
    <3>5. EntriesOf(req[s].obj)' = {} /\ req[s].obj \in rows'
      BY <1>0, <3>1, <3>3, TablesOnly
    <3> QED BY <3>1, <3>3, <3>4, <3>5 DEF Sharing
  <2> QED BY <1>1, <1>10, <2>1 DEF DecreaseLast
<1> QED
  BY <1>3, <1>4, <1>5, <1>6, <1>7, <1>8, <1>9, <1>10 DEF Step, Writes

(* Each write keeps one row for a hash and leaves every entry its bytes.  The *)
(* put of a refused row is not a row's object: rows of that name are made by  *)
(* merges of the same user.                                                   *)
LEMMA WritesShare ==
    ASSUME OInv, NEW s \in Sessions, Writes(s)
    PROVE  OneRowPerHash' /\ EntriesStored' /\ Sharing(s)'
<1> USE DEF objectVars, fileVars, cacheVars, At, Goto, Jump, Hold, Args, BytesSteps, NewSteps, PurgeSteps
<1>0. TypeOK /\ Shape /\ OneRowPerHash /\ EntriesStored /\ Sharing(s)
  BY DEF OInv
<1>1. ASSUME Return(s) PROVE Sharing(s)'
  BY <1>0, <1>1, RestShares DEF Return, NoArgs, TypeOK
<1>2. ASSUME UNCHANGED <<object, rows>> PROVE OneRowPerHash' /\ Names' = Names
  BY <1>0, <1>2 DEF OneRowPerHash, Names, NameOf
<1>3. ASSUME UNCHANGED <<object, entries, file>>, store \subseteq store' PROVE EntriesStored'
  BY <1>0, <1>3 DEF EntriesStored, NameOf
<1>4. \A e \in entries : file[e].object \in rows /\ NameOf(file[e].object) \in store \cap Names
  BY <1>0 DEF Shape, EntriesStored, Names
<1>5. CASE RepairPut(s)
  <2>1. /\ UNCHANGED <<object, rows, entries, file>> /\ store \subseteq store' /\ pc[s] = "repair_put"
        /\ pc'[s] = "repair_row" /\ req'[s] = req[s] /\ NameOf(req[s].obj) \in store'
    BY <1>0, <1>5 DEF RepairPut, TypeOK
  <2>2. Sharing(s)'
    BY <1>0, <2>1 DEF Sharing, NameOf
  <2> QED BY <1>2, <1>3, <2>1, <2>2
<1>6. CASE PutObject(s)
  <2>1. /\ UNCHANGED <<object, rows, entries, file>> /\ store \subseteq store' /\ pc[s] = "put"
        /\ pc'[s] = "row" /\ req'[s] = req[s] /\ PutName(s) \in store'
    BY <1>0, <1>6 DEF PutObject, PutName, TypeOK
  <2>2. Sharing(s)'
    BY <1>0, <1>2, <2>1 DEF Sharing, PutName
  <2> QED BY <1>2, <1>3, <2>1, <2>2
<1>7. CASE UndoPut(s)
  <2>1. Return(s) /\ UNCHANGED <<object, rows, entries, file>> /\ pc[s] = "put_undo"
    BY <1>7 DEF UndoPut
  <2>2. store \ {PutName(s)} \subseteq store'
    BY <1>7 DEF UndoPut, Discard, PutName
  <2>3. PutName(s) \notin Names
    BY <1>0, <2>1 DEF Sharing
  <2>4. EntriesStored'
    BY <1>4, <2>1, <2>2, <2>3 DEF EntriesStored, NameOf
  <2> QED BY <1>1, <1>2, <2>1, <2>4
<1>8. CASE UndoObject(s) \/ UndoRow(s)
  BY <1>0, <1>8 DEF UndoObject, UndoRow, Sharing
<1>9. CASE DeleteMinioFile(s)
  <2>1. req[s].obj \in rows /\ EntriesOf(req[s].obj) = {} /\ pc[s] = "rm_object" /\ req[s].op = "purge"
    BY <1>0, <1>9 DEF DeleteMinioFile, Sharing
  <2>2. /\ UNCHANGED <<object, rows, entries, file>> /\ store' = store \ {NameOf(req[s].obj)}
        /\ pc'[s] = "rm_row" /\ req'[s] = req[s]
    BY <1>0, <1>9 DEF DeleteMinioFile, TypeOK
  <2>3. \A e \in entries : NameOf(file[e].object) # NameOf(req[s].obj)
    BY <1>0, <1>4, <2>1 DEF OneRowPerHash, NameOf, EntriesOf
  <2>4. EntriesStored'
    BY <1>4, <2>2, <2>3 DEF EntriesStored, NameOf
  <2>5. Sharing(s)'
    BY <1>0, <2>1, <2>2 DEF Sharing, EntriesOf
  <2> QED BY <1>2, <2>2, <2>4, <2>5
<1>10. CASE CreateFilesObject(s)
  <2>1. PICK id \in Fresh(object) :
          /\ object' = [object EXCEPT ![id] = [hash |-> req[s].hash, owner |-> UserOf[s]]]
          /\ rows' = rows \cup {id}
          /\ Hold(s, id, TRUE)
    BY <1>10 DEF CreateFilesObject
  <2>2. id \in ObjectIds /\ object[id] = Null /\ id \notin rows
    BY <1>0, <2>1 DEF Fresh, TypeOK
  <2>3. \A i \in rows : object'[i] = object[i] /\ object[i].hash # req[s].hash
    BY <1>0, <1>10, <2>1, <2>2 DEF CreateFilesObject, RowsWith, TypeOK
  <2>4. object'[id] = [hash |-> req[s].hash, owner |-> UserOf[s]]
    BY <1>0, <2>1, <2>2 DEF TypeOK
  <2>5. OneRowPerHash'
    BY <1>0, <2>1, <2>3, <2>4 DEF OneRowPerHash
  <2>6. UNCHANGED <<entries, file, store>> /\ pc[s] = "row" /\ pc'[s] = "row_cache"
    BY <1>0, <1>10 DEF CreateFilesObject, TypeOK
  <2>7. EntriesStored'
    BY <1>4, <2>3, <2>6 DEF EntriesStored, NameOf
  <2>8. req'[s].obj = id /\ req'[s].op = req[s].op
    BY <1>0, <2>1 DEF TypeOK
  <2>9. NameOf(id)' \in store'
    BY <1>0, <2>4, <2>6 DEF Sharing, NameOf, PutName
  <2>10. NameOf(req[s].obj)' \in store' /\ req'[s].obj \in rows'
    BY <2>1, <2>8, <2>9 DEF NameOf
  <2> QED BY <2>5, <2>6, <2>7, <2>10 DEF Sharing
<1>11. CASE RemoveRow(s)
  <2>1. UNCHANGED <<object, entries, file, store>> /\ rows' \subseteq rows /\ pc[s] = "rm_row" /\ req[s].op = "purge"
    BY <1>0, <1>11 DEF RemoveRow, DeleteRow, Sharing
  <2>2. OneRowPerHash' /\ EntriesStored'
    BY <1>0, <1>3, <2>1 DEF OneRowPerHash
  <2>3. CASE Goto(s, "rm_cache")
    <3>1. pc'[s] = "rm_cache" /\ req'[s] = req[s]
      BY <1>0, <2>3 DEF TypeOK
    <3> QED BY <1>0, <2>1, <2>2, <3>1 DEF Sharing
  <2> QED BY <1>1, <1>11, <2>2, <2>3 DEF RemoveRow
<1>12. CASE CreateEntry(s) \/ CopyEntry(s)
  <2> DEFINE o == req[s].obj
  <2>1. InsertFile(s, o) /\ o \in rows /\ UNCHANGED <<object, rows, store>> /\ pc[s] \in BytesSteps
    BY <1>12 DEF CreateEntry, CopyEntry, InsertFile
  <2>2. PICK e \in Fresh(file) :
          /\ file' = [file EXCEPT ![e] = [user |-> UserOf[s], object |-> o]]
          /\ entries' = entries \cup {e}
    BY <2>1 DEF InsertFile
  <2>3. e \in FileIds /\ e \notin entries
    BY <1>0, <2>2 DEF Fresh, TypeOK
  <2>4. file'[e].object = o /\ \A f \in entries : file'[f] = file[f]
    BY <1>0, <2>2, <2>3 DEF TypeOK
  <2>5. NameOf(o) \in store
    BY <1>0, <2>1 DEF Sharing
  <2>6. EntriesStored'
    BY <1>0, <2>1, <2>2, <2>4, <2>5 DEF EntriesStored, NameOf
  <2>7. CASE CreateEntry(s)
    BY <1>1, <1>2, <2>1, <2>6, <2>7 DEF CreateEntry
  <2>8. CASE CopyEntry(s)
    <3>1. ~ req[s].fresh /\ UNCHANGED req /\ pc'[s] = "copy_inc"
      BY <1>0, <2>8 DEF CopyEntry, Sharing, TypeOK
    <3> QED BY <1>2, <2>1, <2>6, <3>1, RestShares
  <2> QED BY <1>12, <2>7, <2>8
<1>13. CASE PurgeEntry(s)
  <2>1. entries' \subseteq entries /\ UNCHANGED <<object, rows, file, store>>
    BY <1>13 DEF PurgeEntry
  <2>2. EntriesStored'
    BY <1>0, <2>1 DEF EntriesStored, NameOf
  <2>3. pc[s] = "purge_entry" /\ pc'[s] = "rm_read" /\ req'[s] = req[s]
    BY <1>0, <1>13 DEF PurgeEntry, TypeOK
  <2>4. Sharing(s)'
    BY <1>0, <2>3 DEF Sharing
  <2> QED BY <1>2, <2>1, <2>2, <2>4
<1> QED
  BY <1>5, <1>6, <1>7, <1>8, <1>9, <1>10, <1>11, <1>12, <1>13 DEF Writes

(* Only a purge takes rows and entries away; a merge makes a row, or takes    *)
(* bytes back, of the name of its put.                                        *)
LEMMA Grows ==
    ASSUME OInv, NEW s \in Sessions, Step(s) \/ Abort(s), req[s].op # "purge"
    PROVE  /\ rows \subseteq rows' /\ \A i \in ObjectIds : object[i] # Null => object'[i] = object[i]
           /\ \A i \in rows' : object[i] # Null => i \in rows
           /\ entries \subseteq entries' /\ \A e \in entries : file'[e] = file[e]
           /\ \A i : i # req[s].obj => EntriesOf(i)' = EntriesOf(i)
           /\ \/ Names' = Names /\ store \subseteq store'
              \/ /\ pc[s] \in NewSteps
                 /\ Names' \subseteq Names \cup {PutName(s)} /\ store \ {PutName(s)} \subseteq store'
<1> USE DEF objectVars, fileVars, cacheVars, At
<1>0. TypeOK /\ Sharing(s)
  BY DEF OInv
<1>1. \A i \in ObjectIds : object[i] # Null => object'[i] = object[i]
  BY <1>0, InsertedStay
<1>2. CASE ~ Writes(s)
  <2>1. UNCHANGED Tables
    BY <1>2, ReadsOnly
  <2> QED BY <2>1, TablesOnly DEF Tables
<1>3. CASE RepairPut(s) \/ PutObject(s)
  <2>1. UNCHANGED <<object, rows, entries, file>> /\ store \subseteq store'
    BY <1>3 DEF RepairPut, PutObject
  <2> QED BY <2>1 DEF EntriesOf, Names, NameOf
<1>4. CASE UndoPut(s)
  <2>1. UNCHANGED <<object, rows, entries, file>> /\ pc[s] = "put_undo" /\ store \ {PutName(s)} \subseteq store'
    BY <1>4 DEF UndoPut, Discard, PutName
  <2> QED BY <2>1 DEF EntriesOf, Names, NameOf, NewSteps
<1>5. CASE CreateFilesObject(s)
  <2>1. PICK id \in Fresh(object) :
          /\ object' = [object EXCEPT ![id] = [hash |-> req[s].hash, owner |-> UserOf[s]]]
          /\ rows' = rows \cup {id}
    BY <1>5 DEF CreateFilesObject
  <2>2. UNCHANGED <<entries, file, store>> /\ pc[s] = "row"
    BY <1>5 DEF CreateFilesObject
  <2>3. \A i \in rows : object'[i] = object[i]
    BY <1>0, <1>1 DEF TypeOK
  <2>6. object[id] = Null
    BY <2>1 DEF Fresh
  <2>4. object'[id].hash = req[s].hash /\ object'[id].owner = UserOf[s]
    BY <1>0, <2>1 DEF Fresh, TypeOK
  <2>5. Names' \subseteq Names \cup {PutName(s)}
    BY <2>1, <2>3, <2>4 DEF Names, NameOf, PutName
  <2> QED BY <1>1, <2>1, <2>2, <2>5, <2>6 DEF EntriesOf, NewSteps
<1>6. CASE CreateEntry(s) \/ CopyEntry(s)
  <2>1. InsertFile(s, req[s].obj) /\ UNCHANGED <<object, rows, store>>
    BY <1>6 DEF CreateEntry, CopyEntry
  <2>2. PICK e \in Fresh(file) :
          /\ file' = [file EXCEPT ![e] = [user |-> UserOf[s], object |-> req[s].obj]]
          /\ entries' = entries \cup {e}
    BY <2>1 DEF InsertFile
  <2>3. e \notin entries /\ file'[e].object = req[s].obj /\ \A f \in entries : file'[f] = file[f]
    BY <1>0, <2>2 DEF Fresh, TypeOK
  <2> QED BY <2>1, <2>2, <2>3 DEF EntriesOf, Names, NameOf
<1>7. ~ (UndoObject(s) \/ UndoRow(s) \/ PurgeEntry(s) \/ DeleteMinioFile(s) \/ RemoveRow(s))
  BY <1>0 DEF Sharing, PurgeSteps, UndoObject, UndoRow, PurgeEntry, DeleteMinioFile, RemoveRow
<1> QED BY <1>2, <1>3, <1>4, <1>5, <1>6, <1>7 DEF Writes

(* The requests that stand still are idle, work on other contents, or share  *)
(* theirs with a request that takes nothing of it away.                      *)
LEMMA OthersShare ==
    ASSUME OInv, Orderly, NEW s \in Sessions, Step(s) \/ Abort(s), pc[s] # "idle",
           NEW t \in Sessions, t # s
    PROVE  Sharing(t)'
<1> DEFINE h == ContentOf(t)
           o == req[t].obj
<1> USE DEF NewSteps, BytesSteps, PurgeSteps
<1>0. TypeOK /\ Shape /\ Keyed /\ Marked /\ Sharing(t) /\ Sharing(s)
  BY DEF OInv
<1>1. pc'[t] = pc[t] /\ req'[t] = req[t]
  BY <1>0, StepIsLocal DEF OthersKeep
<1>2. /\ pc[t] \in HashSteps => h = req[t].hash
      /\ pc[t] \in ObjectSteps => h = object[o].hash /\ o \in ObjectIds /\ object[o] # Null
  BY <1>0, ContentKnown DEF Shape
<1>3. CASE pc[t] = "idle"
  <2>1. ~ req[t].fresh
    BY <1>0, <1>3 DEF Sharing
  <2> QED BY <1>1, <1>3, <2>1, RestShares
<1> SUFFICES ASSUME pc[t] # "idle"
             PROVE  /\ pc[t] \in NewSteps => PutName(t) \notin Names'
                    /\ pc[t] = "row" => PutName(t) \in store'
                    /\ pc[t] \in BytesSteps /\ o \in rows' => NameOf(o)' \in store'
                    /\ req[t].fresh => o \in rows'
                    /\ pc[t] \in {"rm_object", "rm_row"} => o \in rows' /\ EntriesOf(o)' = {}
  <2>1. PutName(t)' = PutName(t) /\ NameOf(req[t].obj)' = NameOf(o)' /\ EntriesOf(req[t].obj)' = EntriesOf(o)'
    BY <1>1 DEF PutName, NameOf, EntriesOf
  <2> QED BY <1>0, <1>1, <1>3, <2>1 DEF Sharing
<1>4. CASE h # ContentOf(s)
  <2>1. Untouched(h)
    BY <1>0, <1>4, Footprint
  <2>2. pc[t] \in ObjectSteps => NameOf(o)' = NameOf(o) /\ EntriesOf(o)' = EntriesOf(o) /\ object'[o] = object[o]
    BY <1>1, <1>2, <2>1 DEF Untouched, NameOf
  <2>3. pc[t] \in ObjectSteps => (o \in rows' <=> o \in rows)
    BY <1>2, <2>1, <2>2 DEF Untouched
  <2>4. ASSUME pc[t] \in NewSteps PROVE PutName(t) \notin Names'
    <3>1. h = req[t].hash
      BY <1>2, <2>4 DEF HashSteps
    <3>2. ASSUME NEW i \in rows', NameOf(i)' = PutName(t) PROVE FALSE
      <4>1. object'[i].hash = h
        BY <3>1, <3>2 DEF NameOf, PutName
      <4>2. i \in rows /\ i \in ObjectIds /\ object[i] # Null
        BY <1>0, <2>1, <4>1 DEF Untouched, TypeOK
      <4>3. object'[i] = object[i]
        BY <2>1, <4>2 DEF Untouched
      <4> QED BY <1>0, <2>4, <3>2, <4>2, <4>3 DEF Sharing, Names, NameOf
    <3> QED BY <3>2 DEF Names
  <2>5. pc[t] = "row" => PutName(t) \in store'
    BY <1>0, <1>2, <2>1 DEF Sharing, Untouched, PutName, HashSteps
  <2>6. pc[t] \in BytesSteps /\ o \in rows' => NameOf(o)' \in store'
    BY <1>0, <1>2, <2>1, <2>2, <2>3 DEF Sharing, Untouched, NameOf, ObjectSteps
  <2> QED BY <1>0, <2>2, <2>3, <2>4, <2>5, <2>6 DEF Sharing, ObjectSteps
<1>5. CASE h = ContentOf(s)
  <2>1. /\ req[s].op # "purge" /\ req[t].op # "purge"
        /\ ~ (req[s].op = "complete" /\ req[t].op = "complete" /\ UserOf[s] = UserOf[t])
    BY <1>5 DEF Orderly, At
  <2>2. pc[s] \in NewSteps /\ pc[t] \in NewSteps => PutName(t) # PutName(s)
    BY <1>0, <2>1 DEF Sharing, PutName
  <2>3. /\ rows \subseteq rows' /\ \A i \in ObjectIds : object[i] # Null => object'[i] = object[i]
        /\ \A i \in rows' : object[i] # Null => i \in rows
        /\ \/ Names' = Names /\ store \subseteq store'
           \/ /\ pc[s] \in NewSteps
              /\ Names' \subseteq Names \cup {PutName(s)} /\ store \ {PutName(s)} \subseteq store'
    BY <2>1, Grows
  <2>4. pc[s] \in NewSteps => PutName(s) \notin Names
    BY <1>0 DEF Sharing
  <2>5. pc[t] \in NewSteps => PutName(t) \notin Names'
    BY <1>0, <2>2, <2>3 DEF Sharing
  <2>6. pc[t] = "row" => PutName(t) \in store'
    BY <1>0, <2>2, <2>3 DEF Sharing
  <2>7. ASSUME pc[t] \in BytesSteps, o \in rows' PROVE NameOf(o)' \in store'
    <3>1. o \in ObjectIds /\ object[o] # Null
      BY <1>2, <2>7 DEF ObjectSteps
    <3>2. o \in rows /\ NameOf(o)' = NameOf(o)
      BY <1>1, <2>3, <2>7, <3>1 DEF NameOf
    <3>3. NameOf(o) \in store \cap Names
      BY <1>0, <2>7, <3>2 DEF Sharing, Names
    <3> QED BY <2>3, <2>4, <3>2, <3>3
  <2> QED BY <1>0, <2>1, <2>3, <2>5, <2>6, <2>7 DEF Sharing
<1> QED BY <1>4, <1>5

(* A request that begins, a move to or from the recycle bin, a lock that     *)
(* runs out.                                                                 *)
LEMMA RequestShares ==
    ASSUME OInv, NEW s \in Sessions, Request(s) \/ LeaseExpires(s)
    PROVE  UNCHANGED Tables /\ \A t \in Sessions : Sharing(t)'
<1> USE DEF objectVars, fileVars, Args, BytesSteps, NewSteps, PurgeSteps
<1>0. TypeOK /\ Shape /\ EntriesStored /\ \A t \in Sessions : Sharing(t)
  BY DEF OInv
<1>1. UNCHANGED Tables
  BY DEF Tables, Request, FastUpload, MultipartComplete, CopyFile, DeleteFileRecord,
     MoveToRecycle,
     RestoreFile, LeaseExpires
<1>2. ASSUME NEW t \in Sessions, pc'[t] = pc[t], req'[t] = req[t] PROVE Sharing(t)'
  <2>1. PutName(t)' = PutName(t) /\ NameOf(req[t].obj)' = NameOf(req[t].obj) /\ EntriesOf(req[t].obj)' = EntriesOf(req[t].obj)
    BY <1>1, <1>2 DEF Tables, PutName, NameOf, EntriesOf
  <2> QED BY <1>0, <1>1, <1>2, <2>1, TablesOnly DEF Sharing, Tables
<1> SUFFICES \A t \in Sessions : Sharing(t)'
  BY <1>1
<1>3. CASE MoveToRecycle(s) \/ RestoreFile(s) \/ LeaseExpires(s)
  BY <1>2, <1>3 DEF MoveToRecycle, RestoreFile, LeaseExpires
<1>4. ASSUME FastUpload(s) \/ MultipartComplete(s) \/ CopyFile(s) \/ DeleteFileRecord(s)
      PROVE  Sharing(s)'
  <2>1. CASE FastUpload(s) \/ MultipartComplete(s)
    <3>1. \E h : Begin(s, "lookup", Args("fast", h, Null, Null, FALSE)) \/ Begin(s, "lookup", Args("complete", h, Null, Null, FALSE))
      BY <2>1 DEF FastUpload, MultipartComplete
    <3>2. pc'[s] = "lookup" /\ ~ req'[s].fresh
      BY <1>0, <3>1 DEF Begin, Jump, TypeOK
    <3> QED BY <3>2, RestShares
  <2>2. CASE CopyFile(s)
    <3>1. PICK e \in entries : Begin(s, "copy_entry", Args("copy", Null, file[e].object, Null, FALSE))
      BY <2>2 DEF CopyFile
    <3>2. pc'[s] = "copy_entry" /\ ~ req'[s].fresh /\ req'[s].obj = file[e].object
      BY <1>0, <3>1 DEF Begin, Jump, TypeOK
    <3>3. NameOf(file[e].object)' \in store'
      BY <1>0, <1>1 DEF EntriesStored, Tables, NameOf
    <3>4. NameOf(req[s].obj)' \in store'
      BY <1>1, <3>2, <3>3 DEF NameOf, Tables
    <3> QED BY <3>2, <3>4 DEF Sharing
  <2>3. CASE DeleteFileRecord(s)
    <3>1. pc'[s] = "purge_entry" /\ req'[s].op = "purge" /\ ~ req'[s].fresh
      BY <1>0, <2>3 DEF DeleteFileRecord, Begin, Jump, TypeOK
    <3> QED BY <3>1, RestShares
  <2> QED BY <1>4, <2>1, <2>2, <2>3
<1>5. \A t \in Sessions \ {s} : pc'[t] = pc[t] /\ req'[t] = req[t]
  BY <1>0, StepIsLocal DEF OthersKeep
<1> QED BY <1>2, <1>3, <1>4, <1>5 DEF Request

(* The invariant of orderly requests is inductive. *)
LEMMA OInvStep ==
    ASSUME "purge" \in Ops => CopiesComplete, "new_conflict" \notin Faults, OInv, Orderly, [Next]_vars
    PROVE  OInv'
<1>0. TypeOK /\ Shape /\ Marked /\ Keyed
  BY DEF OInv
<1>1. TypeOK' /\ Shape' /\ Marked' /\ Keyed' /\ ("purge" \in Ops => IInv')
  <2>1. PurgesDistinct
    BY <1>0, ApartDistinct DEF Orderly, PurgesApart
  <2>2. TypeOK' /\ Shape' /\ Marked' /\ Keyed'
    BY <1>0, <2>1, TypeStep, MarkedStep, KeyedStep
  <2> QED BY <2>1, <2>2, IInvStep DEF OInv
<1>2. ASSUME UNCHANGED Tables PROVE OneRowPerHash' /\ EntriesStored'
  BY <1>2, TablesOnly DEF OInv
<1>3. CASE \E s \in Sessions : Step(s) \/ Abort(s)
  <2>1. PICK s \in Sessions : Step(s) \/ Abort(s)
    BY <1>3
  <2>2. \A t \in Sessions : t # s => Sharing(t)'
    BY <2>1, OthersShare, StepBusy
  <2>3. OneRowPerHash' /\ EntriesStored' /\ Sharing(s)'
    BY <1>2, <2>1, ReadsOnly, ReadsShare, WritesShare
  <2> QED BY <1>1, <2>2, <2>3 DEF OInv
<1>4. CASE \E s \in Sessions : Request(s) \/ LeaseExpires(s)
  BY <1>1, <1>2, <1>4, RequestShares DEF OInv
<1>5. CASE CacheExpires \/ UNCHANGED vars
  <2>1. UNCHANGED Tables /\ UNCHANGED <<pc, req>>
    BY <1>5 DEF CacheExpires, vars, objectVars, fileVars, Tables
  <2>2. \A t \in Sessions : Sharing(t)'
    BY <2>1, TablesOnly DEF OInv, Sharing, PutName, Tables, NameOf, EntriesOf, Names
  <2> QED BY <1>1, <1>2, <2>1, <2>2 DEF OInv
<1> QED BY <1>3, <1>4, <1>5 DEF Next

(* Nothing is shared at first. *)
LEMMA OInvInit ==
    ASSUME Init
    PROVE  OInv
<1>1. SInv
  BY SInvInit
<1>2. \A s \in Sessions : pc[s] = "idle" /\ ~ req[s].fresh
  BY DEF Init, NoArgs, Args
<1> QED
  BY <1>1, <1>2 DEF SInv, IInv, OInv, Sharing, NewSteps, BytesSteps, PurgeSteps

(* Nothing overlaps at first. *)
LEMMA StaysOrderly == OrderlySpec => []Orderly
<1>1. Init => Orderly
  BY DEF Init, Orderly, At
<1>2. Orderly /\ [Next /\ Orderly']_vars => Orderly'
  BY DEF vars, objectVars, Orderly, ContentOf, At
<1> QED BY <1>1, <1>2, PTL DEF OrderlySpec

(* Two merges of one user and one hash exclude each other, and a merge holds *)
(* the lock until it ends.                                                   *)
LockHeld ==
    /\ \A s, t \in lease : UserOf[s] = UserOf[t] /\ req[s].hash = req[t].hash => s = t
    /\ \A s \in lease : pc[s] # "idle"
    /\ \A s \in Sessions : req[s].op = "complete" => s \in lease /\ req[s].hash # Null

(* A request lets go of its own lock only, and only when it ends. *)
LEMMA LockStep ==
    ASSUME "lease" \notin Faults, TypeOK, LockHeld, [Next]_vars
    PROVE  LockHeld'
<1> USE ConstantsAssumption, NullAssumption DEF At, Jump, Goto, Hold, Args, NoArgs
<1>0. lease \subseteq Sessions
  BY DEF TypeOK
<1>1. ASSUME NEW s \in Sessions, Step(s) \/ Abort(s) PROVE LockHeld'
  <2>1. OthersKeep(s)
    BY <1>1, StepIsLocal
  <2>2. \/ lease' = lease \ {s} /\ req'[s].op = Null
        \/ /\ lease' = lease /\ pc'[s] # "idle"
           /\ req'[s].hash = req[s].hash /\ req'[s].op = req[s].op
    BY <1>1 DEF Step, Return, LookupFound, LookupNone, Fill, SizeMismatch, Available,
       NotAvailable,
       RepairPut, RepairRow, IncreaseRefCount, CreateEntry, CreateEntryFails, PutObject,
       CreateFilesObject, CreateFilesObjectFails, CacheNewObject, UndoPut, UndoObject, UndoRow,
       CopyEntry, CopyEntryFails, CopyIncrease, PurgeEntry, RemoveRead, DecreaseRead,
       DecreaseLast, DecreaseWrite, DeleteMinioFile, RemoveRow, RemoveCache, Abort, TypeOK
  <2> QED BY <1>0, <2>1, <2>2 DEF LockHeld, OthersKeep, OpNames
<1>2. ASSUME NEW s \in Sessions, NEW step, NEW args, Begin(s, step, args), step # "idle",
             args.op # "complete", UNCHANGED lease
      PROVE  LockHeld'
  <2>1. s \notin lease /\ pc' = [pc EXCEPT ![s] = step] /\ req' = [req EXCEPT ![s] = args]
    BY <1>2 DEF Begin, LockHeld
  <2> QED BY <1>0, <1>2, <2>1 DEF LockHeld, TypeOK
<1>3. ASSUME NEW s \in Sessions, FastUpload(s) \/ CopyFile(s) \/ DeleteFileRecord(s)
      PROVE  LockHeld'
  <2>1. CASE FastUpload(s)
    BY <1>2, <2>1 DEF FastUpload
  <2>2. CASE CopyFile(s)
    BY <1>2, <2>2 DEF CopyFile
  <2>3. CASE DeleteFileRecord(s)
    BY <1>2, <2>3 DEF DeleteFileRecord
  <2> QED BY <1>3, <2>1, <2>2, <2>3
<1>4. ASSUME NEW s \in Sessions, MultipartComplete(s) PROVE LockHeld'
  <2>1. PICK h \in Hashes :
          /\ ~ \E t \in lease : UserOf[t] = UserOf[s] /\ req[t].hash = h
          /\ pc' = [pc EXCEPT ![s] = "lookup"]
          /\ req' = [req EXCEPT ![s] = Args("complete", h, Null, Null, FALSE)]
          /\ lease' = lease \cup {s}
    BY <1>4 DEF MultipartComplete, Begin
  <2>2. s \notin lease
    BY <1>4 DEF MultipartComplete, Begin, LockHeld
  <2>3. /\ pc'[s] = "lookup" /\ req'[s].hash = h /\ h # Null
        /\ \A t \in Sessions \ {s} : pc'[t] = pc[t] /\ req'[t] = req[t]
    BY <2>1 DEF TypeOK
  <2> QED BY <1>0, <2>1, <2>2, <2>3 DEF LockHeld
<1>5. ASSUME NEW s \in Sessions, MoveToRecycle(s) \/ RestoreFile(s) PROVE LockHeld'
  BY <1>5 DEF MoveToRecycle, RestoreFile, LockHeld
<1>6. ASSUME NEW s \in Sessions PROVE ~ LeaseExpires(s)
  BY DEF LeaseExpires
<1>7. CASE CacheExpires \/ UNCHANGED vars
  BY <1>7 DEF CacheExpires, vars, LockHeld
<1> QED BY <1>1, <1>3, <1>4, <1>5, <1>6, <1>7 DEF Next, Request

(* At first no lock is held and nothing is merged. *)
LEMMA LockInit == Init => TypeOK /\ Shape /\ LockHeld
<1>1. Init => TypeOK /\ Shape
  BY SInvInit DEF SInv, IInv
<1>2. Init => LockHeld
  BY NullAssumption DEF Init, LockHeld, NoArgs, Args, OpNames
<1> QED BY <1>1, <1>2

(* Two merges a user has asked for of one content are never under way at     *)
(* once: whoever comes second does not get lock:merge (handler/minio.go).    *)
MergesExclude ==
    \A s, t \in Sessions :
        req[s].op = "complete" /\ req[t].op = "complete"
            /\ UserOf[s] = UserOf[t] /\ req[s].hash = req[t].hash => s = t

(* As long as no lease runs out, the merge lock does what it is for, however *)
(* requests overlap, break off or fail.                                      *)
THEOREM MergeLockExcludes ==
    "lease" \notin Faults => (Spec => []MergesExclude)
<1> SUFFICES ASSUME "lease" \notin Faults PROVE Spec => []MergesExclude
  OBVIOUS
<1> DEFINE Inv == TypeOK /\ Shape /\ LockHeld
<1>1. Init => Inv
  BY LockInit
<1>2. Inv /\ [Next]_vars => Inv'
  BY TypeStep, LockStep
<1>3. Inv => MergesExclude
  BY DEF LockHeld, MergesExclude
<1> QED BY <1>1, <1>2, <1>3, PTL DEF Spec

(* While merge locks last, requests are orderly as soon as purges are alone  *)
(* with their content.                                                       *)
LEMMA LocksOrder ==
    ASSUME "lease" \notin Faults
    PROVE  PurgesApartSpec => OrderlySpec
<1> DEFINE Inv == TypeOK /\ Shape /\ LockHeld
<1>1. Init => Inv
  BY LockInit
<1>2. Inv /\ [Next /\ PurgesApart']_vars => Inv'
  BY TypeStep, LockStep
<1>3. Inv' /\ PurgesApart' => Orderly'
  BY DEF PurgesApart, Orderly, LockHeld, ContentOf, At
<1>4. Inv /\ [Next /\ PurgesApart']_vars => [Next /\ Orderly']_vars
  BY <1>2, <1>3
<1> QED BY <1>1, <1>2, <1>4, PTL DEF PurgesApartSpec, OrderlySpec

(* Requests that stay apart are orderly. *)
LEMMA ApartOrder == ApartSpec => OrderlySpec
<1>1. Apart' => Orderly'
  BY DEF Apart, Orderly
<1> QED BY <1>1, PTL DEF ApartSpec, OrderlySpec

(* Without purges nothing has to be apart. *)
LEMMA NoPurgesApart ==
    ASSUME "purge" \notin Ops
    PROVE  Spec => PurgesApartSpec
<1>1. Init => TypeOK /\ Shape
  BY SInvInit DEF SInv, IInv
<1>2. TypeOK /\ Shape /\ [Next]_vars => (TypeOK /\ Shape)'
  BY TypeStep
<1>3. TypeOK' => PurgesApart'
  BY NullAssumption DEF TypeOK, PurgesApart, OpNames
<1>4. TypeOK /\ Shape /\ [Next]_vars => [Next /\ PurgesApart']_vars
  BY <1>2, <1>3
<1> QED BY <1>1, <1>2, <1>4, PTL DEF Spec, PurgesApartSpec

(* Whatever they do, orderly requests keep that invariant. *)
LEMMA OrderlyKeeps ==
    ASSUME "purge" \in Ops => CopiesComplete, "new_conflict" \notin Faults
    PROVE  OrderlySpec => []OInv
<1>1. Init => OInv
  BY OInvInit
<1>2. OInv /\ Orderly /\ [Next /\ Orderly']_vars => OInv'
  BY OInvStep
<1> QED BY <1>1, <1>2, StaysOrderly, PTL DEF OrderlySpec

(* No merge lock runs out, and no entry is refused after a new row. *)
Locked == Faults \cap {"lease", "new_conflict"} = {}

(* Uploads and copies of one content may overlap and break off anywhere: as  *)
(* long as a purge is alone with its content, every entry has its bytes.  The *)
(* rollback of a refused row removes an object no row is named by, because   *)
(* rows of that name are made by the user's own merges of that hash, and     *)
(* lock:merge lets one of them run at a time.                                *)
THEOREM SharedEntriesStored ==
    Locked /\ ("purge" \in Ops => CopiesComplete) => (PurgesApartSpec => []EntriesStored)
<1> SUFFICES ASSUME Locked, "purge" \in Ops => CopiesComplete
             PROVE  PurgesApartSpec => []EntriesStored
  OBVIOUS
<1>1. PurgesApartSpec => []OInv
  BY LocksOrder, OrderlyKeeps DEF Locked
<1>2. OInv => EntriesStored
  BY DEF OInv
<1> QED BY <1>1, <1>2, PTL

(* Such requests implement Drive: what overlaps cannot be seen in it. *)
THEOREM SharedKeepsPromise ==
    Locked /\ OnePurgePerUser /\ CopiesComplete => (PurgesApartSpec => KeepsPromise)
<1> SUFFICES ASSUME Locked, OnePurgePerUser, CopiesComplete
             PROVE  PurgesApartSpec => KeepsPromise
  OBVIOUS
<1>1. PurgesApartSpec => []OInv
  BY LocksOrder, OrderlyKeeps DEF Locked
<1>2. Init => D!Init /\ Purging
  BY KeptInit
<1>3. OInv /\ Purging /\ [Next /\ PurgesApart']_vars => Purging'
  BY PurgingStep DEF OInv
<1>4. (OInv /\ Purging) /\ (OInv /\ Purging)' /\ [Next /\ PurgesApart']_vars => [D!Next]_DriveOf
  BY KeptDrives DEF OInv, Kept
<1> QED
  BY <1>1, <1>2, <1>3, <1>4, PTL DEF PurgesApartSpec, KeepsPromise, D!Spec

(* Uploads and copies alone need no such proviso: however they overlap, with *)
(* every fault but the two, every entry has its bytes.                       *)
THEOREM UploadsEntriesStored ==
    "purge" \notin Ops /\ Locked => (Spec => []EntriesStored)
  BY NoPurgesApart, SharedEntriesStored

-----------------------------------------------------------------------------
(* Counts, cache and bucket. *)

(* No fault but refused inserts, an entry's after a new row excepted, and    *)
(* locks that run out.                                                       *)
Calm == Faults \cap {"new_conflict", "minio", "abort", "copy_abort"} = {}

(* Requests whose reference is in ref_count and has no entry (yet or any more). *)
TakerSteps == {"row_cache", "entry", "dec", "dec_write", "rm_read", "rm_object", "rm_row"}
Takers(id) == {s \in Sessions : pc[s] \in TakerSteps /\ req[s].obj = id}

(* Who answers for an object without entries: the merge that inserted the    *)
(* row, the purge that took the last entry.                                  *)
Handles(s, id) ==
    /\ req[s].obj = id
    /\ req[s].fresh \/ (req[s].op = "purge" /\ pc[s] \in {"rm_read", "dec", "rm_object", "rm_row"})

(* ref_count is exact up to the requests under way.  Not every entry of an   *)
(* object is still to be counted, which is what makes a rollback's           *)
(* DecreaseRefCount find a count above 1.                                    *)
Ledger(id) ==
    /\ ref[id] + Cardinality(Debtors(id)) = Cardinality(EntriesOf(id)) + Cardinality(Takers(id))
    /\ Debtors(id) # {} => Cardinality(Debtors(id)) < Cardinality(EntriesOf(id))
    /\ EntriesOf(id) = {} => \E s \in Sessions : Handles(s, id)

(* What is in Redis is in the table, but for the keys a purge is about to drop. *)
CachedRows == \A i \in cached : i \in rows \/ \E s \in Sessions : pc[s] = "rm_cache" /\ req[s].obj = i

(* The bucket holds the rows' objects and what merges have put for a row. *)
Bucket ==
    /\ \A i \in rows : NameOf(i) \in store \/ \E s \in Sessions : pc[s] = "rm_row" /\ req[s].obj = i
    /\ \A n \in store : n \in Names \/ \E s \in Sessions : pc[s] \in {"row", "put_undo"} /\ n = PutName(s)

(* Calls that are made about a row. *)
RowSteps == {"fill", "avail", "inc", "entry", "row_cache", "dec", "dec_write", "rm_read"}

(* What a calm request finds: rows that exist, and no object to repair. *)
Calmly(s) ==
    /\ pc[s] \notin {"repair_put", "repair_row"}
    /\ pc[s] \in RowSteps => req[s].obj \in rows
    /\ pc[s] \in {"copy_entry", "copy_inc"} => EntriesOf(req[s].obj) # {}
    /\ pc[s] = "rm_row" => NameOf(req[s].obj) \notin store

(* The accounts of all contents at any time; at rest nothing is under way.   *)
CInv ==
    /\ OInv
    /\ \A id \in rows : Ledger(id)
    /\ CachedRows /\ Bucket
    /\ \A s \in Sessions : Calmly(s)

(* Nobody holds the object of a purge. *)
LEMMA AlonePurge ==
    ASSUME OInv, Orderly, NEW s \in Sessions, NEW t \in Sessions, req[t].op = "purge",
           pc[s] \in ObjectSteps, pc[t] \in ObjectSteps, req[s].obj = req[t].obj
    PROVE  s = t
<1>1. ContentOf(s) = ContentOf(t)
  BY ContentKnown DEF OInv
<1> QED BY <1>1 DEF Orderly, At, ObjectSteps

(* A step of s takes s only in or out of the takers. *)
LEMMA TakerCounts ==
    ASSUME TypeOK, NEW s \in Sessions, OthersKeep(s), NEW id
    PROVE  /\ IsFiniteSet(Takers(id)) /\ Cardinality(Takers(id)) \in Nat
           /\ Cardinality(Takers(id)') = Cardinality(Takers(id))
                + (IF s \in Takers(id)' THEN 1 ELSE 0) - (IF s \in Takers(id) THEN 1 ELSE 0)
<1>1. IsFiniteSet(Takers(id))
  <2>1. Takers(id) \subseteq Sessions
    BY DEF Takers
  <2> QED BY <2>1, ConstantsAssumption, FS_Subset
<1>2. Takers(id)' = IF s \in Takers(id)' THEN Takers(id) \cup {s} ELSE Takers(id) \ {s}
  BY DEF Takers, OthersKeep
<1> QED BY <1>1, <1>2, FlipCount, FS_CardinalityType

(* The account of an object that a step of s does not touch. *)
LEMMA SameLedger ==
    ASSUME NEW s \in Sessions, OthersKeep(s), NEW id, Ledger(id), ref'[id] = ref[id],
           EntriesOf(id)' = EntriesOf(id),
           s \in Takers(id)' <=> s \in Takers(id), s \in Debtors(id)' <=> s \in Debtors(id),
           EntriesOf(id) = {} /\ Handles(s, id) => Handles(s, id)'
    PROVE  Ledger(id)'
<1>1. Takers(id)' = Takers(id)
  BY DEF Takers, OthersKeep
<1>2. Debtors(id)' = Debtors(id)
  BY DEF Debtors, OthersKeep, At
<1>3. \A t \in Sessions \ {s} : Handles(t, id)' <=> Handles(t, id)
  BY DEF Handles, OthersKeep
<1> QED BY <1>1, <1>2, <1>3 DEF Ledger

(* Objects the request holds neither before nor after. *)
LEMMA OtherLedger ==
    ASSUME NEW s \in Sessions, OthersKeep(s), NEW id, Ledger(id), ref'[id] = ref[id],
           EntriesOf(id)' = EntriesOf(id), req[s].obj # id, req'[s].obj # id
    PROVE  Ledger(id)'
<1>1. /\ s \notin Takers(id) /\ s \notin Takers(id)' /\ s \notin Debtors(id) /\ s \notin Debtors(id)'
      /\ ~ Handles(s, id)
  BY DEF Takers, Debtors, Handles
<1> QED BY <1>1, SameLedger

(* The account of an object whose count, entries and takers move together. *)
LEMMA MovedLedger ==
    ASSUME TypeOK, NEW s \in Sessions, OthersKeep(s), NEW id \in rows, Ledger(id),
           IsFiniteSet(EntriesOf(id)'), ref'[id] \in Int,
           ref'[id] - ref[id] + (IF s \in Debtors(id)' THEN 1 ELSE 0) - (IF s \in Debtors(id) THEN 1 ELSE 0)
             = Cardinality(EntriesOf(id)') - Cardinality(EntriesOf(id))
                 + (IF s \in Takers(id)' THEN 1 ELSE 0) - (IF s \in Takers(id) THEN 1 ELSE 0),
           Debtors(id)' # {} => Cardinality(Debtors(id)') < Cardinality(EntriesOf(id)'),
           EntriesOf(id)' = {} => \E t \in Sessions : Handles(t, id)'
    PROVE  Ledger(id)'
<1>1. ref[id] \in Int
  BY DEF TypeOK
<1>2. Cardinality(EntriesOf(id)') \in Nat
  BY FS_CardinalityType
<1> QED BY <1>1, <1>2, Finite, TakerCounts, SessionCounts DEF Ledger

(* A step that writes no table, no count and no object. *)
LEMMA QuietLedgers ==
    ASSUME CInv, NEW s \in Sessions, OthersKeep(s), UNCHANGED Tables, UNCHANGED ref,
           pc[s] \notin {"copy_inc", "rm_row"}, pc'[s] # "copy_inc",
           pc[s] \in {"row", "put_undo"} => pc'[s] \in {"row", "put_undo"} /\ req'[s] = req[s],
           pc[s] \in TakerSteps <=> pc'[s] \in TakerSteps,
           pc[s] \in TakerSteps => req'[s] = req[s],
           \A id \in rows : EntriesOf(id) = {} /\ Handles(s, id) => Handles(s, id)'
    PROVE  (\A id \in rows' : Ledger(id)') /\ Bucket'
<1>1. \A id \in rows : Ledger(id)'
  <2> SUFFICES ASSUME NEW id \in rows PROVE Ledger(id)'
    OBVIOUS
  <2>1. Ledger(id) /\ EntriesOf(id)' = EntriesOf(id)
    BY TablesOnly DEF CInv
  <2>2. s \in Takers(id)' <=> s \in Takers(id)
    BY DEF Takers
  <2>3. s \in Debtors(id)' <=> s \in Debtors(id)
    BY DEF Debtors, At
  <2> QED BY <2>1, <2>2, <2>3, SameLedger
<1>2. Bucket'
  <2>1. Names' = Names /\ \A i : NameOf(i)' = NameOf(i)
    BY TablesOnly
  <2>2. \A i \in rows' : NameOf(i)' \in store' \/ \E t \in Sessions : pc'[t] = "rm_row" /\ req'[t].obj = i
    BY <2>1 DEF CInv, Bucket, OthersKeep, Tables
  <2>3. \A n \in store' : n \in Names' \/ \E t \in Sessions : pc'[t] \in {"row", "put_undo"} /\ n = PutName(t)'
    <3> SUFFICES ASSUME NEW n \in store, n \notin Names
                 PROVE  \E t \in Sessions : pc'[t] \in {"row", "put_undo"} /\ n = PutName(t)'
      BY <2>1 DEF Tables
    <3>1. PICK t \in Sessions : pc[t] \in {"row", "put_undo"} /\ n = PutName(t)
      BY DEF CInv, Bucket
    <3>2. pc'[t] \in {"row", "put_undo"} /\ req'[t] = req[t]
      BY <3>1 DEF OthersKeep
    <3> QED BY <3>1, <3>2 DEF PutName
  <2> QED BY <2>2, <2>3 DEF Bucket
<1> QED BY <1>1, <1>2 DEF Tables

(* What each calm step of that kind does to the accounts. *)
LEMMA QuietCalm ==
    ASSUME Calm, CInv, Orderly, NEW s \in Sessions, Step(s) \/ Abort(s), ~ Writes(s),
           ~ (IncreaseRefCount(s) \/ CopyIncrease(s) \/ DecreaseWrite(s))
    PROVE  (\A id \in rows' : Ledger(id)') /\ Bucket' /\ CachedRows' /\ Calmly(s)'
<1> DEFINE o == req[s].obj
<1> USE DEF At, TakerSteps, RowSteps
<1>0. TypeOK /\ Shape /\ Keyed /\ Sharing(s) /\ Calmly(s) /\ UNCHANGED Tables /\ OthersKeep(s)
  BY ReadsOnly, StepIsLocal DEF CInv, OInv
<1>1. UNCHANGED ref
  BY DEF objectVars, Step, Writes, LookupFound, LookupNone, Fill, SizeMismatch, Available,
     NotAvailable,
     RepairRow, CreateEntryFails, CreateFilesObjectFails, CacheNewObject,
     CopyEntryFails, RemoveRead, DecreaseRead, DecreaseLast, RemoveCache, Abort
<1>2. \A i \in cached : i \in rows \/ \E t \in Sessions : pc[t] = "rm_cache" /\ req[t].obj = i
  BY DEF CInv, CachedRows
<1>3. ASSUME pc[s] # "rm_cache", cached' \subseteq cached \cup rows PROVE CachedRows'
  BY <1>0, <1>2, <1>3 DEF CachedRows, OthersKeep, Tables
<1>f. req[s].fresh => pc[s] \in {"row_cache", "entry"}
  BY <1>0 DEF Sharing
<1>4. ASSUME Return(s), pc[s] \notin TakerSteps \cup {"copy_inc", "row", "put_undo", "rm_cache"}, UNCHANGED cached
      PROVE  (\A id \in rows' : Ledger(id)') /\ Bucket' /\ CachedRows' /\ Calmly(s)'
  <2>1. pc'[s] = "idle" /\ \A id : ~ Handles(s, id)
    BY <1>0, <1>f, <1>4 DEF Return, Jump, TypeOK, Handles
  <2> QED BY <1>0, <1>1, <1>3, <1>4, <2>1, QuietLedgers DEF Calmly
<1>5. ASSUME NEW step, Goto(s, step), pc[s] \notin {"copy_inc", "rm_row", "rm_cache"},
             step \notin {"copy_inc", "copy_entry", "rm_row", "repair_put", "repair_row"},
             pc[s] \in {"row", "put_undo"} => step = "put_undo",
             pc[s] \in TakerSteps <=> step \in TakerSteps,
             step \in RowSteps => o \in rows,
             req[s].op = "purge" /\ pc[s] \in {"rm_read", "dec", "rm_object"} /\ o \in rows /\ EntriesOf(o) = {}
                => step \in {"dec", "rm_object"},
             cached' \subseteq cached \cup rows
      PROVE  (\A id \in rows' : Ledger(id)') /\ Bucket' /\ CachedRows' /\ Calmly(s)'
  <2>1. pc'[s] = step /\ req'[s] = req[s]
    BY <1>0, <1>5 DEF Goto, Jump, TypeOK
  <2>2. \A id \in rows : EntriesOf(id) = {} /\ Handles(s, id) => Handles(s, id)'
    BY <1>5, <2>1 DEF Handles
  <2>3. Calmly(s)'
    BY <1>0, <1>5, <2>1 DEF Calmly, Tables
  <2> QED BY <1>0, <1>1, <1>3, <1>5, <2>1, <2>2, <2>3, QuietLedgers
<1>6. CASE LookupFound(s)
  <2>1. PICK id \in Known(req[s].hash) : Hold(s, id, FALSE)
    BY <1>6 DEF LookupFound
  <2>2. pc[s] = "lookup" /\ req[s].hash \in Hashes /\ ContentOf(s) = req[s].hash
    BY <1>0, <1>6, ContentKnown DEF LookupFound, Shape, HashSteps
  <2>3. id \in rows
    <3>1. CASE cachedId[req[s].hash] \in cached
      <4>1. id = cachedId[req[s].hash] /\ id \in ObjectIds /\ object[id].hash = req[s].hash
        BY <1>0, <2>1, <2>2, <3>1, NullAssumption DEF Known, Keyed, TypeOK
      <4>2. ASSUME NEW t \in Sessions, pc[t] = "rm_cache", req[t].obj = id PROVE FALSE
        <5>1. ContentOf(t) = req[s].hash /\ req[t].op = "purge"
          BY <1>0, <4>1, <4>2, ContentKnown DEF ObjectSteps, CInv, OInv, Sharing, PurgeSteps
        <5> QED BY <2>2, <4>2, <5>1 DEF Orderly
      <4> QED BY <1>2, <3>1, <4>1, <4>2
    <3>2. CASE cachedId[req[s].hash] \notin cached
      BY <2>1, <3>2 DEF Known, RowsWith
    <3> QED BY <3>1, <3>2
  <2>4. pc'[s] = "fill" /\ req'[s].obj = id /\ UNCHANGED cached
    BY <1>0, <1>6, <2>1 DEF LookupFound, TypeOK, Jump, Hold, Args, cacheVars
  <2>5. Calmly(s)' /\ \A i : ~ Handles(s, i)
    BY <1>0, <1>f, <2>2, <2>3, <2>4 DEF Calmly, Tables, Handles
  <2> QED BY <1>0, <1>1, <1>3, <2>2, <2>4, <2>5, QuietLedgers
<1>7. CASE LookupNone(s)
  <2>1. pc[s] = "lookup" /\ UNCHANGED cached
    BY <1>7 DEF LookupNone
  <2> QED BY <1>4, <1>5, <1>7, <2>1 DEF LookupNone
<1>8. CASE Fill(s) \/ Available(s) \/ CacheNewObject(s)
  <2>1. o \in rows
    BY <1>0, <1>8 DEF Fill, Available, CacheNewObject, Calmly
  <2>2. CASE Fill(s)
    BY <1>5, <2>1, <2>2 DEF Fill, CacheFileObject
  <2>3. CASE Available(s)
    BY <1>5, <2>1, <2>3 DEF Available, cacheVars
  <2>4. CASE CacheNewObject(s)
    BY <1>5, <2>1, <2>4 DEF CacheNewObject, CacheFileObject
  <2> QED BY <1>8, <2>2, <2>3, <2>4
<1>9. CASE SizeMismatch(s) \/ CopyEntryFails(s)
  BY <1>4, <1>9 DEF SizeMismatch, CopyEntryFails, cacheVars
<1>10. ~ NotAvailable(s) /\ ~ RepairRow(s) /\ ~ Abort(s)
  <2>1. ASSUME NotAvailable(s) PROVE FALSE
    <3>1. pc[s] = "avail" /\ o \in rows /\ NameOf(o) \notin store
      BY <1>0, <2>1 DEF NotAvailable, Calmly, Calm
    <3>2. PICK t \in Sessions : pc[t] = "rm_row" /\ req[t].obj = o
      BY <3>1 DEF CInv, Bucket
    <3>3. req[t].op = "purge"
      BY <3>2 DEF CInv, OInv, Sharing, PurgeSteps
    <3> QED BY <3>1, <3>2, <3>3, AlonePurge DEF CInv, ObjectSteps
  <2> QED BY <1>0, <2>1 DEF RepairRow, Abort, Calm, Calmly
<1>11. CASE CreateEntryFails(s)
  <2>1. pc[s] = "entry" /\ o \in rows /\ ~ req[s].fresh
    BY <1>0, <1>11 DEF CreateEntryFails, InsertRefused, Calmly, Calm
  <2>2. Goto(s, "dec") /\ UNCHANGED cached
    BY <1>11, <2>1 DEF CreateEntryFails, cacheVars
  <2> QED BY <1>5, <2>1, <2>2
<1>12. CASE CreateFilesObjectFails(s)
  BY <1>5, <1>12 DEF CreateFilesObjectFails, cacheVars
<1>13. CASE RemoveRead(s)
  <2>1. pc[s] = "rm_read" /\ o \in rows /\ Goto(s, "dec") /\ UNCHANGED cached
    BY <1>0, <1>13 DEF RemoveRead, Calmly, cacheVars
  <2> QED BY <1>5, <2>1
<1>d. ASSUME pc[s] = "dec"
      PROVE  /\ o \in rows /\ s \in Takers(o) /\ Ledger(o) /\ ref[o] \in Int
             /\ Cardinality(Takers(o)) \in Nat \ {0}
  <2>1. o \in rows /\ s \in Takers(o) /\ Ledger(o) /\ ref[o] \in Int
    BY <1>0, <1>d DEF Calmly, Takers, CInv, TypeOK
  <2> QED BY <1>0, <2>1, TakerCounts, FS_EmptySet
<1>14. CASE DecreaseRead(s)
  <2>1. pc[s] = "dec" /\ ref[o] > 1 /\ Goto(s, "dec_write") /\ UNCHANGED cached
    BY <1>14 DEF DecreaseRead, cacheVars
  <2>2. ASSUME req[s].op = "purge", EntriesOf(o) = {} PROVE FALSE
    <3>1. Debtors(o) = {} /\ Takers(o) = {s}
      <4>1. \A t \in Sessions : pc[t] \in TakerSteps \cup {"copy_inc"} /\ req[t].obj = o => t = s
        BY <2>1, <2>2, AlonePurge DEF CInv, ObjectSteps
      <4> QED BY <1>d, <2>1, <4>1 DEF Debtors, Takers
    <3>2. Cardinality(Debtors(o)) = 0 /\ Cardinality(EntriesOf(o)) = 0 /\ Cardinality(Takers(o)) = 1
      BY <2>2, <3>1, FS_EmptySet, FS_Singleton
    <3> QED BY <1>d, <2>1, <3>2 DEF Ledger
  <2> QED BY <1>5, <1>d, <2>1, <2>2
<1>15. CASE DecreaseLast(s)
  <2>1. pc[s] = "dec" /\ ref[o] <= 1 /\ o \in rows /\ UNCHANGED cached
    BY <1>d, <1>15 DEF DecreaseLast, cacheVars
  <2>2. EntriesOf(o) = {}
    BY <1>0, <1>d, <2>1, Finite, FS_EmptySet DEF Ledger
  <2>3. PICK t \in Sessions : Handles(t, o)
    BY <1>d, <2>1, <2>2 DEF Ledger
  <2>4. Cardinality(Debtors(o)) = 0
    BY <1>0, <1>d, <2>1, <2>2, Finite, FS_EmptySet DEF Ledger
  <2>5. Cardinality(Takers(o)) = 1
    BY <1>d, <2>1, <2>2, <2>4, FS_EmptySet DEF Ledger
  <2>6. t \in Takers(o)
    BY <2>3 DEF Handles, Takers, CInv, OInv, Sharing
  <2>7. t = s
    BY <1>0, <1>d, <2>1, <2>5, <2>6, TakerCounts, FS_Singleton
  <2>8. req[s].op = "purge"
    BY <1>f, <2>1, <2>3, <2>7 DEF Handles
  <2> QED BY <1>5, <1>15, <2>1, <2>8 DEF DecreaseLast
<1>16. CASE RemoveCache(s)
  <2>1. /\ pc[s] = "rm_cache" /\ cached' = cached \ {o} /\ pc'[s] = "idle"
        /\ \A id : ~ Handles(s, id)
    BY <1>0, <1>f, <1>16 DEF RemoveCache, Return, Jump, TypeOK, Handles
  <2>2. CachedRows'
    BY <1>0, <1>2, <2>1 DEF CachedRows, OthersKeep, Tables
  <2>3. Calmly(s)'
    BY <2>1 DEF Calmly
  <2> QED BY <1>0, <1>1, <2>1, <2>2, <2>3, QuietLedgers
<1> QED
  BY <1>6, <1>7, <1>8, <1>9, <1>10, <1>11, <1>12, <1>13, <1>14, <1>15, <1>16 DEF Step, Writes

(* Rows, bucket and cache that a step leaves alone. *)
LEMMA SameBucket ==
    ASSUME CInv, NEW s \in Sessions, OthersKeep(s), UNCHANGED <<object, rows, store>>,
           cached' \subseteq cached, pc[s] \notin {"row", "put_undo", "rm_row", "rm_cache"}
    PROVE  Bucket' /\ CachedRows'
<1>1. Names' = Names /\ \A i : NameOf(i)' = NameOf(i)
  BY DEF Names, NameOf
<1>2. \A i \in rows' : NameOf(i)' \in store' \/ \E t \in Sessions : pc'[t] = "rm_row" /\ req'[t].obj = i
  BY <1>1 DEF CInv, Bucket, OthersKeep
<1>3. ASSUME NEW n \in store', n \notin Names'
      PROVE  \E t \in Sessions : pc'[t] \in {"row", "put_undo"} /\ n = PutName(t)'
  <2>1. PICK t \in Sessions : pc[t] \in {"row", "put_undo"} /\ n = PutName(t)
    BY <1>1, <1>3 DEF CInv, Bucket
  <2>2. pc'[t] \in {"row", "put_undo"} /\ req'[t] = req[t]
    BY <2>1 DEF OthersKeep
  <2> QED BY <2>1, <2>2 DEF PutName
<1>4. CachedRows'
  BY DEF CInv, CachedRows, OthersKeep
<1> QED BY <1>2, <1>3, <1>4 DEF Bucket

(* Steps that count, insert or delete: the accounts. *)
LEMMA CountCalm ==
    ASSUME Calm, CInv, Orderly, NEW s \in Sessions,
           IncreaseRefCount(s) \/ CopyIncrease(s) \/ DecreaseWrite(s)
             \/ CreateEntry(s) \/ CopyEntry(s) \/ PurgeEntry(s)
    PROVE  (\A id \in rows' : Ledger(id)') /\ Bucket' /\ CachedRows' /\ Calmly(s)'
<1>o. PICK o : o = req[s].obj
  OBVIOUS
<1> USE <1>o DEF At, Goto, Jump, TakerSteps, RowSteps, objectVars, fileVars, cacheVars
<1>0. TypeOK /\ Shape /\ Marked /\ Sharing(s) /\ Calmly(s)
  BY DEF CInv, OInv
<1>1. OthersKeep(s)
  BY <1>0, StepIsLocal DEF Step
<1>2. \A id \in rows : Ledger(id) /\ id \in ObjectIds /\ ref[id] \in Int
  BY <1>0 DEF CInv, TypeOK
<1>3. UNCHANGED <<object, rows, store>> /\ cached' \subseteq cached
  BY DEF IncreaseRefCount, CopyIncrease, DecreaseWrite, CreateEntry, CopyEntry, PurgeEntry,
     AddRef
<1>4. Bucket' /\ CachedRows'
  <2>1. pc[s] \in {"inc", "copy_inc", "dec_write", "entry", "copy_entry", "purge_entry"}
    BY DEF IncreaseRefCount, CopyIncrease, DecreaseWrite, CreateEntry, CopyEntry, PurgeEntry
  <2> QED BY <1>1, <1>3, <2>1, SameBucket
<1>5. ASSUME Return(s) PROVE pc'[s] = "idle" /\ req'[s].obj = Null /\ Calmly(s)'
  BY <1>0, <1>5 DEF Return, TypeOK, NoArgs, Args, Calmly
<1>6. \A id : IsFiniteSet(EntriesOf(id)) /\ Cardinality(EntriesOf(id)) \in Nat /\ Cardinality(Debtors(id)) \in Nat
  BY <1>0, Finite
<1> SUFFICES (\A id \in rows : Ledger(id)') /\ Calmly(s)'
  BY <1>3, <1>4
<1>7. ASSUME o \in rows, \A id \in rows \ {o} : ref'[id] = ref[id] /\ EntriesOf(id)' = EntriesOf(id),
             req'[s].obj \in {o, Null}, Ledger(o)'
      PROVE  \A id \in rows : Ledger(id)'
  <2> SUFFICES ASSUME NEW id \in rows, id # o PROVE Ledger(id)'
    BY <1>7
  <2>1. req'[s].obj # id
    BY <1>2, <1>7, NullAssumption
  <2> QED BY <1>1, <1>2, <1>7, <2>1, OtherLedger
<1>8. CASE IncreaseRefCount(s) \/ CopyIncrease(s) \/ DecreaseWrite(s)
  <2>1. o \in rows /\ UNCHANGED <<entries, file>> /\ \A id : EntriesOf(id)' = EntriesOf(id)
    <3>1. pc[s] = "copy_inc" => o \in rows
      BY <1>0 DEF Calmly, EntriesOf, Shape
    <3>2. pc[s] \in {"inc", "dec_write"} => o \in rows
      BY <1>0 DEF Calmly
    <3> QED BY <1>8, <3>1, <3>2 DEF IncreaseRefCount, CopyIncrease, DecreaseWrite, EntriesOf
  <2>2. ~ Handles(s, o)
    BY <1>0, <1>8 DEF Handles, Sharing, IncreaseRefCount, CopyIncrease, DecreaseWrite
  <2>3. EntriesOf(o)' = {} => \E t \in Sessions : Handles(t, o)'
    BY <1>1, <1>2, <2>1, <2>2 DEF Ledger, Handles, OthersKeep
  <2>4. CASE IncreaseRefCount(s)
    <3>1. /\ pc[s] = "inc" /\ pc'[s] = "entry" /\ req'[s] = req[s]
          /\ ref' = [ref EXCEPT ![o] = @ + 1]
      BY <1>0, <2>1, <2>4 DEF IncreaseRefCount, AddRef, TypeOK
    <3>2. /\ ref'[o] = ref[o] + 1 /\ \A id \in rows \ {o} : ref'[id] = ref[id]
      BY <1>0, <1>2, <2>1, <3>1 DEF TypeOK
    <3>3. s \in Takers(o)' /\ s \notin Takers(o) /\ s \notin Debtors(o) /\ s \notin Debtors(o)'
      BY <3>1 DEF Takers, Debtors
    <3>4. Debtors(o)' = Debtors(o)
      BY <1>1, <3>3 DEF Debtors, OthersKeep
    <3>5. Ledger(o)'
      BY <1>0, <1>1, <1>2, <1>6, <2>1, <2>3, <3>2, <3>3, <3>4, MovedLedger DEF Ledger
    <3>6. Calmly(s)'
      BY <1>3, <2>1, <3>1 DEF Calmly
    <3> QED BY <1>7, <2>1, <3>1, <3>2, <3>5, <3>6
  <2>5. CASE CopyIncrease(s)
    <3>1. /\ pc[s] = "copy_inc" /\ Return(s) /\ ref' = [ref EXCEPT ![o] = @ + 1]
      BY <1>0, <2>1, <2>5 DEF CopyIncrease, AddRef, TypeOK
    <3>2. /\ ref'[o] = ref[o] + 1 /\ \A id \in rows \ {o} : ref'[id] = ref[id]
      BY <1>0, <1>2, <2>1, <3>1 DEF TypeOK
    <3>3. s \notin Takers(o)' /\ s \notin Takers(o) /\ s \in Debtors(o) /\ s \notin Debtors(o)'
      BY <1>5, <3>1 DEF Takers, Debtors
    <3>4. Cardinality(Debtors(o)') = Cardinality(Debtors(o)) - 1
      BY <1>0, <1>1, <1>6, <3>3, SessionCounts
    <3>5. Cardinality(Debtors(o)') < Cardinality(EntriesOf(o)')
      BY <1>2, <1>6, <2>1, <3>3, <3>4 DEF Ledger
    <3>6. Ledger(o)'
      BY <1>0, <1>1, <1>2, <1>6, <2>1, <2>3, <3>2, <3>3, <3>5, MovedLedger
    <3> QED BY <1>5, <1>7, <2>1, <3>1, <3>2, <3>6
  <2>6. CASE DecreaseWrite(s)
    <3>1. /\ pc[s] = "dec_write" /\ Return(s) /\ ref' = [ref EXCEPT ![o] = @ + -1]
      BY <1>0, <2>1, <2>6 DEF DecreaseWrite, AddRef, TypeOK
    <3>2. /\ ref'[o] = ref[o] - 1 /\ \A id \in rows \ {o} : ref'[id] = ref[id]
      BY <1>0, <1>2, <2>1, <3>1 DEF TypeOK
    <3>3. s \notin Takers(o)' /\ s \in Takers(o) /\ s \notin Debtors(o) /\ s \notin Debtors(o)'
      BY <1>5, <3>1 DEF Takers, Debtors
    <3>4. Debtors(o)' = Debtors(o)
      BY <1>1, <3>3 DEF Debtors, OthersKeep
    <3>5. Ledger(o)'
      BY <1>0, <1>1, <1>2, <1>6, <2>1, <2>3, <3>2, <3>3, <3>4, MovedLedger DEF Ledger
    <3> QED BY <1>5, <1>7, <2>1, <3>1, <3>2, <3>5
  <2> QED BY <1>8, <2>4, <2>5, <2>6
<1>9. CASE CreateEntry(s) \/ CopyEntry(s)
  <2>1. InsertFile(s, o) /\ o \in rows /\ UNCHANGED ref
    BY <1>9 DEF CreateEntry, CopyEntry, InsertFile
  <2>2. \A id : Cardinality(EntriesOf(id)') =
            IF id = o THEN Cardinality(EntriesOf(id)) + 1 ELSE Cardinality(EntriesOf(id))
    BY <1>0, <1>2, <2>1, InsertCounts
  <2>3. PICK e \in Fresh(file) :
          /\ file' = [file EXCEPT ![e] = [user |-> UserOf[s], object |-> o]]
          /\ entries' = entries \cup {e}
    BY <2>1 DEF InsertFile
  <2>4. e \in FileIds /\ e \notin entries
    BY <1>0, <2>3 DEF Fresh, TypeOK
  <2>5. file'[e].object = o /\ \A f \in entries : file'[f] = file[f]
    BY <1>0, <2>3, <2>4 DEF TypeOK
  <2>6. /\ \A id : id # o => EntriesOf(id)' = EntriesOf(id)
        /\ EntriesOf(o)' = EntriesOf(o) \cup {e}
    BY <2>3, <2>5 DEF EntriesOf
  <2>7. IsFiniteSet(EntriesOf(o)') /\ EntriesOf(o)' # {}
    BY <1>6, <2>6, FS_AddElement
  <2>8. CASE CreateEntry(s)
    <3>1. pc[s] = "entry" /\ Return(s)
      BY <2>8 DEF CreateEntry
    <3>2. s \notin Takers(o)' /\ s \in Takers(o) /\ s \notin Debtors(o) /\ s \notin Debtors(o)'
      BY <1>5, <3>1 DEF Takers, Debtors
    <3>3. Debtors(o)' = Debtors(o)
      BY <1>1, <3>2 DEF Debtors, OthersKeep
    <3>4. Debtors(o)' # {} => Cardinality(Debtors(o)') < Cardinality(EntriesOf(o)')
      BY <1>2, <1>6, <2>1, <2>2, <3>3 DEF Ledger
    <3>5. Ledger(o)'
      BY <1>0, <1>1, <1>2, <1>6, <2>1, <2>2, <2>7, <3>2, <3>4, MovedLedger
    <3> QED BY <1>5, <1>7, <2>1, <2>6, <3>1, <3>5
  <2>9. CASE CopyEntry(s)
    <3>1. pc[s] = "copy_entry" /\ pc'[s] = "copy_inc" /\ req'[s] = req[s]
      BY <1>0, <2>9 DEF CopyEntry, TypeOK
    <3>2. s \notin Takers(o)' /\ s \notin Takers(o) /\ s \notin Debtors(o) /\ s \in Debtors(o)'
      BY <3>1 DEF Takers, Debtors
    <3>3. Cardinality(Debtors(o)') = Cardinality(Debtors(o)) + 1
      BY <1>0, <1>1, <1>6, <3>2, SessionCounts
    <3>4. Cardinality(EntriesOf(o)) > Cardinality(Debtors(o))
      <4>1. EntriesOf(o) # {}
        BY <1>0, <3>1 DEF Calmly
      <4>2. Cardinality(EntriesOf(o)) > 0
        BY <1>6, <4>1, FS_EmptySet
      <4> QED BY <1>2, <1>6, <2>1, <4>2, FS_EmptySet DEF Ledger
    <3>5. Cardinality(Debtors(o)') < Cardinality(EntriesOf(o)')
      BY <1>6, <2>2, <3>3, <3>4
    <3>6. Ledger(o)'
      BY <1>0, <1>1, <1>2, <1>6, <2>1, <2>2, <2>7, <3>2, <3>5, MovedLedger
    <3>7. Calmly(s)'
      <4>1. EntriesOf(req[s].obj)' # {}
        BY <2>6, <3>1 DEF EntriesOf
      <4> QED BY <3>1, <4>1 DEF Calmly
    <3> QED BY <1>7, <2>1, <2>6, <3>1, <3>6, <3>7
  <2> QED BY <1>9, <2>8, <2>9
<1>10. CASE PurgeEntry(s)
  <2> DEFINE e == req[s].file
  <2>1. /\ pc[s] = "purge_entry" /\ pc'[s] = "rm_read" /\ req'[s] = req[s] /\ UNCHANGED <<ref, file>>
        /\ entries' = entries \ {e}
    BY <1>0, <1>10 DEF PurgeEntry, TypeOK
  <2>2. e \in entries /\ file[e].object = o /\ req[s].op = "purge" /\ o \in rows
    BY <1>0, <2>1 DEF Marked, Shape
  <2>3. /\ \A id : id # o => EntriesOf(id)' = EntriesOf(id)
        /\ EntriesOf(o)' = EntriesOf(o) \ {e} /\ e \in EntriesOf(o)
    BY <2>1, <2>2 DEF EntriesOf
  <2>4. IsFiniteSet(EntriesOf(o)') /\ Cardinality(EntriesOf(o)') = Cardinality(EntriesOf(o)) - 1
    BY <1>6, <2>3, FS_RemoveElement
  <2>5. s \in Takers(o)' /\ s \notin Takers(o) /\ s \notin Debtors(o) /\ s \notin Debtors(o)'
    BY <2>1 DEF Takers, Debtors
  <2>6. Debtors(o)' = {}
    <3>1. \A t \in Sessions : pc[t] = "copy_inc" /\ req[t].obj = o => t = s
      BY <2>1, <2>2, AlonePurge DEF CInv, ObjectSteps
    <3> QED BY <1>1, <2>1, <3>1 DEF Debtors, OthersKeep
  <2>7. Handles(s, o)'
    BY <2>1, <2>2 DEF Handles
  <2>8. Ledger(o)'
    BY <1>0, <1>1, <1>2, <1>6, <2>1, <2>2, <2>4, <2>5, <2>6, <2>7, MovedLedger
  <2>9. Calmly(s)'
    BY <1>3, <2>1, <2>2 DEF Calmly
  <2> QED BY <1>7, <2>1, <2>2, <2>3, <2>8, <2>9
<1> QED BY <1>8, <1>9, <1>10

(* Steps that write rows and objects. *)
LEMMA PlaceCalm ==
    ASSUME Calm, CInv, Orderly, NEW s \in Sessions,
           PutObject(s) \/ UndoPut(s) \/ DeleteMinioFile(s) \/ CreateFilesObject(s) \/ RemoveRow(s)
    PROVE  (\A id \in rows' : Ledger(id)') /\ Bucket' /\ CachedRows' /\ Calmly(s)'
<1>o. PICK o : o = req[s].obj
  OBVIOUS
<1> USE <1>o DEF At, Goto, Jump, TakerSteps, RowSteps, objectVars, fileVars, cacheVars
<1>0. TypeOK /\ Shape /\ OneRowPerHash /\ Sharing(s) /\ Calmly(s)
  BY DEF CInv, OInv
<1>1. OthersKeep(s)
  BY <1>0, StepIsLocal DEF Step
<1>2. \A id \in rows : Ledger(id) /\ id \in ObjectIds /\ object[id] # Null
  BY <1>0 DEF CInv, TypeOK
<1>3. /\ \A i \in rows : NameOf(i) \in store \/ \E t \in Sessions : pc[t] = "rm_row" /\ req[t].obj = i
      /\ \A n \in store : n \in Names \/ \E t \in Sessions : pc[t] \in {"row", "put_undo"} /\ n = PutName(t)
      /\ \A i \in cached : i \in rows \/ \E t \in Sessions : pc[t] = "rm_cache" /\ req[t].obj = i
  BY DEF CInv, Bucket, CachedRows
<1>4. UNCHANGED <<entries, file, cached>> /\ \A id : EntriesOf(id)' = EntriesOf(id)
  BY DEF PutObject, UndoPut, DeleteMinioFile, CreateFilesObject, RemoveRow, EntriesOf
<1>5. ASSUME UNCHANGED <<object, rows>>
      PROVE  Names' = Names /\ \A i : NameOf(i)' = NameOf(i)
  BY <1>5 DEF Names, NameOf
<1>6. \A t \in Sessions \ {s} : pc'[t] = pc[t] /\ req'[t] = req[t] /\ PutName(t)' = PutName(t)
  BY <1>1 DEF OthersKeep, PutName
<1>7. ASSUME rows \subseteq rows', pc[s] # "rm_cache" PROVE CachedRows'
  BY <1>3, <1>4, <1>6, <1>7 DEF CachedRows
<1>8. ASSUME UNCHANGED <<rows, ref>>, pc[s] \notin TakerSteps \cup {"copy_inc"},
             pc'[s] \notin TakerSteps \cup {"copy_inc"}
      PROVE  \A id \in rows' : Ledger(id)'
  <2> SUFFICES ASSUME NEW id \in rows PROVE Ledger(id)'
    BY <1>8
  <2>1. s \notin Takers(id) /\ s \notin Takers(id)' /\ s \notin Debtors(id) /\ s \notin Debtors(id)'
    BY <1>8 DEF Takers, Debtors
  <2>2. ~ Handles(s, id)
    BY <1>0, <1>8 DEF Handles, Sharing
  <2> QED BY <1>1, <1>2, <1>4, <1>8, <2>1, <2>2, SameLedger
<1>9. CASE PutObject(s)
  <2>1. /\ pc[s] = "put" /\ pc'[s] = "row" /\ req'[s] = req[s] /\ UNCHANGED <<object, rows, ref>>
        /\ store' = store \cup {PutName(s)}
    BY <1>0, <1>9 DEF PutObject, PutName, TypeOK
  <2>2. PutName(s)' = PutName(s)
    BY <2>1 DEF PutName
  <2>3. Bucket'
    BY <1>3, <1>5, <1>6, <2>1, <2>2 DEF Bucket
  <2> QED BY <1>7, <1>8, <2>1, <2>3 DEF Calmly
<1>10. CASE UndoPut(s)
  <2>1. /\ pc[s] = "put_undo" /\ pc'[s] = "idle" /\ UNCHANGED <<object, rows, ref>>
        /\ store' = store \ {PutName(s)}
    BY <1>0, <1>10 DEF UndoPut, Discard, Calm, PutName, Return, TypeOK
  <2>2. PutName(s) \notin Names
    BY <1>0, <2>1 DEF Sharing, NewSteps
  <2>3. \A i \in rows : NameOf(i) # PutName(s)
    BY <2>2 DEF Names
  <2>4. \A i \in rows' : NameOf(i)' \in store' \/ \E t \in Sessions : pc'[t] = "rm_row" /\ req'[t].obj = i
    BY <1>3, <1>5, <1>6, <2>1, <2>3
  <2>5. \A n \in store' : n \in Names' \/ \E t \in Sessions : pc'[t] \in {"row", "put_undo"} /\ n = PutName(t)'
    BY <1>3, <1>5, <1>6, <2>1
  <2> QED BY <1>7, <1>8, <2>1, <2>4, <2>5 DEF Calmly, Bucket
<1>11. CASE DeleteMinioFile(s)
  <2>1. /\ pc[s] = "rm_object" /\ pc'[s] = "rm_row" /\ req'[s] = req[s] /\ UNCHANGED <<object, rows, ref>>
        /\ store' = store \ {NameOf(o)} /\ req[s].op = "purge" /\ o \in rows
    BY <1>0, <1>11 DEF DeleteMinioFile, Sharing, PurgeSteps, TypeOK
  <2>2. \A i \in rows : i # o => NameOf(i) # NameOf(o)
    BY <1>0, <2>1 DEF OneRowPerHash, NameOf
  <2>3. Bucket'
    BY <1>3, <1>5, <1>6, <2>1, <2>2 DEF Bucket
  <2>4. Calmly(s)'
    <3>1. NameOf(req[s].obj)' \notin store'
      BY <2>1 DEF NameOf
    <3> QED BY <2>1, <3>1 DEF Calmly
  <2>5. ASSUME NEW id \in rows PROVE Ledger(id)'
    <3>1. s \in Takers(id)' <=> s \in Takers(id)
      BY <2>1 DEF Takers
    <3>2. s \notin Debtors(id) /\ s \notin Debtors(id)'
      BY <2>1 DEF Debtors
    <3>3. Handles(s, id) => Handles(s, id)'
      BY <2>1 DEF Handles
    <3> QED BY <1>1, <1>2, <1>4, <2>1, <3>1, <3>2, <3>3, SameLedger
  <2> QED BY <1>7, <2>1, <2>3, <2>4, <2>5
<1>12. CASE CreateFilesObject(s)
  <2>1. PICK id \in Fresh(object) :
          /\ object' = [object EXCEPT ![id] = [hash |-> req[s].hash, owner |-> UserOf[s]]]
          /\ rows' = rows \cup {id}
          /\ ref' = [ref EXCEPT ![id] = 1]
          /\ Hold(s, id, TRUE)
    BY <1>12 DEF CreateFilesObject
  <2>2. id \in ObjectIds /\ object[id] = Null /\ id \notin rows
    BY <1>0, <1>2, <2>1 DEF Fresh, TypeOK
  <2>3. object'[id] = [hash |-> req[s].hash, owner |-> UserOf[s]] /\ \A i \in rows : object'[i] = object[i]
    BY <1>0, <2>1, <2>2 DEF TypeOK
  <2>4. /\ pc[s] = "row" /\ pc'[s] = "row_cache" /\ UNCHANGED store
        /\ req'[s].obj = id /\ req'[s].fresh
    BY <1>0, <1>12, <2>1 DEF CreateFilesObject, Hold, Args, TypeOK
  <2>5. NameOf(id)' = PutName(s) /\ \A i \in rows : NameOf(i)' = NameOf(i)
    BY <2>3 DEF NameOf, PutName
  <2>6. Names' = Names \cup {PutName(s)}
    BY <2>1, <2>5 DEF Names
  <2>7. PutName(s) \in store
    BY <1>0, <2>4 DEF Sharing
  <2>8. \A i \in rows' : NameOf(i)' \in store' \/ \E t \in Sessions : pc'[t] = "rm_row" /\ req'[t].obj = i
    BY <1>3, <1>6, <2>1, <2>4, <2>5, <2>7
  <2>9. \A n \in store' : n \in Names' \/ \E t \in Sessions : pc'[t] \in {"row", "put_undo"} /\ n = PutName(t)'
    BY <1>3, <1>6, <2>4, <2>6
  <2>10. Ledger(id)'
    <3>1. EntriesOf(id) = {}
      BY <1>0, <2>2 DEF EntriesOf, Shape
    <3>2. \A t \in Sessions \ {s} : pc[t] \in TakerSteps \cup {"copy_inc"} => req[t].obj # id
      BY <1>0, <2>2 DEF Shape, ObjectSteps
    <3>3. Takers(id)' = {s}
      BY <1>6, <2>4, <3>2 DEF Takers
    <3>4. Debtors(id)' = {}
      BY <1>6, <2>4, <3>2 DEF Debtors
    <3>5. ref'[id] = 1 /\ Handles(s, id)'
      BY <1>0, <2>1, <2>2, <2>4 DEF TypeOK, Handles
    <3> QED BY <1>4, <3>1, <3>3, <3>4, <3>5, FS_EmptySet, FS_Singleton DEF Ledger
  <2>11. ASSUME NEW i \in rows PROVE Ledger(i)'
    <3>1. i # id /\ ref'[i] = ref[i]
      BY <1>0, <1>2, <2>1, <2>2 DEF TypeOK
    <3>2. s \notin Takers(i) /\ s \notin Takers(i)' /\ s \notin Debtors(i) /\ s \notin Debtors(i)'
      BY <2>4, <3>1 DEF Takers, Debtors
    <3>3. ~ Handles(s, i)
      BY <1>0, <2>4 DEF Handles, Sharing
    <3> QED BY <1>1, <1>2, <1>4, <3>1, <3>2, <3>3, SameLedger
  <2> QED BY <1>7, <2>1, <2>4, <2>8, <2>9, <2>10, <2>11 DEF Bucket, Calmly
<1>13. CASE RemoveRow(s)
  <2>1. pc[s] = "rm_row" /\ o \in rows /\ EntriesOf(o) = {} /\ req[s].op = "purge" /\ NameOf(o) \notin store
    BY <1>0, <1>13 DEF RemoveRow, Sharing, PurgeSteps, Calmly
  <2>2. /\ rows' = rows \ {o} /\ pc'[s] = "rm_cache" /\ req'[s] = req[s] /\ UNCHANGED <<object, ref, store>>
    BY <1>0, <1>13, <2>1 DEF RemoveRow, DeleteRow, TypeOK
  <2>3. \A i : NameOf(i)' = NameOf(i)
    BY <2>2 DEF NameOf
  <2>4. Names \ {NameOf(o)} \subseteq Names'
    BY <2>2, <2>3 DEF Names
  <2>5. Bucket'
    BY <1>3, <1>6, <2>1, <2>2, <2>3, <2>4 DEF Bucket
  <2>6. CachedRows'
    BY <1>3, <1>4, <1>6, <2>1, <2>2 DEF CachedRows
  <2>7. ASSUME NEW id \in rows' PROVE Ledger(id)'
    BY <1>1, <1>2, <1>4, <2>2, <2>7, OtherLedger
  <2> QED BY <2>2, <2>5, <2>6, <2>7 DEF Calmly
<1> QED BY <1>9, <1>10, <1>11, <1>12, <1>13

(* Those who stand still. *)
LEMMA OthersCalm ==
    ASSUME CInv, Orderly, NEW s \in Sessions, Step(s) \/ Abort(s), pc[s] # "idle",
           NEW t \in Sessions, t # s
    PROVE  Calmly(t)'
<1>o. PICK o : o = req[t].obj
  OBVIOUS
<1> USE <1>o DEF RowSteps
<1>0. TypeOK /\ Shape /\ Keyed /\ Marked /\ OInv /\ Calmly(t) /\ Sharing(t)
  BY DEF CInv, OInv
<1>1. pc'[t] = pc[t] /\ req'[t] = req[t]
  BY <1>0, StepIsLocal DEF OthersKeep
<1>2. pc[t] \in ObjectSteps => ContentOf(t) = object[o].hash /\ o \in ObjectIds /\ object[o] # Null
  BY <1>0, ContentKnown DEF Shape
<1>3. pc[t] \in RowSteps \cup {"copy_entry", "copy_inc", "rm_row"} => pc[t] \in ObjectSteps
  BY DEF ObjectSteps
<1> SUFFICES ASSUME pc[t] \in ObjectSteps
             PROVE  /\ pc[t] \in RowSteps => o \in rows'
                    /\ pc[t] \in {"copy_entry", "copy_inc"} => EntriesOf(o)' # {}
                    /\ pc[t] = "rm_row" => NameOf(o)' \notin store'
  BY <1>0, <1>1, <1>3 DEF Calmly, NameOf, EntriesOf
<1>4. CASE ContentOf(t) # ContentOf(s)
  <2>1. Untouched(ContentOf(t))
    BY <1>0, <1>4, Footprint
  <2>2. NameOf(o)' = NameOf(o) /\ EntriesOf(o)' = EntriesOf(o) /\ (o \in rows => o \in rows')
    BY <1>2, <2>1 DEF Untouched, NameOf
  <2>3. pc[t] = "rm_row" => NameOf(o) \notin store'
    BY <1>0, <1>2, <2>1 DEF Calmly, Untouched, NameOf
  <2> QED BY <1>0, <2>2, <2>3 DEF Calmly
<1>5. CASE ContentOf(t) = ContentOf(s)
  <2>1. req[s].op # "purge" /\ req[t].op # "purge"
    BY <1>5 DEF Orderly, At, ObjectSteps
  <2>2. /\ rows \subseteq rows'
        /\ entries \subseteq entries' /\ \A e \in entries : file'[e] = file[e]
    BY <1>0, <2>1, Grows
  <2>3. EntriesOf(o) \subseteq EntriesOf(o)'
    BY <2>2 DEF EntriesOf
  <2> QED BY <1>0, <2>1, <2>2, <2>3 DEF Calmly, Sharing, PurgeSteps
<1> QED BY <1>4, <1>5

(* A request that begins, a move to or from the recycle bin, a lock that     *)
(* runs out, a key that does.                                                *)
LEMMA RequestCalm ==
    ASSUME CInv, NEW s \in Sessions, Request(s) \/ LeaseExpires(s)
    PROVE  (\A id \in rows' : Ledger(id)') /\ Bucket' /\ CachedRows' /\ \A t \in Sessions : Calmly(t)'
<1> USE DEF At, Jump, TakerSteps, RowSteps, objectVars, fileVars, cacheVars
<1>0. TypeOK /\ Shape /\ Sharing(s) /\ OthersKeep(s) /\ UNCHANGED Tables /\ UNCHANGED <<ref, cached>>
  <2>1. UNCHANGED Tables /\ UNCHANGED <<ref, cached>>
    BY DEF Tables, Request, FastUpload, MultipartComplete, CopyFile, DeleteFileRecord,
       MoveToRecycle,
       RestoreFile, LeaseExpires
  <2> QED BY <2>1, StepIsLocal DEF CInv, OInv
<1>1. ASSUME NEW t \in Sessions, pc'[t] = pc[t], req'[t] = req[t] PROVE Calmly(t)'
  <2>1. NameOf(req[t].obj)' = NameOf(req[t].obj) /\ EntriesOf(req[t].obj)' = EntriesOf(req[t].obj)
    BY <1>0, <1>1 DEF Tables, NameOf, EntriesOf
  <2> QED BY <1>0, <1>1, <2>1 DEF CInv, Calmly, Tables
<1>2. ASSUME pc[s] = "idle", pc'[s] \in {"lookup", "copy_entry", "purge_entry"}, Calmly(s)'
      PROVE  (\A id \in rows' : Ledger(id)') /\ Bucket' /\ CachedRows' /\ \A t \in Sessions : Calmly(t)'
  <2>1. \A id : ~ Handles(s, id)
    BY <1>0, <1>2 DEF Handles, Sharing
  <2>2. CachedRows'
    BY <1>0, <1>2 DEF CInv, CachedRows, Tables, OthersKeep
  <2> QED BY <1>0, <1>1, <1>2, <2>1, <2>2, QuietLedgers DEF OthersKeep
<1>3. CASE FastUpload(s) \/ MultipartComplete(s)
  <2>1. pc[s] = "idle" /\ pc'[s] = "lookup"
    BY <1>0, <1>3 DEF FastUpload, MultipartComplete, Begin, TypeOK
  <2> QED BY <1>2, <2>1 DEF Calmly
<1>4. CASE CopyFile(s)
  <2>1. PICK e \in entries : Begin(s, "copy_entry", Args("copy", Null, file[e].object, Null, FALSE))
    BY <1>4 DEF CopyFile
  <2>2. pc[s] = "idle" /\ pc'[s] = "copy_entry" /\ req'[s].obj = file[e].object
    BY <1>0, <2>1 DEF Begin, Args, TypeOK
  <2>3. e \in EntriesOf(req[s].obj)'
    BY <1>0, <2>2 DEF EntriesOf, Tables
  <2>4. Calmly(s)'
    BY <2>2, <2>3 DEF Calmly
  <2> QED BY <1>2, <2>2, <2>4
<1>5. CASE DeleteFileRecord(s)
  <2>1. pc[s] = "idle" /\ pc'[s] = "purge_entry"
    BY <1>0, <1>5 DEF DeleteFileRecord, Begin, TypeOK
  <2> QED BY <1>2, <2>1 DEF Calmly
<1>6. CASE MoveToRecycle(s) \/ RestoreFile(s) \/ LeaseExpires(s)
  <2>1. UNCHANGED <<pc, req>>
    BY <1>6 DEF MoveToRecycle, RestoreFile, LeaseExpires
  <2>2. /\ Names' = Names /\ \A i : NameOf(i)' = NameOf(i) /\ EntriesOf(i)' = EntriesOf(i)
        /\ \A t : PutName(t)' = PutName(t)
    BY <1>0, <2>1, TablesOnly DEF PutName
  <2>3. \A id \in rows' : Ledger(id)'
    <3>1. \A id : Takers(id)' = Takers(id) /\ Debtors(id)' = Debtors(id)
      BY <2>1 DEF Takers, Debtors
    <3>2. \A t, id : Handles(t, id)' <=> Handles(t, id)
      BY <2>1 DEF Handles
    <3> QED BY <1>0, <2>2, <3>1, <3>2 DEF CInv, Ledger, Tables
  <2>4. Bucket'
    BY <1>0, <2>1, <2>2 DEF CInv, Bucket, Tables
  <2>5. CachedRows'
    BY <1>0, <2>1 DEF CInv, CachedRows, Tables
  <2> QED BY <1>1, <2>1, <2>3, <2>4, <2>5
<1> QED BY <1>3, <1>4, <1>5, <1>6 DEF Request

(* The invariant of calm requests is inductive. *)
LEMMA CInvStep ==
    ASSUME Calm, CInv, Orderly, [Next]_vars
    PROVE  CInv'
<1>0. OInv /\ OInv'
  BY OInvStep DEF CInv, Calm, CopiesComplete
<1>1. CASE \E s \in Sessions : Step(s) \/ Abort(s)
  <2>1. PICK s \in Sessions : Step(s) \/ Abort(s)
    BY <1>1
  <2>2. \A t \in Sessions : t # s => Calmly(t)'
    BY <2>1, OthersCalm, StepBusy
  <2>3. ~ (RepairPut(s) \/ UndoObject(s) \/ UndoRow(s))
    BY <1>0 DEF CInv, OInv, Calmly, Sharing, RepairPut, UndoObject, UndoRow, At
  <2>4. (\A id \in rows' : Ledger(id)') /\ Bucket' /\ CachedRows' /\ Calmly(s)'
    BY <2>1, <2>3, QuietCalm, CountCalm, PlaceCalm DEF Writes
  <2> QED BY <1>0, <2>2, <2>4 DEF CInv
<1>2. CASE \E s \in Sessions : Request(s) \/ LeaseExpires(s)
  BY <1>0, <1>2, RequestCalm DEF CInv
<1>3. CASE CacheExpires \/ UNCHANGED vars
  <2>1. UNCHANGED Tables /\ UNCHANGED <<pc, req, ref>> /\ cached' \subseteq cached
    BY <1>3 DEF CacheExpires, vars, objectVars, fileVars, cacheVars, Tables
  <2>2. /\ Names' = Names /\ \A i : NameOf(i)' = NameOf(i) /\ EntriesOf(i)' = EntriesOf(i)
        /\ \A t : PutName(t)' = PutName(t)
    BY <2>1, TablesOnly DEF PutName
  <2>3. \A id : Takers(id)' = Takers(id) /\ Debtors(id)' = Debtors(id)
    BY <2>1 DEF Takers, Debtors, At
  <2>4. \A t, id : Handles(t, id)' <=> Handles(t, id)
    BY <2>1 DEF Handles
  <2>5. \A id \in rows' : Ledger(id)'
    BY <2>1, <2>2, <2>3, <2>4 DEF CInv, Ledger, Tables
  <2>6. Bucket' /\ CachedRows'
    BY <2>1, <2>2 DEF CInv, Bucket, CachedRows, Tables
  <2>7. \A t \in Sessions : Calmly(t)'
    <3> SUFFICES ASSUME NEW t \in Sessions PROVE Calmly(t)'
      OBVIOUS
    <3>1. NameOf(req[t].obj)' = NameOf(req[t].obj) /\ EntriesOf(req[t].obj)' = EntriesOf(req[t].obj)
      BY <2>1 DEF NameOf, EntriesOf, Tables
    <3> QED BY <2>1, <3>1 DEF CInv, Calmly, Tables
  <2> QED BY <1>0, <2>5, <2>6, <2>7 DEF CInv
<1> QED BY <1>1, <1>2, <1>3 DEF Next

(* Nothing is counted, cached or stored at first. *)
LEMMA CInvInit ==
    ASSUME Init
    PROVE  CInv
<1>1. rows = {} /\ store = {} /\ cached = {} /\ \A s \in Sessions : pc[s] = "idle"
  BY DEF Init
<1> QED
  BY <1>1, OInvInit DEF CInv, CachedRows, Bucket, Calmly, RowSteps

(* Calm requests keep it. *)
LEMMA CalmKeeps ==
    ASSUME Calm
    PROVE  OrderlySpec => []CInv
<1>1. Init => CInv
  BY CInvInit
<1>2. CInv /\ Orderly /\ [Next /\ Orderly']_vars => CInv'
  BY CInvStep
<1> QED BY <1>1, <1>2, StaysOrderly, PTL DEF OrderlySpec

(* What it says once nobody is served, and of the row a request works on. *)
LEMMA CalmRest ==
    ASSUME CInv
    PROVE  CountsExactAtRest /\ NoOrphansAtRest /\ NoGhostUsed
<1>0. TypeOK /\ \A s \in Sessions : Sharing(s) /\ Calmly(s)
  BY DEF CInv, OInv
<1>1. ASSUME \A s \in Sessions : At(s, "idle"), NEW id \in rows
      PROVE  ref[id] = Cardinality(EntriesOf(id)) /\ ref[id] > 0
  <2>1. Takers(id) = {} /\ Debtors(id) = {}
    BY <1>1 DEF Takers, TakerSteps, Debtors, At
  <2>2. \A s \in Sessions : ~ Handles(s, id)
    BY <1>0, <1>1 DEF Handles, Sharing, At
  <2>3. Ledger(id) /\ ref[id] \in Int
    BY <1>0 DEF CInv, TypeOK
  <2> QED BY <1>0, <2>1, <2>2, <2>3, Finite, FS_EmptySet DEF Ledger
<1>2. ASSUME \A s \in Sessions : At(s, "idle") PROVE store = {NameOf(id) : id \in rows}
  BY <1>2 DEF CInv, Bucket, Names, At
<1>3. NoGhostUsed
  BY <1>0 DEF NoGhostUsed, Calmly, RowSteps
<1> QED BY <1>1, <1>2, <1>3 DEF CountsExactAtRest, NoOrphansAtRest

(* Calm requests about different contents: when no request is served, every  *)
(* ref_count is the number of entries that share the object, and not 0.      *)
THEOREM CalmCountsExact ==
    Calm => (ApartSpec => []CountsExactAtRest)
<1> SUFFICES ASSUME Calm PROVE ApartSpec => []CountsExactAtRest
  OBVIOUS
<1>1. ApartSpec => []CInv
  BY ApartOrder, CalmKeeps, PTL
<1>2. CInv => CountsExactAtRest
  BY CalmRest
<1> QED BY <1>1, <1>2, PTL

(* The bucket then holds the rows' objects and no others. *)
THEOREM CalmNoOrphans ==
    Calm => (ApartSpec => []NoOrphansAtRest)
<1> SUFFICES ASSUME Calm PROVE ApartSpec => []NoOrphansAtRest
  OBVIOUS
<1>1. ApartSpec => []CInv
  BY ApartOrder, CalmKeeps, PTL
<1>2. CInv => NoOrphansAtRest
  BY CalmRest
<1> QED BY <1>1, <1>2, PTL

(* At any time, a request works on a row that exists, never on what Redis    *)
(* still knows of a deleted one.                                             *)
THEOREM CalmNoGhost ==
    Calm => (ApartSpec => []NoGhostUsed)
<1> SUFFICES ASSUME Calm PROVE ApartSpec => []NoGhostUsed
  OBVIOUS
<1>1. ApartSpec => []CInv
  BY ApartOrder, CalmKeeps, PTL
<1>2. CInv => NoGhostUsed
  BY CalmRest
<1> QED BY <1>1, <1>2, PTL

(* The same of calm requests that overlap about one content, purges alone    *)
(* with theirs and merge locks kept.  A rollback's DecreaseRefCount, silent  *)
(* at 1, never meets a count of 1 then: the entry it rolled back was never   *)
(* the only reason for the object to exist.                                  *)
THEOREM SharedCountsExact ==
    Calm /\ "lease" \notin Faults => (PurgesApartSpec => []CountsExactAtRest)
<1> SUFFICES ASSUME Calm, "lease" \notin Faults PROVE PurgesApartSpec => []CountsExactAtRest
  OBVIOUS
<1>1. PurgesApartSpec => []CInv
  BY LocksOrder, CalmKeeps, PTL
<1>2. CInv => CountsExactAtRest
  BY CalmRest
<1> QED BY <1>1, <1>2, PTL

(* A merge whose row is refused by another user's overlapping merge of the   *)
(* same hash takes its put back, and nobody else's.                          *)
THEOREM SharedNoOrphans ==
    Calm /\ "lease" \notin Faults => (PurgesApartSpec => []NoOrphansAtRest)
<1> SUFFICES ASSUME Calm, "lease" \notin Faults PROVE PurgesApartSpec => []NoOrphansAtRest
  OBVIOUS
<1>1. PurgesApartSpec => []CInv
  BY LocksOrder, CalmKeeps, PTL
<1>2. CInv => NoOrphansAtRest
  BY CalmRest
<1> QED BY <1>1, <1>2, PTL

(* The keys of a deleted row are gone before anyone looks the hash up again. *)
THEOREM SharedNoGhost ==
    Calm /\ "lease" \notin Faults => (PurgesApartSpec => []NoGhostUsed)
<1> SUFFICES ASSUME Calm, "lease" \notin Faults PROVE PurgesApartSpec => []NoGhostUsed
  OBVIOUS
<1>1. PurgesApartSpec => []CInv
  BY LocksOrder, CalmKeeps, PTL
<1>2. CInv => NoGhostUsed
  BY CalmRest
<1> QED BY <1>1, <1>2, PTL

=============================================================================

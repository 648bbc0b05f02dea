-------------------------- MODULE ObjectRefsProofs ---------------------------
(* Theorems about ObjectRefs, for every set of sessions and bound. *)
EXTENDS ObjectRefs, TLAPS, FiniteSetTheorems

(* The calls that work on req.obj and on req.hash. *)
ObjectSteps == {"fill", "avail", "inc", "entry", "dec", "dec_write", "row_cache",
                "undo_object", "undo_row", "repair_put", "repair_row", "copy_entry",
                "copy_inc", "purge_entry", "rm_read", "rm_object", "rm_row", "rm_cache"}

HashSteps == {"lookup", "fill", "avail", "inc", "entry", "put", "row", "put_undo",
              "row_cache", "undo_object", "undo_row", "repair_put", "repair_row"}

(* Ids held by requests, cached in Redis or pointed at by entries are ids of *)
(* rows that were inserted; the row of an entry is still there (foreign key).*)
Shape ==
    /\ \A s \in Sessions : pc[s] \in ObjectSteps => req[s].obj \in ObjectIds /\ object[req[s].obj] # Null
    /\ \A s \in Sessions : pc[s] \in HashSteps => req[s].hash \in Hashes
    /\ \A i \in cached : object[i] # Null
    /\ \A h \in Hashes : cachedId[h] # Null => object[cachedId[h]] # Null
    /\ \A e \in entries : file[e].object \in rows

(* A step that only moves its own request on. *)
LEMMA GotoKeeps ==
    ASSUME TypeOK, Shape, NEW s \in Sessions, NEW step \in Steps,
           step \in ObjectSteps => pc[s] \in ObjectSteps,
           step \in HashSteps => pc[s] \in HashSteps,
           Goto(s, step), UNCHANGED <<objectVars, fileVars, store, cacheVars, lease, left>>
    PROVE  TypeOK' /\ Shape'
  BY DEF TypeOK, Shape, Goto, Jump, objectVars, fileVars, cacheVars

(* A step that only ends its own request. *)
LEMMA ReturnKeeps ==
    ASSUME TypeOK, Shape, NEW s \in Sessions,
           Return(s), UNCHANGED <<objectVars, fileVars, store, cacheVars, left>>
    PROVE  TypeOK' /\ Shape'
  BY DEF TypeOK, Shape, Return, Jump, NoArgs, Args, objectVars, fileVars, cacheVars,
         Steps, ObjectSteps, HashSteps

(* Every step keeps the types and the ids. *)
LEMMA TypeStep ==
    ASSUME TypeOK, Shape, [Next]_vars
    PROVE  TypeOK' /\ Shape'
<1> USE ConstantsAssumption, NullAssumption DEF objectVars, fileVars, cacheVars, At, Goto, Jump, Hold, Args, NoArgs, Return, Steps
<1>1. ASSUME NEW s \in Sessions, FastUpload(s) PROVE TypeOK' /\ Shape'
  BY <1>1 DEF TypeOK, Shape, FastUpload, Begin, ObjectSteps, HashSteps
<1>2. ASSUME NEW s \in Sessions, MultipartComplete(s) PROVE TypeOK' /\ Shape'
  BY <1>2 DEF TypeOK, Shape, MultipartComplete, Begin, ObjectSteps, HashSteps
<1>3. ASSUME NEW s \in Sessions, CopyFile(s) PROVE TypeOK' /\ Shape'
  BY <1>3 DEF TypeOK, Shape, CopyFile, Begin, ObjectSteps, HashSteps
<1>4. ASSUME NEW s \in Sessions, DeleteFileRecord(s) PROVE TypeOK' /\ Shape'
  BY <1>4 DEF TypeOK, Shape, DeleteFileRecord, Begin, ObjectSteps, HashSteps
<1>5. ASSUME NEW s \in Sessions, MoveToRecycle(s) PROVE TypeOK' /\ Shape'
  BY <1>5 DEF TypeOK, Shape, MoveToRecycle, ObjectSteps, HashSteps
<1>6. ASSUME NEW s \in Sessions, RestoreFile(s) PROVE TypeOK' /\ Shape'
  BY <1>6 DEF TypeOK, Shape, RestoreFile, ObjectSteps, HashSteps
<1>7. ASSUME NEW s \in Sessions, LookupFound(s) PROVE TypeOK' /\ Shape'
  <2>1. req[s].hash \in Hashes
    BY <1>7 DEF Shape, LookupFound, HashSteps
  <2>2. PICK id \in Known(req[s].hash) : Hold(s, id, FALSE)
    BY <1>7 DEF LookupFound
  <2>3. id \in ObjectIds /\ object[id] # Null
    BY <2>1, <2>2 DEF Known, RowsWith, TypeOK, Shape
  <2> QED
    BY <1>7, <2>1, <2>2, <2>3 DEF TypeOK, Shape, LookupFound, ObjectSteps, HashSteps
<1>8. ASSUME NEW s \in Sessions, LookupNone(s) PROVE TypeOK' /\ Shape'
  <2>1. \/ Goto(s, "put") /\ UNCHANGED lease
        \/ Return(s)
    BY <1>8 DEF LookupNone
  <2>2. CASE Goto(s, "put") /\ UNCHANGED lease
    BY <1>8, <2>2 DEF TypeOK, Shape, LookupNone, ObjectSteps, HashSteps
  <2>3. CASE Return(s)
    BY <1>8, <2>3 DEF TypeOK, Shape, LookupNone, ObjectSteps, HashSteps
  <2> QED BY <2>1, <2>2, <2>3
<1>9. ASSUME NEW s \in Sessions, Fill(s) PROVE TypeOK' /\ Shape'
  BY <1>9 DEF TypeOK, Shape, Fill, CacheFileObject, ObjectSteps, HashSteps
<1>10. ASSUME NEW s \in Sessions, SizeMismatch(s) PROVE TypeOK' /\ Shape'
  BY <1>10 DEF TypeOK, Shape, SizeMismatch, ObjectSteps, HashSteps
<1>11. ASSUME NEW s \in Sessions, Available(s) PROVE TypeOK' /\ Shape'
  BY <1>11 DEF TypeOK, Shape, Available, ObjectSteps, HashSteps
<1>12. ASSUME NEW s \in Sessions, NotAvailable(s) PROVE TypeOK' /\ Shape'
  <2>1. \/ Goto(s, "repair_put") /\ UNCHANGED lease
        \/ Return(s)
    BY <1>12 DEF NotAvailable
  <2>2. CASE Goto(s, "repair_put") /\ UNCHANGED lease
    BY <1>12, <2>2, GotoKeeps DEF NotAvailable, ObjectSteps, HashSteps
  <2>3. CASE Return(s)
    BY <1>12, <2>3, ReturnKeeps DEF NotAvailable
  <2> QED BY <2>1, <2>2, <2>3
<1>13. ASSUME NEW s \in Sessions, RepairPut(s) PROVE TypeOK' /\ Shape'
  BY <1>13 DEF TypeOK, Shape, RepairPut, NameOf, ObjectSteps, HashSteps
<1>14. ASSUME NEW s \in Sessions, RepairRow(s) PROVE TypeOK' /\ Shape'
  BY <1>14 DEF TypeOK, Shape, RepairRow, CacheFileObject, ObjectSteps, HashSteps
<1>15. ASSUME NEW s \in Sessions, IncreaseRefCount(s) PROVE TypeOK' /\ Shape'
  BY <1>15 DEF TypeOK, Shape, IncreaseRefCount, AddRef, ObjectSteps, HashSteps
<1>16. ASSUME NEW s \in Sessions, CreateEntry(s) PROVE TypeOK' /\ Shape'
  BY <1>16 DEF TypeOK, Shape, CreateEntry, InsertFile, Fresh, ObjectSteps, HashSteps
<1>17. ASSUME NEW s \in Sessions, CreateEntryFails(s) PROVE TypeOK' /\ Shape'
  BY <1>17 DEF TypeOK, Shape, CreateEntryFails, ObjectSteps, HashSteps
<1>18. ASSUME NEW s \in Sessions, PutObject(s) PROVE TypeOK' /\ Shape'
  BY <1>18 DEF TypeOK, Shape, PutObject, ObjectSteps, HashSteps
<1>19. ASSUME NEW s \in Sessions, CreateFilesObject(s) PROVE TypeOK' /\ Shape'
  BY <1>19 DEF TypeOK, Shape, CreateFilesObject, Fresh, RowsWith, ObjectSteps, HashSteps
<1>20. ASSUME NEW s \in Sessions, CreateFilesObjectFails(s) PROVE TypeOK' /\ Shape'
  BY <1>20 DEF TypeOK, Shape, CreateFilesObjectFails, ObjectSteps, HashSteps
<1>21. ASSUME NEW s \in Sessions, CacheNewObject(s) PROVE TypeOK' /\ Shape'
  BY <1>21 DEF TypeOK, Shape, CacheNewObject, CacheFileObject, ObjectSteps, HashSteps
<1>22. ASSUME NEW s \in Sessions, UndoPut(s) PROVE TypeOK' /\ Shape'
  BY <1>22 DEF TypeOK, Shape, UndoPut, Discard, ObjectSteps, HashSteps
<1>23. ASSUME NEW s \in Sessions, UndoObject(s) PROVE TypeOK' /\ Shape'
  BY <1>23 DEF TypeOK, Shape, UndoObject, Discard, ObjectSteps, HashSteps
<1>24. ASSUME NEW s \in Sessions, UndoRow(s) PROVE TypeOK' /\ Shape'
  BY <1>24 DEF TypeOK, Shape, UndoRow, DeleteRow, EntriesOf, ObjectSteps, HashSteps
<1>25. ASSUME NEW s \in Sessions, CopyEntry(s) PROVE TypeOK' /\ Shape'
  BY <1>25 DEF TypeOK, Shape, CopyEntry, InsertFile, Fresh, ObjectSteps, HashSteps
<1>26. ASSUME NEW s \in Sessions, CopyEntryFails(s) PROVE TypeOK' /\ Shape'
  BY <1>26 DEF TypeOK, Shape, CopyEntryFails, ObjectSteps, HashSteps
<1>27. ASSUME NEW s \in Sessions, CopyIncrease(s) PROVE TypeOK' /\ Shape'
  BY <1>27 DEF TypeOK, Shape, CopyIncrease, AddRef, ObjectSteps, HashSteps
<1>28. ASSUME NEW s \in Sessions, PurgeEntry(s) PROVE TypeOK' /\ Shape'
  BY <1>28 DEF TypeOK, Shape, PurgeEntry, ObjectSteps, HashSteps
<1>29. ASSUME NEW s \in Sessions, RemoveRead(s) PROVE TypeOK' /\ Shape'
  <2>1. \/ Goto(s, "dec") /\ UNCHANGED lease
        \/ Return(s)
    BY <1>29 DEF RemoveRead
  <2>2. CASE Goto(s, "dec") /\ UNCHANGED lease
    BY <1>29, <2>2, GotoKeeps DEF RemoveRead, ObjectSteps, HashSteps
  <2>3. CASE Return(s)
    BY <1>29, <2>3, ReturnKeeps DEF RemoveRead
  <2> QED BY <2>1, <2>2, <2>3
<1>30. ASSUME NEW s \in Sessions, DecreaseRead(s) PROVE TypeOK' /\ Shape'
  BY <1>30 DEF TypeOK, Shape, DecreaseRead, ObjectSteps, HashSteps
<1>31. ASSUME NEW s \in Sessions, DecreaseLast(s) PROVE TypeOK' /\ Shape'
  <2>1. \/ Goto(s, "rm_object") /\ UNCHANGED lease
        \/ Return(s)
    BY <1>31 DEF DecreaseLast
  <2>2. CASE Goto(s, "rm_object") /\ UNCHANGED lease
    BY <1>31, <2>2, GotoKeeps DEF DecreaseLast, ObjectSteps, HashSteps
  <2>3. CASE Return(s)
    BY <1>31, <2>3, ReturnKeeps DEF DecreaseLast
  <2> QED BY <2>1, <2>2, <2>3
<1>32. ASSUME NEW s \in Sessions, DecreaseWrite(s) PROVE TypeOK' /\ Shape'
  BY <1>32 DEF TypeOK, Shape, DecreaseWrite, AddRef, ObjectSteps, HashSteps
<1>33. ASSUME NEW s \in Sessions, DeleteMinioFile(s) PROVE TypeOK' /\ Shape'
  BY <1>33 DEF TypeOK, Shape, DeleteMinioFile, ObjectSteps, HashSteps
<1>34. ASSUME NEW s \in Sessions, RemoveRow(s) PROVE TypeOK' /\ Shape'
  <2>1. \/ Goto(s, "rm_cache") /\ UNCHANGED lease
        \/ Return(s)
    BY <1>34 DEF RemoveRow
  <2>2. CASE Goto(s, "rm_cache") /\ UNCHANGED lease
    BY <1>34, <2>2 DEF TypeOK, Shape, RemoveRow, DeleteRow, EntriesOf, ObjectSteps, HashSteps
  <2>3. CASE Return(s)
    BY <1>34, <2>3 DEF TypeOK, Shape, RemoveRow, DeleteRow, EntriesOf, ObjectSteps, HashSteps
  <2> QED BY <2>1, <2>2, <2>3
<1>35. ASSUME NEW s \in Sessions, RemoveCache(s) PROVE TypeOK' /\ Shape'
  BY <1>35 DEF TypeOK, Shape, RemoveCache, ObjectSteps, HashSteps
<1>36. ASSUME NEW s \in Sessions, Abort(s) PROVE TypeOK' /\ Shape'
  BY <1>36 DEF TypeOK, Shape, Abort, ObjectSteps, HashSteps
<1>37. ASSUME NEW s \in Sessions, LeaseExpires(s) PROVE TypeOK' /\ Shape'
  BY <1>37 DEF TypeOK, Shape, LeaseExpires, ObjectSteps, HashSteps
<1>38. CASE CacheExpires
  BY <1>38 DEF TypeOK, Shape, CacheExpires, ObjectSteps, HashSteps
<1>39. CASE UNCHANGED vars
  BY <1>39 DEF TypeOK, Shape, vars, ObjectSteps, HashSteps
<1> QED
  BY <1>1, <1>2, <1>3, <1>4, <1>5, <1>6, <1>7, <1>8, <1>9, <1>10, <1>11, <1>12, <1>13,
     <1>14, <1>15, <1>16, <1>17, <1>18, <1>19, <1>20, <1>21, <1>22, <1>23, <1>24, <1>25,
     <1>26, <1>27, <1>28, <1>29, <1>30, <1>31, <1>32, <1>33, <1>34, <1>35, <1>36, <1>37,
     <1>38, <1>39 DEF Next, Request, Step

(* Types, and referential integrity: no user_file row without its            *)
(* file_object row, no request or cache key with an id that never was.       *)
THEOREM TypeCorrect == Spec => [](TypeOK /\ Shape)
<1>1. Init => TypeOK /\ Shape
  BY ConstantsAssumption, NullAssumption
     DEF Init, TypeOK, Shape, NoArgs, Args, Steps, ObjectSteps, HashSteps
<1>2. TypeOK /\ Shape /\ [Next]_vars => (TypeOK /\ Shape)'
  BY TypeStep
<1> QED
  BY <1>1, <1>2, PTL DEF Spec

-----------------------------------------------------------------------------
(* The count against the entries: the inductive invariant. *)

(* Requests whose reference is in ref_count and has no entry (yet or any more). *)
Counted == {"row_cache", "entry", "dec", "dec_write", "rm_read"}
Holders(id) == {s \in Sessions : pc[s] \in Counted /\ req[s].obj = id}

(* ref_count, with what copies still owe, covers the entries and the         *)
(* references taken by requests that have no entry.  RefCovers alone is not  *)
(* inductive: a rollback's decrement could then lower the count below them.  *)
Balanced(id) == ref[id] + Cardinality(Debtors(id))
                    >= Cardinality(EntriesOf(id)) + Cardinality(Holders(id))
Balance == \A id \in rows : Balanced(id)

(* The entry a purge is about to delete lies in its owner's recycle bin. *)
Purging ==
    \A s \in Sessions : pc[s] = "purge_entry" =>
        /\ req[s].op = "purge"
        /\ req[s].file \in bin
        /\ file[req[s].file] = [user |-> UserOf[s], object |-> req[s].obj]

(* What the balance needs of that: the entry is there and shares the object. *)
Marked ==
    \A s \in Sessions : pc[s] = "purge_entry" =>
        /\ req[s].op = "purge"
        /\ req[s].file \in entries
        /\ file[req[s].file].object = req[s].obj

IInv == TypeOK /\ Shape /\ Balance /\ Marked

(* No two requests purge one entry. *)
PurgesDistinct ==
    \A s, t \in Sessions :
        pc[s] = "purge_entry" /\ pc[t] = "purge_entry" /\ req[s].file = req[t].file => s = t

(* What is counted is finite. *)
LEMMA Finite ==
    ASSUME TypeOK, NEW id
    PROVE  /\ IsFiniteSet(Debtors(id)) /\ Cardinality(Debtors(id)) \in Nat
           /\ IsFiniteSet(EntriesOf(id)) /\ Cardinality(EntriesOf(id)) \in Nat
           /\ IsFiniteSet(Holders(id)) /\ Cardinality(Holders(id)) \in Nat
<1>1. IsFiniteSet(FileIds) /\ IsFiniteSet(Sessions)
  BY ConstantsAssumption, FS_Interval DEF FileIds
<1>2. EntriesOf(id) \subseteq FileIds
  BY DEF EntriesOf, TypeOK
<1>3. Debtors(id) \subseteq Sessions /\ Holders(id) \subseteq Sessions
  BY DEF Debtors, Holders
<1> QED
  BY <1>1, <1>2, <1>3, FS_Subset, FS_CardinalityType

(* Every request but s stands still. *)
OthersKeep(s) == \A t \in Sessions \ {s} : pc'[t] = pc[t] /\ req'[t] = req[t]

(* A step that changes no count and no entry, and may only let go of references. *)
LEMMA QuietStep ==
    ASSUME TypeOK, TypeOK', Balance,
           NEW s \in Sessions, OthersKeep(s),
           rows' \subseteq rows, UNCHANGED <<ref, file, entries>>,
           pc[s] # "copy_inc",
           pc'[s] \in Counted => pc[s] \in Counted /\ req'[s].obj = req[s].obj
    PROVE  Balance'
<1>1. SUFFICES ASSUME NEW id \in rows PROVE Balanced(id)'
  BY <1>1 DEF Balance
<1>2. Holders(id)' \subseteq Holders(id)
  BY DEF Holders, OthersKeep
<1>3. Debtors(id) \subseteq Debtors(id)'
  BY DEF Debtors, OthersKeep, At
<1>4. EntriesOf(id)' = EntriesOf(id)
  BY DEF EntriesOf
<1>5. Cardinality(Holders(id)') <= Cardinality(Holders(id))
  BY <1>2, Finite, FS_Subset
<1>6. Cardinality(Debtors(id)) <= Cardinality(Debtors(id)')
  <2>1. IsFiniteSet(Debtors(id)')
    BY ConstantsAssumption, FS_Subset DEF Debtors
  <2> QED BY <2>1, <1>3, FS_Subset
<1>7. Cardinality(Debtors(id)') \in Nat /\ Cardinality(Holders(id)') \in Nat
  BY ConstantsAssumption, FS_Subset, FS_CardinalityType DEF Debtors, Holders
<1>8. id \in ObjectIds /\ ref[id] \in Int /\ Balanced(id)
  BY DEF TypeOK, Balance
<1> QED
  BY <1>4, <1>5, <1>6, <1>7, <1>8, Finite DEF Balanced

(* Counting a set that gains, keeps or loses one element. *)
LEMMA FlipCount ==
    ASSUME NEW S, IsFiniteSet(S), NEW T, NEW x,
           T = IF x \in T THEN S \cup {x} ELSE S \ {x}
    PROVE  Cardinality(T) = Cardinality(S) + (IF x \in T THEN 1 ELSE 0) - (IF x \in S THEN 1 ELSE 0)
<1>1. Cardinality(S) \in Nat
  BY FS_CardinalityType
<1>2. CASE x \in T
  <2>1. T = S \cup {x}
    BY <1>2
  <2> QED BY <1>1, <1>2, <2>1, FS_AddElement
<1>3. CASE x \notin T
  <2>1. T = S \ {x}
    BY <1>3
  <2> QED BY <1>1, <1>3, <2>1, FS_RemoveElement
<1> QED BY <1>2, <1>3

(* A step of s changes holders and debtors by s alone. *)
LEMMA SessionCounts ==
    ASSUME TypeOK, NEW s \in Sessions, OthersKeep(s), NEW id
    PROVE  /\ Cardinality(Holders(id)') = Cardinality(Holders(id))
                + (IF s \in Holders(id)' THEN 1 ELSE 0) - (IF s \in Holders(id) THEN 1 ELSE 0)
           /\ Cardinality(Debtors(id)') = Cardinality(Debtors(id))
                + (IF s \in Debtors(id)' THEN 1 ELSE 0) - (IF s \in Debtors(id) THEN 1 ELSE 0)
<1>1. Holders(id)' = IF s \in Holders(id)' THEN Holders(id) \cup {s} ELSE Holders(id) \ {s}
  BY DEF Holders, OthersKeep
<1>2. Debtors(id)' = IF s \in Debtors(id)' THEN Debtors(id) \cup {s} ELSE Debtors(id) \ {s}
  BY DEF Debtors, OthersKeep, At
<1>3. IsFiniteSet(Holders(id)) /\ IsFiniteSet(Debtors(id))
  BY Finite
<1>4. Cardinality(Holders(id)') = Cardinality(Holders(id))
         + (IF s \in Holders(id)' THEN 1 ELSE 0) - (IF s \in Holders(id) THEN 1 ELSE 0)
  BY <1>1, <1>3, FlipCount
<1>5. Cardinality(Debtors(id)') = Cardinality(Debtors(id))
         + (IF s \in Debtors(id)' THEN 1 ELSE 0) - (IF s \in Debtors(id) THEN 1 ELSE 0)
  BY <1>2, <1>3, FlipCount
<1> QED
  BY <1>4, <1>5

(* What an insert into user_file does to the entries of each object. *)
LEMMA InsertCounts ==
    ASSUME TypeOK, NEW s \in Sessions, NEW o \in ObjectIds, InsertFile(s, o), NEW id
    PROVE  /\ entries \subseteq entries' /\ \A e \in entries : file'[e] = file[e]
           /\ Cardinality(EntriesOf(id)') =
                 IF id = o THEN Cardinality(EntriesOf(id)) + 1 ELSE Cardinality(EntriesOf(id))
<1>1. PICK e \in Fresh(file) :
        /\ file' = [file EXCEPT ![e] = [user |-> UserOf[s], object |-> o]]
        /\ entries' = entries \cup {e}
  BY DEF InsertFile
<1>2. e \in FileIds /\ e \notin entries
  BY <1>1 DEF Fresh, TypeOK
<1>3. \A f \in entries : file'[f] = file[f]
  BY <1>1, <1>2 DEF TypeOK
<1>4. EntriesOf(id)' = IF id = o THEN EntriesOf(id) \cup {e} ELSE EntriesOf(id)
  <2>1. file'[e].object = o
    BY <1>1, <1>2 DEF TypeOK
  <2> QED BY <1>1, <1>2, <1>3, <2>1 DEF EntriesOf
<1>5. e \notin EntriesOf(id)
  BY <1>2 DEF EntriesOf
<1>6. Cardinality(EntriesOf(id) \cup {e}) = Cardinality(EntriesOf(id)) + 1
  BY <1>5, Finite, FS_AddElement
<1> QED
  BY <1>1, <1>3, <1>4, <1>6

-----------------------------------------------------------------------------
(* The steps that move a reference between ref_count, a request and an entry. *)
Loud(s) == \/ IncreaseRefCount(s) \/ CreateEntry(s) \/ CreateFilesObject(s)
           \/ CopyEntry(s) \/ CopyIncrease(s) \/ PurgeEntry(s) \/ DecreaseWrite(s)

(* A request changes its own call and arguments only. *)
LEMMA StepIsLocal ==
    ASSUME TypeOK, NEW s \in Sessions, Request(s) \/ Step(s) \/ Abort(s) \/ LeaseExpires(s)
    PROVE  OthersKeep(s)
  BY DEF TypeOK, OthersKeep, Request, FastUpload, MultipartComplete, CopyFile, DeleteFileRecord,
         MoveToRecycle, RestoreFile, Begin, Step, LookupFound, LookupNone, Fill, SizeMismatch,
         Available, NotAvailable, RepairPut, RepairRow, IncreaseRefCount, CreateEntry,
         CreateEntryFails, PutObject, CreateFilesObject, CreateFilesObjectFails, CacheNewObject,
         UndoPut, UndoObject, UndoRow, CopyEntry, CopyEntryFails, CopyIncrease, PurgeEntry,
         RemoveRead, DecreaseRead, DecreaseLast, DecreaseWrite, DeleteMinioFile, RemoveRow,
         RemoveCache, Abort, LeaseExpires, Jump, Goto, Return, Hold

(* Each of them keeps the balance. *)
LEMMA LoudStep ==
    ASSUME IInv, TypeOK', NEW s \in Sessions, OthersKeep(s), Loud(s)
    PROVE  Balance'
<1> DEFINE o == req[s].obj
<1> USE DEF IInv
<1>0. /\ \A id : /\ Cardinality(Holders(id)) \in Nat
                 /\ Cardinality(Debtors(id)) \in Nat
                 /\ Cardinality(EntriesOf(id)) \in Nat
      /\ ref \in [ObjectIds -> Int] /\ rows \subseteq ObjectIds
  BY Finite DEF TypeOK
<1>1. CASE IncreaseRefCount(s)
  <2>1. /\ pc[s] = "inc" /\ pc'[s] = "entry" /\ UNCHANGED <<req, rows, entries, file>>
        /\ \A id \in rows : ref'[id] = IF id = o THEN ref[id] + 1 ELSE ref[id]
    BY <1>1, <1>0 DEF IncreaseRefCount, AddRef, At, Goto, Jump, TypeOK, fileVars
  <2>2. ASSUME NEW id \in rows PROVE Balanced(id)'
    <3>1. s \notin Holders(id) /\ (s \in Holders(id)' <=> id = o)
      BY <2>1 DEF Holders, Counted
    <3>2. s \notin Debtors(id) /\ s \notin Debtors(id)'
      BY <2>1 DEF Debtors, At
    <3>3. EntriesOf(id)' = EntriesOf(id)
      BY <2>1 DEF EntriesOf
    <3> QED
      BY <1>0, <2>1, <3>1, <3>2, <3>3, SessionCounts DEF Balance, Balanced
  <2> QED
    BY <2>1, <2>2 DEF Balance
<1>2. CASE CreateEntry(s)
  <2>1. /\ pc[s] = "entry" /\ pc'[s] = "idle" /\ UNCHANGED <<rows, ref>>
        /\ o \in rows /\ InsertFile(s, o)
    BY <1>2 DEF CreateEntry, InsertFile, At, Return, Jump, TypeOK, objectVars
  <2>2. ASSUME NEW id \in rows PROVE Balanced(id)'
    <3>1. s \notin Holders(id)' /\ (s \in Holders(id) <=> id = o)
      BY <2>1 DEF Holders, Counted
    <3>2. s \notin Debtors(id) /\ s \notin Debtors(id)'
      BY <2>1 DEF Debtors, At
    <3>3. Cardinality(EntriesOf(id)') =
            IF id = o THEN Cardinality(EntriesOf(id)) + 1 ELSE Cardinality(EntriesOf(id))
      BY <1>0, <2>1, InsertCounts
    <3> QED
      BY <1>0, <2>1, <3>1, <3>2, <3>3, SessionCounts DEF Balance, Balanced
  <2> QED
    BY <1>0, <2>1, <2>2, InsertCounts DEF Balance
<1>3. CASE CreateFilesObject(s)
  <2>1. PICK n \in Fresh(object) :
          /\ object' = [object EXCEPT ![n] = [hash |-> req[s].hash, owner |-> UserOf[s]]]
          /\ rows' = rows \cup {n}
          /\ ref' = [ref EXCEPT ![n] = 1]
          /\ Hold(s, n, TRUE)
    BY <1>3 DEF CreateFilesObject
  <2>2. /\ pc[s] = "row" /\ pc'[s] = "row_cache" /\ UNCHANGED <<entries, file>>
    BY <1>3 DEF CreateFilesObject, At, Jump, TypeOK, fileVars
  <2>3. n \in ObjectIds /\ object[n] = Null /\ n \notin rows
    BY <2>1 DEF Fresh, TypeOK
  <2>4. req'[s].obj = n
    BY <2>1 DEF Hold, Args, TypeOK
  <2>5. ASSUME NEW id \in rows' PROVE Balanced(id)'
    <3>1. s \notin Holders(id) /\ (s \in Holders(id)' <=> id = n)
      BY <2>2, <2>4 DEF Holders, Counted
    <3>2. s \notin Debtors(id) /\ s \notin Debtors(id)'
      BY <2>2 DEF Debtors, At
    <3>3. EntriesOf(id)' = EntriesOf(id)
      BY <2>2 DEF EntriesOf
    <3>4. CASE id = n
      <4>1. EntriesOf(n) = {}
        BY <2>3 DEF EntriesOf, Shape
      <4>2. Holders(n) = {}
        BY <2>3 DEF Holders, Counted, Shape, ObjectSteps
      <4>3. Cardinality(EntriesOf(n)) = 0 /\ Cardinality(Holders(n)) = 0
        BY <4>1, <4>2, FS_EmptySet
      <4>4. ref'[id] = 1
        BY <3>4, <2>1, <2>3, <1>0
      <4> QED
        BY <3>4, <4>3, <4>4, <1>0, <3>1, <3>2, <3>3, SessionCounts DEF Balanced
    <3>5. CASE id # n
      <4>1. id \in rows /\ ref'[id] = ref[id] /\ ref[id] \in Int
        BY <3>5, <2>1, <2>3, <1>0
      <4> QED
        BY <3>5, <4>1, <1>0, <3>1, <3>2, <3>3, SessionCounts DEF Balance, Balanced
    <3> QED BY <3>4, <3>5
  <2> QED
    BY <2>2, <2>5 DEF Balance
<1>4. CASE CopyEntry(s)
  <2>1. /\ pc[s] = "copy_entry" /\ pc'[s] = "copy_inc" /\ UNCHANGED <<req, rows, ref>>
        /\ o \in rows /\ InsertFile(s, o)
    BY <1>4 DEF CopyEntry, InsertFile, At, Goto, Jump, TypeOK, objectVars
  <2>2. ASSUME NEW id \in rows PROVE Balanced(id)'
    <3>1. s \notin Holders(id)' /\ s \notin Holders(id)
      BY <2>1 DEF Holders, Counted
    <3>2. s \notin Debtors(id) /\ (s \in Debtors(id)' <=> id = o)
      BY <2>1 DEF Debtors, At
    <3>3. Cardinality(EntriesOf(id)') =
            IF id = o THEN Cardinality(EntriesOf(id)) + 1 ELSE Cardinality(EntriesOf(id))
      BY <1>0, <2>1, InsertCounts
    <3> QED
      BY <1>0, <2>1, <3>1, <3>2, <3>3, SessionCounts DEF Balance, Balanced
  <2> QED
    BY <1>0, <2>1, <2>2, InsertCounts DEF Balance
<1>5. CASE CopyIncrease(s)
  <2>1. /\ pc[s] = "copy_inc" /\ pc'[s] = "idle" /\ UNCHANGED <<rows, entries, file>>
        /\ \A id \in rows : ref'[id] = IF id = o THEN ref[id] + 1 ELSE ref[id]
    BY <1>5, <1>0 DEF CopyIncrease, AddRef, At, Return, Jump, TypeOK, fileVars
  <2>2. ASSUME NEW id \in rows PROVE Balanced(id)'
    <3>1. s \notin Holders(id) /\ s \notin Holders(id)'
      BY <2>1 DEF Holders, Counted
    <3>2. s \notin Debtors(id)' /\ (s \in Debtors(id) <=> id = o)
      BY <2>1 DEF Debtors, At
    <3>3. EntriesOf(id)' = EntriesOf(id)
      BY <2>1 DEF EntriesOf
    <3> QED
      BY <1>0, <2>1, <3>1, <3>2, <3>3, SessionCounts DEF Balance, Balanced
  <2> QED
    BY <2>1, <2>2 DEF Balance
<1>6. CASE PurgeEntry(s)
  <2> DEFINE e == req[s].file
  <2>1. /\ pc[s] = "purge_entry" /\ pc'[s] = "rm_read" /\ UNCHANGED <<req, rows, ref, file>>
        /\ entries' = entries \ {e}
    BY <1>6 DEF PurgeEntry, At, Goto, Jump, TypeOK, objectVars
  <2>2. e \in entries /\ file[e].object = o
    BY <2>1 DEF Marked
  <2>3. ASSUME NEW id \in rows PROVE Balanced(id)'
    <3>1. s \notin Holders(id) /\ (s \in Holders(id)' <=> id = o)
      BY <2>1 DEF Holders, Counted
    <3>2. s \notin Debtors(id) /\ s \notin Debtors(id)'
      BY <2>1 DEF Debtors, At
    <3>3. EntriesOf(id)' = EntriesOf(id) \ {e}
      BY <2>1 DEF EntriesOf
    <3>4. e \in EntriesOf(id) <=> id = o
      BY <2>2 DEF EntriesOf
    <3>5. Cardinality(EntriesOf(id)') =
            IF id = o THEN Cardinality(EntriesOf(id)) - 1 ELSE Cardinality(EntriesOf(id))
      <4>1. IsFiniteSet(EntriesOf(id))
        BY Finite
      <4>2. Cardinality(EntriesOf(id) \ {e}) =
              IF e \in EntriesOf(id) THEN Cardinality(EntriesOf(id)) - 1 ELSE Cardinality(EntriesOf(id))
        BY <4>1, FS_RemoveElement
      <4> QED BY <3>3, <3>4, <4>2
    <3> QED
      BY <1>0, <2>1, <3>1, <3>2, <3>5, SessionCounts DEF Balance, Balanced
  <2> QED
    BY <2>1, <2>3 DEF Balance
<1>7. CASE DecreaseWrite(s)
  <2>1. /\ pc[s] = "dec_write" /\ pc'[s] = "idle" /\ UNCHANGED <<rows, entries, file>>
        /\ \A id \in rows : ref'[id] = IF id = o THEN ref[id] - 1 ELSE ref[id]
    BY <1>7, <1>0 DEF DecreaseWrite, AddRef, At, Return, Jump, TypeOK, fileVars
  <2>2. ASSUME NEW id \in rows PROVE Balanced(id)'
    <3>1. s \notin Holders(id)' /\ (s \in Holders(id) <=> id = o)
      BY <2>1 DEF Holders, Counted
    <3>2. s \notin Debtors(id)' /\ s \notin Debtors(id)
      BY <2>1 DEF Debtors, At
    <3>3. EntriesOf(id)' = EntriesOf(id)
      BY <2>1 DEF EntriesOf
    <3> QED
      BY <1>0, <2>1, <3>1, <3>2, <3>3, SessionCounts DEF Balance, Balanced
  <2> QED
    BY <2>1, <2>2 DEF Balance
<1> QED
  BY <1>1, <1>2, <1>3, <1>4, <1>5, <1>6, <1>7 DEF Loud

(* What QuietStep asks of a step. *)
Quiet(s) ==
    /\ rows' \subseteq rows
    /\ UNCHANGED <<ref, file, entries>>
    /\ pc[s] # "copy_inc"
    /\ pc'[s] \in Counted => pc[s] \in Counted /\ req'[s].obj = req[s].obj

(* All other steps of a request are quiet. *)
LEMMA QuietActions ==
    ASSUME IInv, CopiesComplete, NEW s \in Sessions, Step(s) \/ Abort(s), ~ Loud(s)
    PROVE  Quiet(s)
<1> USE DEF Quiet, Counted, objectVars, fileVars, At, Goto, Jump, Return, IInv
<1>1. CASE LookupFound(s)
  BY <1>1 DEF LookupFound, Hold, TypeOK
<1>2. CASE LookupNone(s)
  BY <1>2 DEF LookupNone, TypeOK
<1>3. CASE Fill(s)
  BY <1>3 DEF Fill, TypeOK
<1>4. CASE SizeMismatch(s)
  BY <1>4 DEF SizeMismatch, TypeOK
<1>5. CASE Available(s)
  BY <1>5 DEF Available, TypeOK
<1>6. CASE NotAvailable(s)
  BY <1>6 DEF NotAvailable, TypeOK
<1>7. CASE RepairPut(s)
  BY <1>7 DEF RepairPut, TypeOK
<1>8. CASE RepairRow(s)
  BY <1>8 DEF RepairRow, TypeOK
<1>9. CASE CreateEntryFails(s)
  BY <1>9 DEF CreateEntryFails, TypeOK
<1>10. CASE PutObject(s)
  BY <1>10 DEF PutObject, TypeOK
<1>11. CASE CreateFilesObjectFails(s)
  BY <1>11 DEF CreateFilesObjectFails, TypeOK
<1>12. CASE CacheNewObject(s)
  BY <1>12 DEF CacheNewObject, TypeOK
<1>13. CASE UndoPut(s)
  BY <1>13 DEF UndoPut, TypeOK
<1>14. CASE UndoObject(s)
  BY <1>14 DEF UndoObject, TypeOK
<1>15. CASE UndoRow(s)
  BY <1>15 DEF UndoRow, DeleteRow, TypeOK
<1>16. CASE CopyEntryFails(s)
  BY <1>16 DEF CopyEntryFails, TypeOK
<1>17. CASE RemoveRead(s)
  BY <1>17 DEF RemoveRead, TypeOK
<1>18. CASE DecreaseRead(s)
  BY <1>18 DEF DecreaseRead, TypeOK
<1>19. CASE DecreaseLast(s)
  BY <1>19 DEF DecreaseLast, TypeOK
<1>20. CASE DeleteMinioFile(s)
  BY <1>20 DEF DeleteMinioFile, TypeOK
<1>21. CASE RemoveRow(s)
  BY <1>21 DEF RemoveRow, DeleteRow, TypeOK
<1>22. CASE RemoveCache(s)
  BY <1>22 DEF RemoveCache, TypeOK
<1>23. CASE Abort(s)
  <2>1. pc[s] # "copy_inc"
    BY <1>23 DEF CopiesComplete, Abort, At
  <2> QED BY <1>23, <2>1 DEF Abort, TypeOK
<1> QED
  BY <1>1, <1>2, <1>3, <1>4, <1>5, <1>6, <1>7, <1>8, <1>9, <1>10, <1>11, <1>12, <1>13,
     <1>14, <1>15, <1>16, <1>17, <1>18, <1>19, <1>20, <1>21, <1>22, <1>23 DEF Step, Loud

(* Requests that begin, and the ones of a single UPDATE, keep the balance. *)
LEMMA RequestStep ==
    ASSUME IInv, TypeOK', NEW s \in Sessions, OthersKeep(s), Request(s) \/ LeaseExpires(s)
    PROVE  Balance'
<1> USE DEF IInv
<1>1. CASE FastUpload(s) \/ MultipartComplete(s)
  <2>1. Quiet(s)
    BY <1>1 DEF FastUpload, MultipartComplete, Begin, Jump, At, objectVars, fileVars,
       TypeOK, Quiet, Counted
  <2> QED BY <2>1, QuietStep DEF Quiet
<1>2. CASE CopyFile(s)
  <2>1. Quiet(s)
    BY <1>2 DEF CopyFile, Begin, Args, Jump, At, objectVars, fileVars, TypeOK, Quiet, Counted
  <2> QED BY <2>1, QuietStep DEF Quiet
<1>3. CASE DeleteFileRecord(s)
  <2>1. Quiet(s)
    BY <1>3 DEF DeleteFileRecord, Begin, Args, Jump, At, objectVars, fileVars, TypeOK,
       Quiet, Counted
  <2> QED BY <2>1, QuietStep DEF Quiet
<1>4. CASE MoveToRecycle(s) \/ RestoreFile(s) \/ LeaseExpires(s)
  <2>1. UNCHANGED <<pc, req, rows, ref, file, entries>>
    BY <1>4 DEF MoveToRecycle, RestoreFile, LeaseExpires, objectVars, fileVars
  <2> QED BY <2>1 DEF Balance, Balanced, Holders, Debtors, EntriesOf, At
<1> QED
  BY <1>1, <1>2, <1>3, <1>4 DEF Request

-----------------------------------------------------------------------------
(* Who may touch an entry that is being purged. *)
LEMMA PurgingKeeps ==
    ASSUME Purging, NEW s \in Sessions, OthersKeep(s), bin \subseteq bin',
           \A e \in bin : file'[e] = file[e], pc'[s] # "purge_entry"
    PROVE  Purging'
  BY DEF Purging, OthersKeep

(* With one session for each user nobody touches the entry meanwhile. *)
LEMMA PurgingStep ==
    ASSUME TypeOK, Shape, Purging, OnePurgePerUser, [Next]_vars
    PROVE  Purging'
<1>1. CASE \E s \in Sessions : Request(s) \/ Step(s) \/ Abort(s) \/ LeaseExpires(s)
  <2>1. PICK s \in Sessions : Request(s) \/ Step(s) \/ Abort(s) \/ LeaseExpires(s)
    BY <1>1
  <2>2. OthersKeep(s)
    BY <2>1, StepIsLocal
  <2>3. ASSUME NEW t \in Sessions, NEW u \in Sessions, pc[t] = "purge_entry", UserOf[t] = UserOf[u]
        PROVE  t = u
    <3>1. req[t].op = "purge" /\ req[t].op \in Ops \cup {Null}
      BY <2>3 DEF Purging, TypeOK
    <3>2. "purge" \in Ops
      BY <3>1, NullAssumption DEF OpNames
    <3> QED BY <2>3, <3>2 DEF OnePurgePerUser
  <2>4. CASE PurgeEntry(s)
    <3>1. /\ pc[s] = "purge_entry" /\ pc'[s] # "purge_entry" /\ file' = file
          /\ bin' = bin \ {req[s].file}
      BY <2>4 DEF PurgeEntry, At, Goto, Jump, TypeOK
    <3>2. ASSUME NEW t \in Sessions, pc'[t] = "purge_entry"
          PROVE  /\ req'[t].op = "purge" /\ req'[t].file \in bin'
                 /\ file'[req'[t].file] = [user |-> UserOf[t], object |-> req'[t].obj]
      <4>1. t # s /\ pc[t] = "purge_entry" /\ req'[t] = req[t]
        BY <3>1, <3>2, <2>2 DEF OthersKeep
      <4>2. file[req[t].file] = [user |-> UserOf[t], object |-> req[t].obj]
        BY <4>1 DEF Purging
      <4>3. file[req[s].file] = [user |-> UserOf[s], object |-> req[s].obj]
        BY <3>1 DEF Purging
      <4>4. file[req[t].file].user = UserOf[t] /\ file[req[s].file].user = UserOf[s]
        BY <4>2, <4>3
      <4>5. req[t].file # req[s].file
        BY <4>1, <4>4, <2>3
      <4> QED BY <3>1, <4>1, <4>5 DEF Purging
    <3> QED BY <3>2 DEF Purging
  <2>5. CASE RestoreFile(s)
    <3>1. PICK e \in bin : file[e].user = UserOf[s] /\ bin' = bin \ {e}
      BY <2>5 DEF RestoreFile
    <3>2. pc[s] = "idle" /\ UNCHANGED <<pc, req, file>>
      BY <2>5 DEF RestoreFile, At
    <3>3. ASSUME NEW t \in Sessions, pc[t] = "purge_entry" PROVE req[t].file \in bin'
      <4>1. file[req[t].file] = [user |-> UserOf[t], object |-> req[t].obj] /\ req[t].file \in bin
        BY <3>3 DEF Purging
      <4>2. file[req[t].file].user = UserOf[t]
        BY <4>1
      <4> QED BY <3>1, <3>2, <3>3, <4>1, <4>2, <2>3
    <3> QED BY <3>2, <3>3 DEF Purging
  <2>6. CASE DeleteFileRecord(s)
    <3>1. PICK e \in bin : /\ file[e].user = UserOf[s]
                           /\ req' = [req EXCEPT ![s] = Args("purge", Null, file[e].object, e, FALSE)]
      BY <2>6 DEF DeleteFileRecord, Begin
    <3>2. UNCHANGED <<file, bin>>
      BY <2>6 DEF DeleteFileRecord, fileVars
    <3>3. file[e] = [user |-> UserOf[s], object |-> file[e].object]
      BY <3>1 DEF TypeOK
    <3>4. req'[s].op = "purge" /\ req'[s].file = e /\ req'[s].obj = file[e].object
      BY <3>1 DEF TypeOK, Args
    <3> QED BY <2>2, <3>2, <3>3, <3>4 DEF Purging, OthersKeep
  <2>7. CASE CreateEntry(s) \/ CopyEntry(s)
    <3>1. InsertFile(s, req[s].obj) /\ req[s].obj \in rows /\ UNCHANGED bin
      BY <2>7 DEF CreateEntry, CopyEntry, InsertFile
    <3>2. \A e \in entries : file'[e] = file[e]
      BY <3>1, InsertCounts DEF TypeOK
    <3>3. pc'[s] # "purge_entry"
      BY <2>7 DEF CreateEntry, CopyEntry, Goto, Return, Jump, TypeOK
    <3> QED BY <2>2, <3>1, <3>2, <3>3, PurgingKeeps DEF TypeOK
  <2>8. CASE MoveToRecycle(s)
    BY <2>8, <2>2 DEF MoveToRecycle, Purging
  <2>9. CASE FastUpload(s) \/ MultipartComplete(s) \/ CopyFile(s)
    <3>1. pc'[s] # "purge_entry" /\ UNCHANGED <<file, bin>>
      BY <2>9 DEF FastUpload, MultipartComplete, CopyFile, Begin, Jump, TypeOK, fileVars
    <3> QED BY <2>2, <3>1, PurgingKeeps
  <2>10. CASE LeaseExpires(s)
    BY <2>10 DEF LeaseExpires, Purging, fileVars
  <2>11. CASE (Step(s) \/ Abort(s)) /\ ~ (PurgeEntry(s) \/ CreateEntry(s) \/ CopyEntry(s))
    <3>1. pc'[s] # "purge_entry" /\ UNCHANGED <<file, bin>>
      BY <2>11 DEF Step, LookupFound, LookupNone, Fill, SizeMismatch, Available, NotAvailable,
         RepairPut, RepairRow, IncreaseRefCount, CreateEntryFails, PutObject, CreateFilesObject,
         CreateFilesObjectFails, CacheNewObject, UndoPut, UndoObject, UndoRow, CopyEntryFails,
         CopyIncrease, RemoveRead, DecreaseRead, DecreaseLast, DecreaseWrite, DeleteMinioFile,
         RemoveRow, RemoveCache, Abort, Jump, Goto, Return, TypeOK, fileVars
    <3> QED BY <2>2, <3>1, PurgingKeeps
  <2> QED
    BY <2>1, <2>4, <2>5, <2>6, <2>7, <2>8, <2>9, <2>10, <2>11 DEF Request
<1>2. CASE CacheExpires \/ UNCHANGED vars
  BY <1>2 DEF CacheExpires, vars, fileVars, Purging
<1> QED
  BY <1>1, <1>2 DEF Next

(* One session for each user: no two purges of one entry. *)
LEMMA OneOwner ==
    ASSUME TypeOK, Purging, OnePurgePerUser
    PROVE  PurgesDistinct
<1> SUFFICES ASSUME NEW s \in Sessions, NEW t \in Sessions, pc[s] = "purge_entry",
                    pc[t] = "purge_entry", req[s].file = req[t].file
             PROVE  s = t
  BY DEF PurgesDistinct
<1>1. /\ req[s].op = "purge" /\ req[s].op \in Ops \cup {Null}
      /\ file[req[s].file] = [user |-> UserOf[s], object |-> req[s].obj]
      /\ file[req[t].file] = [user |-> UserOf[t], object |-> req[t].obj]
  BY DEF Purging, TypeOK
<1>2. UserOf[s] = UserOf[t]
  BY <1>1
<1> QED BY <1>1, <1>2, NullAssumption DEF OnePurgePerUser, OpNames

(* What is marked goes with its own purge only. *)
LEMMA MarkedStep ==
    ASSUME TypeOK, Shape, Marked, PurgesDistinct, [Next]_vars
    PROVE  Marked'
<1>1. CASE \E s \in Sessions : Request(s) \/ Step(s) \/ Abort(s) \/ LeaseExpires(s)
  <2>1. PICK s \in Sessions : Request(s) \/ Step(s) \/ Abort(s) \/ LeaseExpires(s)
    BY <1>1
  <2>2. OthersKeep(s)
    BY <2>1, StepIsLocal
  <2>3. ASSUME entries \subseteq entries', \A e \in entries : file'[e] = file[e], pc'[s] # "purge_entry"
        PROVE  Marked'
    BY <2>2, <2>3 DEF Marked, OthersKeep
  <2>4. CASE PurgeEntry(s)
    <3>1. /\ pc[s] = "purge_entry" /\ pc'[s] # "purge_entry" /\ file' = file
          /\ entries' = entries \ {req[s].file}
      BY <2>4 DEF PurgeEntry, At, Goto, Jump, TypeOK
    <3>2. ASSUME NEW t \in Sessions, pc'[t] = "purge_entry"
          PROVE  t # s /\ pc[t] = "purge_entry" /\ req'[t] = req[t] /\ req[t].file # req[s].file
      BY <2>2, <3>1, <3>2 DEF OthersKeep, PurgesDistinct
    <3> QED BY <3>1, <3>2 DEF Marked
  <2>5. CASE DeleteFileRecord(s)
    <3>1. PICK e \in bin : req' = [req EXCEPT ![s] = Args("purge", Null, file[e].object, e, FALSE)]
      BY <2>5 DEF DeleteFileRecord, Begin
    <3>2. UNCHANGED <<file, entries>> /\ bin \subseteq entries
      BY <2>5 DEF DeleteFileRecord, fileVars, TypeOK
    <3>3. req'[s].op = "purge" /\ req'[s].file = e /\ req'[s].obj = file[e].object
      BY <3>1 DEF TypeOK, Args
    <3> QED BY <2>2, <3>2, <3>3 DEF Marked, OthersKeep
  <2>6. CASE CreateEntry(s) \/ CopyEntry(s)
    <3>1. InsertFile(s, req[s].obj) /\ req[s].obj \in rows
      BY <2>6 DEF CreateEntry, CopyEntry, InsertFile
    <3>2. entries \subseteq entries' /\ \A e \in entries : file'[e] = file[e]
      BY <3>1, InsertCounts DEF TypeOK
    <3>3. pc'[s] # "purge_entry"
      BY <2>6 DEF CreateEntry, CopyEntry, Goto, Return, Jump, TypeOK
    <3> QED BY <2>3, <3>2, <3>3
  <2>7. CASE MoveToRecycle(s) \/ RestoreFile(s) \/ LeaseExpires(s)
    BY <2>7 DEF MoveToRecycle, RestoreFile, LeaseExpires, Marked, fileVars
  <2>8. CASE FastUpload(s) \/ MultipartComplete(s) \/ CopyFile(s)
    <3>1. pc'[s] # "purge_entry" /\ UNCHANGED <<file, entries>>
      BY <2>8 DEF FastUpload, MultipartComplete, CopyFile, Begin, Jump, TypeOK, fileVars
    <3> QED BY <2>3, <3>1
  <2>9. CASE (Step(s) \/ Abort(s)) /\ ~ (PurgeEntry(s) \/ CreateEntry(s) \/ CopyEntry(s))
    <3>1. pc'[s] # "purge_entry" /\ UNCHANGED <<file, entries>>
      BY <2>9 DEF Step, LookupFound, LookupNone, Fill, SizeMismatch, Available, NotAvailable,
         RepairPut, RepairRow, IncreaseRefCount, CreateEntryFails, PutObject, CreateFilesObject,
         CreateFilesObjectFails, CacheNewObject, UndoPut, UndoObject, UndoRow, CopyEntryFails,
         CopyIncrease, RemoveRead, DecreaseRead, DecreaseLast, DecreaseWrite, DeleteMinioFile,
         RemoveRow, RemoveCache, Abort, Jump, Goto, Return, TypeOK, fileVars
    <3> QED BY <2>3, <3>1
  <2> QED BY <2>1, <2>4, <2>5, <2>6, <2>7, <2>8, <2>9 DEF Request
<1>2. CASE CacheExpires \/ UNCHANGED vars
  BY <1>2 DEF CacheExpires, vars, fileVars, Marked
<1> QED BY <1>1, <1>2 DEF Next

(* The invariant is inductive. *)
LEMMA IInvStep ==
    ASSUME IInv, PurgesDistinct, CopiesComplete, [Next]_vars
    PROVE  IInv'
<1>1. TypeOK' /\ Shape' /\ Marked'
  BY TypeStep, MarkedStep DEF IInv
<1>2. CASE \E s \in Sessions : Request(s) \/ Step(s) \/ Abort(s) \/ LeaseExpires(s)
  <2>1. PICK s \in Sessions : Request(s) \/ Step(s) \/ Abort(s) \/ LeaseExpires(s)
    BY <1>2
  <2>2. OthersKeep(s)
    BY <2>1, StepIsLocal DEF IInv
  <2>3. CASE Loud(s)
    BY <1>1, <2>2, <2>3, LoudStep DEF IInv
  <2>4. CASE (Step(s) \/ Abort(s)) /\ ~ Loud(s)
    BY <1>1, <2>2, <2>4, QuietActions, QuietStep DEF IInv, Quiet
  <2>5. CASE Request(s) \/ LeaseExpires(s)
    BY <1>1, <2>2, <2>5, RequestStep DEF IInv
  <2> QED
    BY <2>1, <2>3, <2>4, <2>5
<1>3. CASE CacheExpires \/ UNCHANGED vars
  <2>1. UNCHANGED <<pc, req, rows, ref, file, entries>>
    BY <1>3 DEF CacheExpires, vars, objectVars, fileVars
  <2> QED
    BY <1>1, <2>1 DEF IInv, Balance, Balanced, Holders, Debtors, EntriesOf, At
<1> QED
  BY <1>2, <1>3 DEF Next

(* ref_count never falls below the entries that share an object, whatever    *)
(* uploads, rollbacks, copies and purges interleave, provided a user purges  *)
(* from one session and no copy breaks off between its two statements.  Both *)
(* provisos are needed: two sessions that purge the same entry both count it *)
(* off, and a copy that broke off is an entry nobody will count.             *)
THEOREM CountCovers ==
    OnePurgePerUser /\ CopiesComplete => (Spec => []RefCovers)
<1> SUFFICES ASSUME OnePurgePerUser, CopiesComplete PROVE Spec => []RefCovers
  OBVIOUS
<1>1. Init => IInv /\ Purging
  <2> SUFFICES ASSUME Init PROVE IInv /\ Purging
    OBVIOUS
  <2>1. TypeOK /\ Shape
    BY ConstantsAssumption, NullAssumption
       DEF Init, TypeOK, Shape, NoArgs, Args, Steps, ObjectSteps, HashSteps
  <2>2. rows = {} /\ \A s \in Sessions : pc[s] = "idle"
    BY DEF Init
  <2> QED
    BY <2>1, <2>2 DEF IInv, Balance, Marked, Purging
<1>2. IInv /\ Purging /\ [Next]_vars => (IInv /\ Purging)'
  BY IInvStep, OneOwner, PurgingStep DEF IInv
<1>3. IInv => RefCovers
  <2> SUFFICES ASSUME IInv, NEW id \in rows
               PROVE  ref[id] + Cardinality(Debtors(id)) >= Cardinality(EntriesOf(id))
    BY DEF RefCovers
  <2>1. Balanced(id) /\ ref[id] \in Int
    BY DEF IInv, Balance, TypeOK
  <2> QED
    BY <2>1, Finite DEF IInv, Balanced
<1> QED
  BY <1>1, <1>2, <1>3, PTL DEF Spec

(* With one session for each user, DeleteFileRecord deletes only entries     *)
(* that lie in the recycle bin at the moment of its DELETE, although it read *)
(* is_deleted in an earlier statement.                                       *)
THEOREM PurgeFromBinOnly ==
    OnePurgePerUser => (Spec => PurgesOnlyRecycled)
<1> SUFFICES ASSUME OnePurgePerUser PROVE Spec => PurgesOnlyRecycled
  OBVIOUS
<1> DEFINE Inv == TypeOK /\ Shape /\ Purging
<1>1. Init => Inv
  <2> SUFFICES ASSUME Init PROVE Inv
    OBVIOUS
  <2>1. TypeOK /\ Shape
    BY ConstantsAssumption, NullAssumption
       DEF Init, TypeOK, Shape, NoArgs, Args, Steps, ObjectSteps, HashSteps
  <2> QED
    BY <2>1 DEF Init, Purging
<1>2. Inv /\ [Next]_vars => Inv'
  BY TypeStep, PurgingStep
<1>3. Inv /\ [Next]_vars => [entries \ entries' \subseteq bin]_vars
  <2> SUFFICES ASSUME Inv, Next, NEW e \in entries, e \notin entries' PROVE e \in bin
    OBVIOUS
  <2>1. PICK s \in Sessions : Request(s) \/ Step(s) \/ Abort(s) \/ LeaseExpires(s)
    BY DEF Next, CacheExpires, fileVars
  <2>2. PurgeEntry(s)
    BY <2>1 DEF Request, Step, LookupFound, LookupNone, Fill, SizeMismatch, Available,
       NotAvailable, RepairPut, RepairRow, IncreaseRefCount, CreateEntry, CreateEntryFails,
       PutObject, CreateFilesObject, CreateFilesObjectFails, CacheNewObject, UndoPut, UndoObject,
       UndoRow, CopyEntry, CopyEntryFails, CopyIncrease, RemoveRead, DecreaseRead,
       DecreaseLast, DecreaseWrite, DeleteMinioFile, RemoveRow, RemoveCache, Abort, LeaseExpires,
       FastUpload, MultipartComplete, CopyFile, DeleteFileRecord, MoveToRecycle,
       RestoreFile, InsertFile, fileVars
  <2> QED
    BY <2>2 DEF PurgeEntry, At, Purging
<1> QED
  BY <1>1, <1>2, <1>3, PTL DEF Spec, PurgesOnlyRecycled

=============================================================================

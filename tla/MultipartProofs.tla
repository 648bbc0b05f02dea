--------------------------- MODULE MultipartProofs --------------------------
(* Theorems about Multipart, for any number of tabs, sessions and chunks. *)
EXTENDS Multipart, FiniteSetTheorems, WellFoundedInduction, TLAPS

Req == [cut : Cuts \cup {Null}, id : Ids \cup {Null}, todo : SUBSET Index,
        parts : SUBSET Chunks, clean : SUBSET Chunks]

WithId   == {"uploaded", "chunk", "put", "row", "count", "exists", "compose",
             "clean_rows", "clean_session", "purge_rows"}
Sending  == {"chunk", "put", "row"}
Counted  == {"exists", "compose"}

(* What the step a tab is at says of its local variables. *)
Fits(t) ==
    /\ pc[t] \notin {"idle"} \cup Purging => req[t].cut \in Cuts
    /\ pc[t] \in WithId => req[t].id \in Ids
    /\ req[t].id # Null => total[req[t].id] # 0
    /\ pc[t] \in Sending => req[t].todo # {}
    /\ pc[t] \in Counted => /\ \A k \in req[t].parts : k[1] = req[t].id
                            /\ Cardinality(req[t].parts) = PiecesOf[req[t].cut]
    /\ pc[t] = "idle" => req[t].id = Null

Shape ==
    /\ \A t \in Tabs : Fits(t)
    /\ \A id \in live : total[id] # 0
    /\ \A k \in rows : total[k[1]] # 0

Moved(t, step, args) ==
    /\ pc' = [pc EXCEPT ![t] = step]
    /\ req' = [req EXCEPT ![t] = args]

-----------------------------------------------------------------------------
LEMMA Nulls == Null \notin Ids /\ Null \notin Cuts /\ Null \notin Tabs
  BY ConstantsAssumption DEF Ids

LEMMA IndexType ==
    /\ Index \subseteq Nat
    /\ \A c \in Cuts : Pieces(c) \subseteq Index /\ PiecesOf[c] \in Nat \ {0}
  BY ConstantsAssumption DEF Index, Pieces

(* A set of naturals has a least element. *)
LEMMA Least ==
    ASSUME NEW S \in SUBSET Nat, S # {}
    PROVE  \E i \in S : \A j \in S : i <= j
<1> DEFINE R == {ss \in Nat \X Nat : ss[1] < ss[2]}
<1>1. IsWellFoundedOn(R, Nat)
  BY NatLessThanWellFounded DEF OpToRel
<1> HIDE DEF R
<1>2. PICK i \in S : \A j \in S : <<j, i>> \notin R
  BY <1>1, WFMin
<1>3. ASSUME NEW j \in S PROVE i <= j
  <2>1. <<j, i>> \in Nat \X Nat /\ i \in Nat /\ j \in Nat
    OBVIOUS
  <2>2. ~ (j < i)
    BY <1>2, <2>1 DEF R
  <2> QED BY <2>1, <2>2
<1> QED BY <1>3

LEMMA NextChunkType ==
    ASSUME TypeOK, Shape, NEW t \in Tabs, pc[t] \in Sending
    PROVE  NextChunk(t) \in req[t].todo /\ NextChunk(t) \in Index
<1>1. req[t].todo \subseteq Index /\ req[t].todo # {}
  BY DEF TypeOK, Shape, Fits
<1>2. \E i \in req[t].todo : \A j \in req[t].todo : i <= j
  BY <1>1, IndexType, Least
<1> QED BY <1>1, <1>2 DEF NextChunk

LEMMA MovedFacts ==
    ASSUME TypeOK, NEW t \in Tabs, NEW step, NEW args, Moved(t, step, args)
    PROVE  /\ pc'[t] = step /\ req'[t] = args
           /\ \A o \in Tabs \ {t} : pc'[o] = pc[o] /\ req'[o] = req[o]
           /\ step \in Steps => pc' \in [Tabs -> Steps]
           /\ args \in Req => req' \in [Tabs -> Req]
  BY DEF TypeOK, Moved, Req

(* A step of one tab: what it leaves to be shown. *)
LEMMA Frame ==
    ASSUME TypeOK, Shape, NEW t \in Tabs, NEW step \in Steps, NEW args \in Req, Moved(t, step, args),
           Fits(t)', live' \subseteq Ids, total' \in [Ids -> {0} \cup {PiecesOf[c] : c \in Cuts}],
           \A id \in Ids : total[id] # 0 => total'[id] # 0,
           \A id \in live' : total'[id] # 0,
           rows' \subseteq Chunks, \A k \in rows' : total'[k[1]] # 0,
           bytes' \in [Chunks -> Cuts \cup {Null}], lock' \in Tabs \cup {Null}, left' \in 0 .. MaxAttempts
    PROVE  TypeOK' /\ Shape'
<1>1. /\ pc' \in [Tabs -> Steps] /\ req' \in [Tabs -> Req]
      /\ \A o \in Tabs \ {t} : pc'[o] = pc[o] /\ req'[o] = req[o]
  BY MovedFacts
<1>2. ASSUME NEW o \in Tabs \ {t} PROVE Fits(o)'
  <2>1. Fits(o) /\ req[o].id \in Ids \cup {Null}
    BY DEF Shape, TypeOK
  <2>2. pc'[o] = pc[o] /\ req'[o] = req[o]
    BY <1>1
  <2> QED BY <2>1, <2>2 DEF Fits
<1> QED BY <1>1, <1>2 DEF TypeOK, Shape, Req

LEMMA ReqType ==
    ASSUME TypeOK, Shape, NEW t \in Tabs
    PROVE  /\ pc[t] \in Steps /\ req[t] \in Req /\ Fits(t) /\ NoArgs \in Req
           /\ req = [req EXCEPT ![t] = req[t]]
           /\ req[t].id \in Ids \cup {Null} /\ req[t].cut \in Cuts \cup {Null}
           /\ req[t].todo \subseteq Index /\ req[t].parts \subseteq Chunks /\ req[t].clean \subseteq Chunks
  BY DEF TypeOK, Shape, Req, NoArgs, Args

LEMMA StoresType ==
    ASSUME TypeOK, Shape
    PROVE  /\ live \subseteq Ids /\ total \in [Ids -> {0} \cup {PiecesOf[c] : c \in Cuts}]
           /\ \A id \in live : total[id] # 0
           /\ rows \subseteq Chunks /\ \A k \in rows : total[k[1]] # 0
           /\ bytes \in [Chunks -> Cuts \cup {Null}] /\ lock \in Tabs \cup {Null}
           /\ left \in 0 .. MaxAttempts /\ (left > 0 => left - 1 \in 0 .. MaxAttempts)
  BY ConstantsAssumption DEF TypeOK, Shape

(* The tab has its answer. *)
LEMMA ReturnType ==
    ASSUME TypeOK, Shape, NEW t \in Tabs, Return(t), total' = total, bytes' = bytes, left' = left,
           live' \subseteq live, rows' \subseteq rows
    PROVE  TypeOK' /\ Shape'
<1>1. Moved(t, "idle", NoArgs)
  BY DEF Return, Goto, Moved
<1>2. Fits(t)'
  BY <1>1, MovedFacts DEF Fits, NoArgs, Args, Purging, WithId, Sending, Counted
<1>3. lock' \in Tabs \cup {Null}
  BY StoresType DEF Return
<1>4. "idle" \in Steps /\ NoArgs \in Req
  BY ReqType DEF Steps
<1> QED BY <1>1, <1>2, <1>3, <1>4, StoresType, Frame

(* It goes on with its local variables or a new id. *)
LEMMA GoesOn ==
    ASSUME TypeOK, Shape, NEW t \in Tabs, NEW step \in Steps \ {"idle"}, NEW args \in Req,
           Moved(t, step, args), args.id # Null => total[args.id] # 0,
           step \in Purging \/ args.cut \in Cuts, step \in WithId => args.id \in Ids,
           step \in Sending => args.todo # {},
           step \in Counted => /\ \A k \in args.parts : k[1] = args.id
                               /\ Cardinality(args.parts) = PiecesOf[args.cut],
           UNCHANGED total, lock' \in {lock, t}, live' \subseteq live, left' \in {left, left - 1},
           left' = left \/ left > 0, bytes' \in [Chunks -> Cuts \cup {Null}],
           rows' \subseteq Chunks, \A k \in rows' : total[k[1]] # 0
    PROVE  TypeOK' /\ Shape'
<1>1. Fits(t)'
  BY MovedFacts DEF Fits
<1>2. lock' \in Tabs \cup {Null} /\ left' \in 0 .. MaxAttempts
  BY StoresType
<1> QED BY <1>1, <1>2, StoresType, Frame

-----------------------------------------------------------------------------
(* Every step keeps the types. *)
LEMMA TypeStep ==
    ASSUME TypeOK, Shape, [Next]_vars
    PROVE  TypeOK' /\ Shape'
<1> USE DEF sessionVars, chunkVars, At, Goto
<1> DEFINE Ok == TypeOK' /\ Shape'
<1>k. \A k \in rows : k \in Chunks /\ k[1] \in Ids /\ k[2] \in Index
  BY StoresType DEF Chunks
<1> USE <1>k
<1>1. ASSUME NEW t \in Tabs, StartUpload(t) PROVE Ok
  <2>1. PICK c \in Cuts : Moved(t, "lookup", Args(c, Null, {})) /\ left > 0 /\ left' = left - 1
    BY <1>1 DEF StartUpload, Moved
  <2>2. Args(c, Null, {}) \in Req /\ Args(c, Null, {}).id = Null /\ Args(c, Null, {}).cut = c
    BY DEF Args, Req
  <2>3. "lookup" \in Steps \ ({"idle"} \cup WithId \cup Sending \cup Counted \cup Purging)
    BY DEF Steps, WithId, Sending, Counted, Purging
  <2> QED BY <1>1, <2>1, <2>2, <2>3, StoresType, GoesOn DEF StartUpload
<1>2. ASSUME NEW t \in Tabs, Return(t), UNCHANGED <<live, total, rows, bytes, left>> PROVE Ok
  BY <1>2, ReturnType
<1>3. ASSUME NEW t \in Tabs, NEW id \in live, NEW step \in Steps, Goto(t, step),
             req' = [req EXCEPT ![t].id = id],
             step \in {"uploaded", "count", "clean_rows", "purge_rows"},
             step = "purge_rows" \/ req[t].cut \in Cuts,
             UNCHANGED <<live, total, rows, bytes, lock, left>>
      PROVE  Ok
  <2> DEFINE args == [req[t] EXCEPT !.id = id]
  <2>1. args \in Req /\ args.id = id /\ args.cut = req[t].cut
    BY ReqType, StoresType DEF Req
  <2>2. Moved(t, step, args)
    BY <1>3 DEF Moved
  <2>3. total[id] # 0 /\ id \in Ids
    BY StoresType
  <2>4. step \notin {"idle"} \cup Sending \cup Counted /\ (step = "purge_rows" => step \in Purging)
    BY <1>3 DEF Sending, Counted, Purging
  <2> HIDE DEF args
  <2> QED BY <1>3, <2>1, <2>2, <2>3, <2>4, StoresType, GoesOn
<1>4. ASSUME NEW t \in Tabs, CheckChunkNum(t) PROVE Ok
  <2>1. Fits(t) /\ "create" \in Steps \ ({"idle"} \cup WithId \cup Sending \cup Counted) /\ "uploaded" \in Steps
    BY ReqType DEF Steps, WithId, Sending, Counted
  <2>2. req[t].cut \in Cuts
    BY <1>4, <2>1 DEF CheckChunkNum, Fits, Purging
  <2>3. CASE Goto(t, "create") /\ UNCHANGED req
    <3>1. Moved(t, "create", req[t])
      BY <2>3, ReqType DEF Moved
    <3> QED BY <1>4, <2>1, <2>2, <3>1, ReqType, StoresType, GoesOn DEF CheckChunkNum, Fits
  <2> QED BY <1>3, <1>4, <2>1, <2>2, <2>3 DEF CheckChunkNum
<1>5. ASSUME NEW t \in Tabs, Uploaded(t) PROVE Ok
  <2> DEFINE args == [req[t] EXCEPT !.todo = {k[2] : k \in RowsOf(req[t].id)}]
  <2>1. Fits(t) /\ {k[2] : k \in RowsOf(req[t].id)} \subseteq Index
    BY ReqType DEF RowsOf
  <2>2. args \in Req /\ args.id = req[t].id /\ args.cut = req[t].cut
    BY <2>1, ReqType DEF Req
  <2>3. req[t].cut \in Cuts
    BY <1>5, <2>1 DEF Uploaded, Fits, Purging
  <2>4. PICK step \in {"create", "latest"} : Moved(t, step, args)
    BY <1>5 DEF Uploaded, Moved
  <2>5. step \in Steps \ ({"idle"} \cup WithId \cup Sending \cup Counted)
    BY DEF Steps, WithId, Sending, Counted
  <2> HIDE DEF args
  <2> QED BY <1>5, <2>1, <2>2, <2>3, <2>4, <2>5, StoresType, GoesOn DEF Uploaded, Fits
<1>6. ASSUME NEW t \in Tabs, CreateUploadSession(t) PROVE Ok
  <2>1. Fits(t)
    BY ReqType
  <2>2. PICK id \in Ids : /\ total[id] = 0 /\ live' = live \cup {id}
                         /\ total' = [total EXCEPT ![id] = PiecesOf[req[t].cut]]
    BY <1>6 DEF CreateUploadSession, NextId
  <2>3. req[t].cut \in Cuts
    BY <1>6, <2>1 DEF CreateUploadSession, Fits, Purging
  <2>4. PiecesOf[req[t].cut] \in Nat \ {0}
    BY <2>3, IndexType
  <2>5. Moved(t, "latest", req[t])
    BY <1>6, ReqType DEF CreateUploadSession, Moved
  <2>6. /\ total' \in [Ids -> {0} \cup {PiecesOf[c] : c \in Cuts}]
        /\ \A i \in Ids : total[i] # 0 => total'[i] # 0
        /\ live' \subseteq Ids /\ \A i \in live' : total'[i] # 0
    BY <2>2, <2>3, <2>4, StoresType
  <2>7. \A k \in rows : total'[k[1]] # 0
    BY <2>6, StoresType
  <2>8. Fits(t)'
    <3>1. pc'[t] = "latest" /\ req'[t] = req[t]
      BY <2>5, MovedFacts
    <3>2. req[t].id # Null => total'[req[t].id] # 0
      BY <2>1, <2>6, ReqType DEF Fits
    <3> QED BY <2>3, <3>1, <3>2 DEF Fits, Purging, WithId, Sending, Counted
  <2>9. "latest" \in Steps
    BY DEF Steps
  <2> QED BY <1>6, <2>5, <2>6, <2>7, <2>8, <2>9, ReqType, StoresType, Frame DEF CreateUploadSession
<1>7. ASSUME NEW t \in Tabs, InitAnswer(t) PROVE Ok
  <2>1. ASSUME NEW id \in live, NEW todo, todo = Pieces(req[t].cut) \ req[t].todo,
               Goto(t, IF todo = {} THEN "complete" ELSE "chunk"),
               req' = [req EXCEPT ![t] = Args(@.cut, id, todo)], UNCHANGED lock
        PROVE  Ok
    <3> DEFINE args == Args(req[t].cut, id, todo)
               step == IF todo = {} THEN "complete" ELSE "chunk"
    <3>1. req[t].cut \in Cuts /\ Fits(t)
      BY <1>7, ReqType DEF InitAnswer, Fits, Purging
    <3>2. todo \subseteq Index /\ id \in Ids /\ total[id] # 0
      BY <2>1, <3>1, IndexType, StoresType
    <3>3. args \in Req /\ args.id = id /\ args.cut = req[t].cut /\ args.todo = todo
      BY <3>1, <3>2 DEF Args, Req
    <3>4. Moved(t, step, args)
      BY <2>1 DEF Moved
    <3>5. step \in Steps \ ({"idle"} \cup Counted) /\ (step \in Sending => todo # {})
      BY DEF Steps, Counted, Sending
    <3> HIDE DEF args, step
    <3> QED BY <1>7, <3>1, <3>2, <3>3, <3>4, <3>5, StoresType, GoesOn DEF InitAnswer
  <2> QED BY <1>2, <1>7, <2>1 DEF InitAnswer
<1>8. ASSUME NEW t \in Tabs, NEW step \in Steps \ ({"idle"} \cup Counted), Moved(t, step, req[t]),
             pc[t] \notin {"idle"} \cup Purging,
             step \in WithId => pc[t] \in WithId, step \in Sending => pc[t] \in Sending,
             UNCHANGED total, lock' \in {lock, t}, live' \subseteq live, left' = left,
             bytes' \in [Chunks -> Cuts \cup {Null}], rows' \subseteq rows
      PROVE  Ok
  BY <1>8, ReqType, StoresType, GoesOn DEF Fits
<1>9. ASSUME NEW t \in Tabs, CheckChunk(t) PROVE Ok
  <2>1. "put" \in Steps \ ({"idle"} \cup Counted) /\ "chunk" \in WithId \ ({"idle"} \cup Purging) /\ "chunk" \in Sending
    BY DEF Steps, Counted, WithId, Sending, Purging
  <2>2. CASE Goto(t, "put") /\ UNCHANGED <<req, lock>>
    <3>1. Moved(t, "put", req[t])
      BY <2>2, ReqType DEF Moved
    <3> QED BY <1>8, <1>9, <2>1, <2>2, <3>1, StoresType DEF CheckChunk
  <2> QED BY <1>2, <1>9, <2>2 DEF CheckChunk
<1>10. ASSUME NEW t \in Tabs, PutChunk(t) PROVE Ok
  <2>1. "row" \in Steps \ ({"idle"} \cup Counted) /\ "put" \in WithId \ ({"idle"} \cup Purging) /\ "put" \in Sending
    BY DEF Steps, Counted, WithId, Sending, Purging
  <2>2. req[t].cut \in Cuts
    BY <1>10, <2>1, ReqType DEF PutChunk, Fits
  <2>3. bytes' \in [Chunks -> Cuts \cup {Null}]
    BY <1>10, <2>2, StoresType DEF PutChunk
  <2>4. Moved(t, "row", req[t])
    BY <1>10, ReqType DEF PutChunk, Moved
  <2> QED BY <1>8, <1>10, <2>1, <2>3, <2>4, StoresType DEF PutChunk
<1>11. ASSUME NEW t \in Tabs, SaveChunk(t) PROVE Ok
  <2> DEFINE rest == req[t].todo \ {NextChunk(t)}
             args == [req[t] EXCEPT !.todo = rest]
             step == IF rest = {} THEN "complete" ELSE "chunk"
  <2>1. Fits(t) /\ req[t].cut \in Cuts /\ req[t].id \in Ids /\ total[req[t].id] # 0
    BY <1>11, ReqType, Nulls DEF SaveChunk, Fits, WithId, Purging
  <2>2. NextChunk(t) \in Index
    BY <1>11, NextChunkType DEF SaveChunk, Sending
  <2>3. args \in Req /\ args.id = req[t].id /\ args.cut = req[t].cut /\ args.todo = rest
    BY ReqType DEF Req
  <2>4. Moved(t, step, args)
    BY <1>11 DEF SaveChunk, Moved
  <2>5. step \in Steps \ ({"idle"} \cup Counted) /\ (step \in Sending => rest # {})
    BY DEF Steps, Counted, Sending
  <2>6. rows' \subseteq Chunks /\ \A k \in rows' : total[k[1]] # 0
    BY <1>11, <2>1, <2>2, StoresType DEF SaveChunk, Chunks
  <2> HIDE DEF args, step, rest
  <2> QED BY <1>11, <2>1, <2>3, <2>4, <2>5, <2>6, StoresType, GoesOn DEF SaveChunk
<1>12. ASSUME NEW t \in Tabs, MultipartComplete(t) PROVE Ok
  <2>1. /\ "lock" \in Steps \ ({"idle"} \cup WithId \cup Sending \cup Counted)
        /\ "complete" \notin {"idle"} \cup Purging
    BY DEF Steps, Counted, WithId, Sending, Purging
  <2>2. CASE Goto(t, "lock") /\ UNCHANGED <<req, lock>>
    <3>1. Moved(t, "lock", req[t])
      BY <2>2, ReqType DEF Moved
    <3> QED BY <1>8, <1>12, <2>1, <2>2, <3>1, StoresType DEF MultipartComplete
  <2> QED BY <1>2, <1>12, <2>2 DEF MultipartComplete
<1>13. ASSUME NEW t \in Tabs, MergeLock(t) PROVE Ok
  <2>1. /\ "find" \in Steps \ ({"idle"} \cup WithId \cup Sending \cup Counted)
        /\ "lock" \notin {"idle"} \cup Purging
    BY DEF Steps, Counted, WithId, Sending, Purging
  <2>2. CASE lock' = t /\ Goto(t, "find") /\ UNCHANGED req
    <3>1. Moved(t, "find", req[t])
      BY <2>2, ReqType DEF Moved
    <3> QED BY <1>8, <1>13, <2>1, <2>2, <3>1, StoresType DEF MergeLock
  <2> QED BY <1>2, <1>13, <2>2 DEF MergeLock
<1>14. ASSUME NEW t \in Tabs, FindSession(t) PROVE Ok
  <2>1. req[t].cut \in Cuts /\ "count" \in Steps
    BY <1>14, ReqType DEF FindSession, Fits, Purging, Steps
  <2> QED BY <1>2, <1>3, <1>14, <2>1 DEF FindSession
<1>15. ASSUME NEW t \in Tabs, CountChunks(t) PROVE Ok
  <2> DEFINE parts == RowsOf(req[t].id)
             args == [req[t] EXCEPT !.parts = parts]
  <2>1. Fits(t) /\ req[t].cut \in Cuts /\ req[t].id \in Ids
    BY <1>15, ReqType DEF CountChunks, Fits, WithId, Purging
  <2>2. parts \subseteq Chunks /\ \A k \in parts : k[1] = req[t].id
    BY DEF RowsOf
  <2>3. args \in Req /\ args.id = req[t].id /\ args.cut = req[t].cut /\ args.parts = parts
    BY <2>2, ReqType DEF Req
  <2>4. CASE Goto(t, "exists") /\ req' = [req EXCEPT ![t].parts = parts] /\ UNCHANGED lock
             /\ Cardinality(parts) = PiecesOf[req[t].cut]
    <3>1. Moved(t, "exists", args)
      BY <2>4 DEF Moved
    <3>2. "exists" \in Steps \ ({"idle"} \cup Sending)
      BY DEF Steps, Sending
    <3> HIDE DEF args
    <3> QED BY <1>15, <2>1, <2>2, <2>3, <2>4, <3>1, <3>2, StoresType, GoesOn DEF CountChunks, Fits
  <2> QED BY <1>2, <1>15, <2>4 DEF CountChunks
<1>16. ASSUME NEW t \in Tabs, LookupHash(t) PROVE Ok
  <2> DEFINE args == [req[t] EXCEPT !.clean = req[t].parts]
  <2>1. Fits(t) /\ pc[t] = "exists" /\ "exists" \in Counted /\ "exists" \in WithId /\ "exists" \notin {"idle"} \cup Purging
    BY <1>16, ReqType DEF LookupHash, Counted, WithId, Purging
  <2>2. args \in Req /\ args.id = req[t].id /\ args.cut = req[t].cut /\ args.parts = req[t].parts
    BY ReqType DEF Req
  <2>3. PICK step \in {"compose", "clean"} : Moved(t, step, args)
    BY <1>16 DEF LookupHash, Moved
  <2>4. step \in Steps \ ({"idle"} \cup Sending) /\ (step \in Counted \cup WithId => step = "compose")
    BY DEF Steps, Sending, Counted, WithId
  <2> HIDE DEF args
  <2> QED BY <1>16, <2>1, <2>2, <2>3, <2>4, StoresType, GoesOn DEF LookupHash, Fits
<1>17. ASSUME NEW t \in Tabs, ComposeObject(t) PROVE Ok
  <2>1. /\ "clean" \in Steps \ ({"idle"} \cup WithId \cup Sending \cup Counted)
        /\ "compose" \notin {"idle"} \cup Purging
    BY DEF Steps, Counted, WithId, Sending, Purging
  <2>2. CASE Goto(t, "clean") /\ UNCHANGED <<req, lock>>
    <3>1. Moved(t, "clean", req[t])
      BY <2>2, ReqType DEF Moved
    <3> QED BY <1>8, <1>17, <2>1, <2>2, <3>1, StoresType DEF ComposeObject
  <2> QED BY <1>2, <1>17, <2>2 DEF ComposeObject
<1>18. ASSUME NEW t \in Tabs, CleanChunk(t) PROVE Ok
  <2>1. PICK k \in req[t].clean : /\ bytes' = [bytes EXCEPT ![k] = Null]
                                 /\ req' = [req EXCEPT ![t].clean = req[t].clean \ {k}]
                                 /\ \E step \in {"clean", "clean_find"} : Goto(t, step)
    BY <1>18 DEF CleanChunk
  <2> DEFINE args == [req[t] EXCEPT !.clean = req[t].clean \ {k}]
  <2>2. PICK step \in {"clean", "clean_find"} : Moved(t, step, args)
    BY <2>1 DEF Moved
  <2>3. args \in Req /\ args.id = req[t].id /\ args.cut = req[t].cut
    BY ReqType DEF Req
  <2>4. /\ step \in Steps \ ({"idle"} \cup WithId \cup Sending \cup Counted)
        /\ "clean" \notin {"idle"} \cup Purging
    BY DEF Steps, Counted, WithId, Sending, Purging
  <2>5. bytes' \in [Chunks -> Cuts \cup {Null}]
    BY <2>1, StoresType
  <2>6. Fits(t) /\ pc[t] = "clean"
    BY <1>18, ReqType DEF CleanChunk
  <2> HIDE DEF args
  <2> QED BY <1>18, <2>2, <2>3, <2>4, <2>5, <2>6, StoresType, GoesOn DEF CleanChunk, Fits
<1>19. ASSUME NEW t \in Tabs, CleanFind(t) PROVE Ok
  <2>1. req[t].cut \in Cuts /\ "clean_rows" \in Steps
    BY <1>19, ReqType DEF CleanFind, Fits, Purging, Steps
  <2> QED BY <1>2, <1>3, <1>19, <2>1 DEF CleanFind
<1>20. ASSUME NEW t \in Tabs, CleanRows(t) PROVE Ok
  <2>1. /\ "clean_session" \in Steps \ ({"idle"} \cup Sending \cup Counted)
        /\ "clean_rows" \in WithId \ ({"idle"} \cup Purging)
    BY DEF Steps, Counted, WithId, Sending, Purging
  <2>2. Moved(t, "clean_session", req[t])
    BY <1>20, ReqType DEF CleanRows, Moved
  <2> QED BY <1>8, <1>20, <2>1, <2>2, StoresType DEF CleanRows
<1>21. ASSUME NEW t \in Tabs, CleanSession(t) PROVE Ok
  BY <1>21, ReturnType DEF CleanSession
<1>22. ASSUME NEW t \in Tabs, PurgeFile(t) PROVE Ok
  <2>1. "purge_find" \in Steps \ ({"idle"} \cup WithId \cup Sending \cup Counted) /\ "purge_find" \in Purging
    BY DEF Steps, Counted, WithId, Sending, Purging
  <2>2. Moved(t, "purge_find", req[t])
    BY <1>22, ReqType DEF PurgeFile, Moved
  <2> QED BY <1>22, <2>1, <2>2, ReqType, StoresType, GoesOn DEF PurgeFile, Fits
<1>23. ASSUME NEW t \in Tabs, PurgeFind(t) PROVE Ok
  <2>1. "purge_rows" \in Steps
    BY DEF Steps
  <2> QED BY <1>2, <1>3, <1>23, <2>1 DEF PurgeFind
<1>24. ASSUME NEW t \in Tabs, PurgeRows(t) PROVE Ok
  BY <1>24, ReturnType DEF PurgeRows
<1>25. ASSUME NEW t \in Tabs, Instant(t) \/ Abort(t) PROVE Ok
  BY <1>2, <1>25 DEF Instant, Abort
<1>26. CASE UNCHANGED vars
  BY <1>26 DEF vars, TypeOK, Shape, Fits
<1> QED BY <1>1, <1>4, <1>5, <1>6, <1>7, <1>9, <1>10, <1>11, <1>12, <1>13, <1>14, <1>15, <1>16, <1>17,
           <1>18, <1>19, <1>20, <1>21, <1>22, <1>23, <1>24, <1>25, <1>26
        DEF Next, Upload, Complete, Purge

-----------------------------------------------------------------------------
(* From here on: no purge breaks off or meets an upload of the same content. *)
Provisos == ~ PurgeRaces /\ "purge_abort" \notin Faults

(* One tab at a time merges, and a purge is alone. *)
Locked  == \A t \in Tabs : pc[t] \in Merging => lock = t
Purged  == \A t \in Tabs : pc[t] \in Purging =>
               /\ file = Null
               /\ \A o \in Tabs \ {t} : pc[o] = "idle"
               /\ pc[t] = "purge_rows" => Latest(req[t].id)

(* The clean-up follows the merge, and the merge has rows that are still there. *)
Merged  == \A t \in Tabs :
               /\ pc[t] \in Cleaning => file # Null
               /\ pc[t] = "compose" => file = Null
               /\ pc[t] \in Counted => req[t].parts \subseteq rows

(* A session of which a chunk row has lost its object. *)
Bad(id) == \E k \in rows : k[1] = id /\ bytes[k] = Null

(* While the content is not there such a session is not the newest, nobody   *)
(* works with it, and a chunk is stored before its row.                      *)
Sound == file = Null /\ ~ In(Purging) =>
    /\ \A id \in live : Bad(id) => \E other \in live : other > id
    /\ \A t \in Tabs : req[t].id # Null => ~ Bad(req[t].id)
    /\ \A t \in Tabs : pc[t] = "row" => bytes[<<req[t].id, NextChunk(t)>>] # Null

Rest == Locked /\ Purged /\ Merged /\ Sound

LEMMA LatestNotBad ==
    ASSUME TypeOK, Sound, file = Null, ~ In(Purging), NEW id \in live, Latest(id)
    PROVE  ~ Bad(id)
<1>a. live \subseteq Ids
  BY DEF TypeOK
<1>b. \A i \in Ids : i \in Nat
  BY DEF Ids
<1>1. ASSUME NEW other \in live PROVE ~ (other > id)
  <2>1. other \in Nat /\ id \in Nat
    BY <1>a, <1>b
  <2>2. other <= id
    BY DEF Latest
  <2> QED BY <2>1, <2>2
<1> QED BY <1>1 DEF Sound

(* A step that leaves the stores alone, to a step that asks nothing of them. *)
LEMMA RestMoves ==
    ASSUME TypeOK, Shape, Rest, NEW t \in Tabs, NEW step, NEW args, Moved(t, step, args),
           pc[t] \notin Purging, ~ In(Purging) \/ step = "idle",
           UNCHANGED <<live, rows, bytes, file>>,
           \A o \in Tabs : pc[o] \in Merging /\ o # t => lock' = lock,
           step \in Merging => lock' = t,
           step \notin Purging, step \in Cleaning => file # Null, step = "compose" => file = Null,
           step \in Counted => args.parts \subseteq rows,
           step # "row",
           file = Null /\ args.id # Null /\ args.id # req[t].id => Latest(args.id)
    PROVE  Rest'
<1>1. /\ pc'[t] = step /\ req'[t] = args
      /\ \A o \in Tabs \ {t} : pc'[o] = pc[o] /\ req'[o] = req[o]
  BY MovedFacts
<1>2. Locked'
  BY <1>1 DEF Rest, Locked
<1>3. Purged'
  <2> SUFFICES ASSUME NEW o \in Tabs, pc'[o] \in Purging
               PROVE  /\ file' = Null
                      /\ \A x \in Tabs \ {o} : pc'[x] = "idle"
                      /\ pc'[o] = "purge_rows" => Latest(req[o].id)'
    BY DEF Purged
  <2>1. o # t /\ pc[o] \in Purging /\ req'[o] = req[o]
    BY <1>1
  <2>2. step = "idle"
    BY <2>1 DEF In
  <2> QED BY <1>1, <2>1, <2>2 DEF Rest, Purged, Latest
<1>4. Merged'
  BY <1>1 DEF Rest, Merged
<1>5. ASSUME file = Null, ~ In(Purging)' PROVE Sound'
  <2>1. ~ In(Purging)
    BY <1>1, <1>5 DEF In
  <2>2. \A id : Bad(id)' <=> Bad(id)
    BY DEF Bad
  <2>3. \A o \in Tabs : req'[o].id # Null => ~ Bad(req'[o].id)
    <3>1. \A o \in Tabs \ {t} : req'[o].id # Null => ~ Bad(req'[o].id)
      BY <1>1, <1>5, <2>1 DEF Rest, Sound
    <3>2. args.id # Null => ~ Bad(args.id)
      BY <1>5, <2>1, LatestNotBad DEF Rest, Sound, Latest
    <3> QED BY <1>1, <3>1, <3>2
  <2>4. \A o \in Tabs : pc'[o] = "row" => bytes'[<<req'[o].id, NextChunk(o)'>>] # Null
    <3> SUFFICES ASSUME NEW o \in Tabs, pc'[o] = "row"
                 PROVE  bytes'[<<req'[o].id, NextChunk(o)'>>] # Null
      OBVIOUS
    <3>1. CASE o = t
      BY <1>1, <1>5, <3>1
    <3>2. CASE o # t
      <4>1. pc[o] = "row" /\ req'[o] = req[o] /\ NextChunk(o)' = NextChunk(o)
        BY <1>1, <3>2 DEF NextChunk
      <4> QED BY <1>5, <2>1, <4>1 DEF Rest, Sound
    <3> QED BY <3>1, <3>2
  <2>5. \A id \in live : Bad(id) => \E other \in live : other > id
    BY <1>5, <2>1 DEF Rest, Sound
  <2> QED BY <2>2, <2>3, <2>4, <2>5 DEF Sound
<1>6. Sound'
  BY <1>5 DEF Sound
<1> QED BY <1>2, <1>3, <1>4, <1>6 DEF Rest

LEMMA RestStep ==
    ASSUME TypeOK, Shape, TypeOK', Shape', Provisos, Rest, [Next]_vars
    PROVE  Rest'
<1> USE DEF sessionVars, chunkVars, At, Goto
<1>p. ASSUME NEW t \in Tabs, pc[t] # "idle", pc[t] \notin Purging PROVE ~ In(Purging)
  BY <1>p DEF In, Rest, Purged
<1>f. ASSUME NEW t \in Tabs PROVE Fits(t) /\ req[t] \in Req /\ (pc[t] = "idle" => req[t].id = Null)
  BY ReqType DEF Fits
<1>c. /\ \A s \in Merging : s # "idle" /\ s # "row" /\ s \notin Purging
      /\ \A s \in Cleaning \cup Counted : s \in Merging
  BY DEF Merging, Cleaning, Counted, Purging
<1>1. ASSUME NEW t \in Tabs, pc[t] \notin Purging, Return(t), UNCHANGED <<live, rows, bytes, file>>
      PROVE  Rest'
  <2>1. Moved(t, "idle", NoArgs)
    BY <1>1 DEF Return, Moved
  <2>2. \A o \in Tabs : pc[o] \in Merging /\ o # t => lock' = lock
    BY <1>1 DEF Return, Rest, Locked
  <2>3. NoArgs.id = Null /\ "idle" \notin Merging \cup Purging \cup Cleaning \cup Counted
    BY <1>c DEF NoArgs, Args, Purging
  <2> QED BY <1>1, <2>1, <2>2, <2>3, RestMoves
<1>2. ASSUME NEW t \in Tabs, pc[t] \notin {"idle"} \cup Purging, NEW step, NEW args, Moved(t, step, args),
             UNCHANGED <<live, rows, bytes, file, lock>>,
             step \notin Purging \cup {"row"}, step \in Merging => pc[t] \in Merging,
             step \in Cleaning => file # Null, step = "compose" => file = Null,
             step \in Counted => args.parts \subseteq rows,
             args.id = req[t].id \/ args.id = Null \/ Latest(args.id)
      PROVE  Rest'
  <2>1. step \in Merging => lock' = t
    BY <1>2 DEF Rest, Locked
  <2> QED BY <1>2, <1>p, <2>1, RestMoves
<1>3. ASSUME NEW t \in Tabs, StartUpload(t) PROVE Rest'
  <2>1. PICK c \in Cuts : Moved(t, "lookup", Args(c, Null, {}))
    BY <1>3 DEF StartUpload, Moved
  <2>2. Args(c, Null, {}).id = Null /\ "lookup" \notin Merging \cup Purging \cup Cleaning \cup Counted
    BY DEF Args, Merging, Purging, Cleaning, Counted
  <2>3. ~ In(Purging) /\ pc[t] \notin Purging
    BY <1>3 DEF StartUpload, Provisos, In
  <2> QED BY <1>3, <2>1, <2>2, <2>3, RestMoves DEF StartUpload
<1>4. ASSUME NEW t \in Tabs, Instant(t) PROVE Rest'
  BY <1>1, <1>4 DEF Instant, Purging
<1>5. ASSUME NEW t \in Tabs, Abort(t) PROVE Rest'
  BY <1>1, <1>5 DEF Abort, Provisos
<1>6. ASSUME NEW t \in Tabs, NEW id \in live, Latest(id), NEW step \in {"uploaded", "count", "clean_rows"},
             Goto(t, step), req' = [req EXCEPT ![t].id = id],
             pc[t] \notin {"idle"} \cup Purging, step # "uploaded" => pc[t] \in Merging,
             step = "clean_rows" => pc[t] \in Cleaning, UNCHANGED <<live, rows, bytes, file, lock>>
      PROVE  Rest'
  <2> DEFINE args == [req[t] EXCEPT !.id = id]
  <2>1. args.id = id
    BY <1>f DEF Req
  <2>2. Moved(t, step, args)
    BY <1>6 DEF Moved
  <2>3. step \notin Purging \cup {"row", "compose"} \cup Counted
    BY DEF Purging, Counted
  <2>4. step \in Cleaning => file # Null
    BY <1>6 DEF Rest, Merged, Cleaning
  <2>5. step \in Merging => pc[t] \in Merging
    BY <1>6 DEF Merging
  <2> HIDE DEF args
  <2> QED BY <1>2, <1>6, <2>1, <2>2, <2>3, <2>4, <2>5
<1>7. ASSUME NEW t \in Tabs, NEW step \in {"create", "put", "lock"}, Goto(t, step), UNCHANGED <<req, lock>>,
             pc[t] \notin {"idle"} \cup Purging, UNCHANGED <<live, rows, bytes, file>>
      PROVE  Rest'
  <2>1. Moved(t, step, req[t])
    BY <1>7, ReqType DEF Moved
  <2>2. step \notin Purging \cup {"row"} \cup Merging /\ step # "compose" /\ step \notin Cleaning \cup Counted
    BY <1>c DEF Purging, Merging
  <2> QED BY <1>2, <1>7, <2>1, <2>2
<1>8. ASSUME NEW t \in Tabs, CheckChunkNum(t) PROVE Rest'
  <2>1. pc[t] \notin {"idle"} \cup Purging
    BY <1>8 DEF CheckChunkNum, Purging
  <2> QED BY <1>6, <1>7, <1>8, <2>1 DEF CheckChunkNum
<1>9. ASSUME NEW t \in Tabs, Uploaded(t) PROVE Rest'
  <2> DEFINE args == [req[t] EXCEPT !.todo = {k[2] : k \in RowsOf(req[t].id)}]
  <2>1. args.id = req[t].id
    BY <1>f DEF Req
  <2>2. PICK step \in {"create", "latest"} : Moved(t, step, args)
    BY <1>9 DEF Uploaded, Moved
  <2>3. step \notin Purging \cup {"row"} \cup Merging /\ step # "compose" /\ step \notin Cleaning \cup Counted
    BY <1>c DEF Purging, Merging
  <2>4. pc[t] \notin {"idle"} \cup Purging
    BY <1>9 DEF Uploaded, Purging
  <2> HIDE DEF args
  <2> QED BY <1>2, <1>9, <2>1, <2>2, <2>3, <2>4 DEF Uploaded
<1>10. ASSUME NEW t \in Tabs, InitAnswer(t) PROVE Rest'
  <2>1. pc[t] \notin {"idle"} \cup Purging
    BY <1>10 DEF InitAnswer, Purging
  <2>2. ASSUME NEW id \in live, Latest(id), NEW todo, UNCHANGED lock,
               Goto(t, IF todo = {} THEN "complete" ELSE "chunk"),
               req' = [req EXCEPT ![t] = Args(@.cut, id, todo)]
        PROVE  Rest'
    <3>1. Args(req[t].cut, id, todo).id = id
      BY DEF Args
    <3>2. PICK step \in {"complete", "chunk"} : Moved(t, step, Args(req[t].cut, id, todo))
      BY <2>2 DEF Moved
    <3>3. step \notin Purging \cup {"row"} \cup Merging /\ step # "compose" /\ step \notin Cleaning \cup Counted
      BY <1>c DEF Purging, Merging
    <3> QED BY <1>2, <1>10, <2>1, <2>2, <3>1, <3>2, <3>3 DEF InitAnswer
  <2> QED BY <1>1, <1>10, <2>1, <2>2 DEF InitAnswer
<1>11. ASSUME NEW t \in Tabs, CheckChunk(t) \/ MultipartComplete(t) PROVE Rest'
  <2>1. pc[t] \notin {"idle"} \cup Purging
    BY <1>11 DEF CheckChunk, MultipartComplete, Purging
  <2>2. CASE CheckChunk(t)
    BY <1>1, <1>7, <2>1, <2>2 DEF CheckChunk
  <2>3. CASE MultipartComplete(t)
    BY <1>1, <1>7, <2>1, <2>3 DEF MultipartComplete
  <2> QED BY <1>11, <2>2, <2>3
<1>12. ASSUME NEW t \in Tabs, MergeLock(t) PROVE Rest'
  <2>1. pc[t] \notin {"idle"} \cup Purging
    BY <1>12 DEF MergeLock, Purging
  <2>2. CASE lock = Null /\ lock' = t /\ Goto(t, "find") /\ UNCHANGED req
    <3>1. Moved(t, "find", req[t])
      BY <2>2, ReqType DEF Moved
    <3>2. "find" \notin Purging \cup {"row", "compose"} \cup Cleaning \cup Counted
      BY DEF Purging, Cleaning, Counted
    <3>3. \A o \in Tabs : pc[o] \notin Merging
      BY <2>2, Nulls DEF Rest, Locked
    <3> QED BY <1>12, <1>p, <2>1, <2>2, <3>1, <3>2, <3>3, RestMoves DEF MergeLock
  <2> QED BY <1>1, <1>12, <2>1, <2>2 DEF MergeLock
<1>13. ASSUME NEW t \in Tabs, FindSession(t) \/ CleanFind(t) PROVE Rest'
  <2>1. pc[t] \notin {"idle"} \cup Purging /\ pc[t] \in Merging
    BY <1>13 DEF FindSession, CleanFind, Purging, Merging
  <2>2. CASE FindSession(t)
    BY <1>1, <1>6, <2>1, <2>2 DEF FindSession
  <2>3. CASE CleanFind(t)
    <3>1. pc[t] \in Cleaning
      BY <2>3 DEF CleanFind, Cleaning
    <3> QED BY <1>1, <1>6, <2>1, <2>3, <3>1 DEF CleanFind
  <2> QED BY <1>13, <2>2, <2>3
<1>14. ASSUME NEW t \in Tabs, CountChunks(t) PROVE Rest'
  <2>1. pc[t] \notin {"idle"} \cup Purging /\ pc[t] \in Merging
    BY <1>14 DEF CountChunks, Purging, Merging
  <2> DEFINE parts == RowsOf(req[t].id)
             args == [req[t] EXCEPT !.parts = parts]
  <2>2. args.id = req[t].id /\ args.parts = parts /\ parts \subseteq rows
    BY <1>f DEF Req, RowsOf
  <2>3. CASE Goto(t, "exists") /\ req' = [req EXCEPT ![t].parts = parts] /\ UNCHANGED lock
    <3>1. Moved(t, "exists", args)
      BY <2>3 DEF Moved
    <3>2. "exists" \notin Purging \cup {"row", "compose"} \cup Cleaning
      BY DEF Purging, Cleaning
    <3> HIDE DEF args
    <3> QED BY <1>2, <1>14, <2>1, <2>2, <2>3, <3>1, <3>2 DEF CountChunks
  <2> QED BY <1>1, <1>14, <2>1, <2>3 DEF CountChunks
<1>15. ASSUME NEW t \in Tabs, LookupHash(t) PROVE Rest'
  <2>1. pc[t] \notin {"idle"} \cup Purging /\ pc[t] \in Merging /\ pc[t] \in Counted
    BY <1>15 DEF LookupHash, Purging, Merging, Counted
  <2> DEFINE args == [req[t] EXCEPT !.clean = req[t].parts]
  <2>2. args.id = req[t].id /\ args.parts = req[t].parts /\ req[t].parts \subseteq rows
    BY <1>f, <2>1 DEF Req, Rest, Merged
  <2>3. PICK step \in {"compose", "clean"} : Moved(t, step, args) /\ (step = "compose" <=> file = Null)
    BY <1>15 DEF LookupHash, Moved
  <2>4. step \notin Purging \cup {"row"} /\ (step \in Cleaning <=> step = "clean")
    BY DEF Purging, Cleaning
  <2> HIDE DEF args
  <2> QED BY <1>2, <1>15, <2>1, <2>2, <2>3, <2>4 DEF LookupHash

(* The steps that change the stores. *)
<1>m. ASSUME NEW t \in Tabs, pc[t] \in Merging PROVE \A o \in Tabs : pc[o] \in Merging => o = t
  BY <1>m DEF Rest, Locked
<1>16. ASSUME NEW t \in Tabs, CreateUploadSession(t) PROVE Rest'
  <2>1. PICK id \in Ids : NextId(id) /\ live' = live \cup {id}
    BY <1>16 DEF CreateUploadSession
  <2>2. /\ pc[t] = "create" /\ pc'[t] = "latest" /\ UNCHANGED <<rows, bytes, file, lock, req>>
        /\ \A o \in Tabs \ {t} : pc'[o] = pc[o]
    BY <1>16 DEF CreateUploadSession, TypeOK
  <2>3. ~ In(Purging) /\ ~ In(Purging)'
    BY <1>p, <2>2 DEF In, Purging
  <2>4. ~ Bad(id)
    BY <2>1, StoresType DEF NextId, Bad
  <2>5. Locked' /\ Purged'
    BY <2>2, <2>3 DEF Rest, Locked, Purged, In, Merging
  <2>6. Merged'
    BY <2>2 DEF Rest, Merged, Cleaning, Counted
  <2>7. Sound'
    BY <2>1, <2>2, <2>3, <2>4 DEF Rest, Sound, Bad, NextChunk
  <2> QED BY <2>5, <2>6, <2>7 DEF Rest
<1>17. ASSUME NEW t \in Tabs, PutChunk(t) PROVE Rest'
  <2> DEFINE new == <<req[t].id, NextChunk(t)>>
  <2>1. /\ pc[t] = "put" /\ pc'[t] = "row" /\ UNCHANGED <<live, rows, file, lock, req>>
        /\ \A o \in Tabs \ {t} : pc'[o] = pc[o]
    BY <1>17 DEF PutChunk, TypeOK
  <2>2. ~ In(Purging) /\ ~ In(Purging)'
    BY <1>p, <2>1 DEF In, Purging
  <2>3. req[t].cut \in Cuts /\ req[t].id \in Ids /\ NextChunk(t) \in Index
    BY <1>f, <2>1, NextChunkType DEF Fits, Purging, WithId, Sending
  <2>4. new \in Chunks
    BY <2>3 DEF Chunks
  <2>5. bytes'[new] # Null /\ \A k \in Chunks : bytes[k] # Null => bytes'[k] # Null
    BY <1>17, <2>3, <2>4, StoresType, Nulls DEF PutChunk
  <2>6. Locked' /\ Purged'
    BY <2>1, <2>2 DEF Rest, Locked, Purged, In, Merging
  <2>7. Merged'
    BY <2>1 DEF Rest, Merged, Cleaning, Counted
  <2>8. ASSUME file = Null PROVE Sound'
    <3>1. \A id : Bad(id)' => Bad(id)
      BY <2>1, <2>5, StoresType DEF Bad
    <3>2. \A o \in Tabs : NextChunk(o)' = NextChunk(o)
      BY <2>1 DEF NextChunk
    <3>3. ASSUME NEW o \in Tabs, pc'[o] = "row" PROVE bytes'[<<req'[o].id, NextChunk(o)'>>] # Null
      <4>1. CASE o = t
        BY <2>1, <2>5, <3>2, <4>1
      <4>2. CASE o # t
        <5>1. pc[o] = "row" /\ bytes[<<req[o].id, NextChunk(o)>>] # Null
          BY <2>1, <2>2, <2>8, <3>3, <4>2 DEF Rest, Sound
        <5>2. <<req[o].id, NextChunk(o)>> \in Chunks
          BY <1>f, <5>1, NextChunkType DEF Fits, WithId, Sending, Chunks
        <5> QED BY <2>1, <2>5, <3>2, <5>1, <5>2
      <4> QED BY <4>1, <4>2
    <3>4. /\ \A id \in live' : Bad(id)' => \E other \in live' : other > id
          /\ \A o \in Tabs : req'[o].id # Null => ~ Bad(req[o].id)'
      BY <2>1, <2>2, <2>8, <3>1 DEF Rest, Sound
    <3> QED BY <2>1, <3>3, <3>4 DEF Sound
  <2> QED BY <2>1, <2>6, <2>7, <2>8 DEF Rest, Sound
<1>18. ASSUME NEW t \in Tabs, SaveChunk(t) PROVE Rest'
  <2> DEFINE new == <<req[t].id, NextChunk(t)>>
             args == [req[t] EXCEPT !.todo = req[t].todo \ {NextChunk(t)}]
  <2>1. PICK step \in {"complete", "chunk"} : Moved(t, step, args)
    BY <1>18 DEF SaveChunk, Moved
  <2>2. args.id = req[t].id
    BY <1>f DEF Req
  <2> HIDE DEF args
  <2>3. /\ pc'[t] = step /\ req'[t] = args
        /\ \A o \in Tabs \ {t} : pc'[o] = pc[o] /\ req'[o] = req[o]
    BY <2>1, MovedFacts
  <2>4. pc[t] = "row" /\ rows' = rows \cup {new} /\ UNCHANGED <<live, bytes, file, lock>>
    BY <1>18 DEF SaveChunk
  <2>5. ~ In(Purging) /\ ~ In(Purging)'
    BY <1>p, <2>3, <2>4 DEF In, Purging
  <2>6. Locked' /\ Purged'
    BY <2>3, <2>4, <2>5 DEF Rest, Locked, Purged, In, Merging
  <2>7. Merged'
    BY <2>3, <2>4 DEF Rest, Merged, Cleaning, Counted
  <2>8. ASSUME file = Null PROVE Sound'
    <3>1. bytes[new] # Null
      BY <2>4, <2>5, <2>8 DEF Rest, Sound
    <3>2. \A id : Bad(id)' => Bad(id)
      BY <2>4, <3>1 DEF Bad
    <3>3. \A o \in Tabs \ {t} : NextChunk(o)' = NextChunk(o)
      BY <2>3 DEF NextChunk
    <3>4. \A o \in Tabs : pc'[o] = "row" => bytes'[<<req'[o].id, NextChunk(o)'>>] # Null
      BY <2>3, <2>4, <2>5, <2>8, <3>3 DEF Rest, Sound
    <3>5. \A o \in Tabs : req'[o].id = req[o].id
      BY <2>2, <2>3
    <3>6. \A o \in Tabs : req'[o].id # Null => ~ Bad(req[o].id)'
      BY <2>4, <2>5, <2>8, <3>2, <3>5 DEF Rest, Sound
    <3>7. \A id \in live' : Bad(id)' => \E other \in live' : other > id
      BY <2>4, <2>5, <2>8, <3>2 DEF Rest, Sound
    <3> QED BY <3>4, <3>6, <3>7 DEF Sound, Bad
  <2> QED BY <2>4, <2>6, <2>7, <2>8 DEF Rest, Sound
<1>19. ASSUME NEW t \in Tabs, ComposeObject(t) PROVE Rest'
  <2>1. pc[t] = "compose" /\ pc[t] \in Merging /\ pc[t] \notin {"idle"} \cup Purging
    BY <1>19 DEF ComposeObject, Merging, Purging
  <2>2. CASE Return(t) /\ UNCHANGED file
    BY <1>1, <1>19, <2>1, <2>2 DEF ComposeObject
  <2>3. CASE /\ file' = [i \in {k[2] : k \in req[t].parts} |-> bytes[<<req[t].id, i>>]]
             /\ Goto(t, "clean") /\ UNCHANGED <<req, lock>>
    <3>1. /\ pc'[t] = "clean" /\ UNCHANGED <<live, rows, bytes, lock, req>>
          /\ \A o \in Tabs \ {t} : pc'[o] = pc[o]
      BY <1>19, <2>3 DEF ComposeObject, TypeOK
    <3>2. file' # Null
      <4> DEFINE S == {k[2] : k \in req[t].parts}
      <4>1. req[t].parts \subseteq Chunks /\ req[t].id \in Ids
        BY <2>1, ReqType DEF Fits, WithId
      <4>2. S \in SUBSET Index
        BY <4>1 DEF Chunks
      <4>3. \A i \in S : bytes[<<req[t].id, i>>] \in Cuts \cup {Null}
        BY <4>1, <4>2, StoresType DEF Chunks
      <4>4. file' \in [S -> Cuts \cup {Null}]
        BY <2>3, <4>3
      <4> QED BY <4>2, <4>4, FileAssumption
    <3>3. ~ In(Purging)'
      BY <1>p, <2>1, <3>1 DEF In, Purging
    <3>4. Locked' /\ Purged'
      BY <2>1, <3>1, <3>3 DEF Rest, Locked, Purged, In, Merging
    <3>5. Merged'
      BY <1>c, <1>m, <2>1, <3>1, <3>2 DEF Rest, Merged, Counted, Merging
    <3> QED BY <3>2, <3>4, <3>5 DEF Rest, Sound
  <2> QED BY <1>19, <2>2, <2>3 DEF ComposeObject
<1>20. ASSUME NEW t \in Tabs, CleanChunk(t) \/ CleanRows(t) \/ CleanSession(t) PROVE Rest'
  <2>1. pc[t] \in Cleaning /\ pc[t] \in Merging /\ pc[t] # "idle" /\ pc[t] \notin Purging
    BY <1>20 DEF CleanChunk, CleanRows, CleanSession, Cleaning, Merging, Purging
  <2>2. /\ file' = file /\ file # Null /\ rows' \subseteq rows
        /\ pc'[t] \in Cleaning \cup {"idle"} /\ \A o \in Tabs \ {t} : pc'[o] = pc[o] /\ req'[o] = req[o]
        /\ lock = t /\ (pc'[t] \in Cleaning => lock' = t)
    BY <1>20, <2>1 DEF CleanChunk, CleanRows, CleanSession, Cleaning, Return, TypeOK, Rest, Merged, Locked
  <2>3. ~ In(Purging)'
    BY <1>p, <2>1, <2>2 DEF In, Purging, Cleaning
  <2>4. Locked' /\ Purged'
    BY <1>c, <1>m, <2>1, <2>2, <2>3 DEF Rest, Locked, Purged, In
  <2>5. Merged'
    BY <1>c, <1>m, <2>1, <2>2 DEF Rest, Merged, Cleaning, Counted
  <2> QED BY <2>2, <2>4, <2>5 DEF Rest, Sound
<1>21. ASSUME NEW t \in Tabs, PurgeFile(t) PROVE Rest'
  <2>1. /\ \A o \in Tabs : pc[o] = "idle"
        /\ file' = Null /\ pc'[t] = "purge_find" /\ \A o \in Tabs \ {t} : pc'[o] = pc[o]
    BY <1>21 DEF PurgeFile, Provisos, TypeOK
  <2>2. In(Purging)'
    BY <2>1 DEF In, Purging
  <2>3. Locked' /\ Purged' /\ Merged'
    BY <2>1 DEF Locked, Purged, Merged, Merging, Purging, Cleaning, Counted
  <2> QED BY <2>2, <2>3 DEF Rest, Sound
<1>22. ASSUME NEW t \in Tabs, PurgeFind(t) \/ PurgeRows(t) PROVE Rest'
  <2>1. pc[t] \in Purging /\ file = Null /\ \A o \in Tabs \ {t} : pc[o] = "idle"
    BY <1>22 DEF PurgeFind, PurgeRows, Purging, Rest, Purged
  <2>2. CASE PurgeFind(t) /\ live # {}
    <3>1. PICK id \in live : /\ Latest(id) /\ Goto(t, "purge_rows")
                            /\ req' = [req EXCEPT ![t].id = id]
      BY <2>2 DEF PurgeFind
    <3>2. req'[t].id = id /\ pc'[t] = "purge_rows" /\ \A o \in Tabs \ {t} : pc'[o] = pc[o]
      BY <3>1, <1>f DEF TypeOK, Req
    <3>3. UNCHANGED <<live, file>>
      BY <2>2 DEF PurgeFind
    <3>4. In(Purging)'
      BY <3>2 DEF In, Purging
    <3>5. Locked' /\ Purged' /\ Merged'
      BY <2>1, <3>1, <3>2, <3>3 DEF Locked, Purged, Merged, Merging, Purging, Cleaning, Counted, Latest
    <3> QED BY <3>4, <3>5 DEF Rest, Sound
  <2>3. ASSUME Return(t), UNCHANGED <<live, bytes, file>>, \A id \in live : Bad(id)' => \E other \in live : other > id
        PROVE  Rest'
    <3>1. Moved(t, "idle", NoArgs)
      BY <2>3 DEF Return, Moved
    <3>2. \A o \in Tabs : pc'[o] = "idle" /\ req'[o].id = Null
      BY <1>f, <2>1, <3>1, MovedFacts DEF NoArgs, Args
    <3>3. Locked' /\ Purged' /\ Merged'
      BY <3>2 DEF Locked, Purged, Merged, Merging, Purging, Cleaning, Counted
    <3>4. Sound'
      BY <2>3, <3>2 DEF Sound
    <3> QED BY <3>3, <3>4 DEF Rest
  <2>4. CASE PurgeFind(t) /\ live = {}
    BY <2>3, <2>4 DEF PurgeFind
  <2>5. CASE PurgeRows(t)
    <3>1. Latest(req[t].id)
      BY <2>5 DEF PurgeRows, Rest, Purged, Purging
    <3>2. ASSUME NEW id \in live, Bad(id)' PROVE \E other \in live : other > id
      <4>1. id # req[t].id
        BY <2>5, <3>2 DEF PurgeRows, Bad, RowsOf
      <4> QED BY <3>1, <4>1, StoresType DEF Latest, Ids
    <3> QED BY <2>3, <2>5, <3>2 DEF PurgeRows
  <2> QED BY <1>22, <2>2, <2>4, <2>5
<1>23. CASE UNCHANGED vars
  BY <1>23 DEF vars, Rest, Locked, Purged, Merged, Sound, Bad, In, Latest, NextChunk
<1> QED BY <1>3, <1>4, <1>5, <1>8, <1>9, <1>10, <1>11, <1>12, <1>13, <1>14, <1>15, <1>16, <1>17,
           <1>18, <1>19, <1>20, <1>21, <1>22, <1>23
        DEF Next, Upload, Complete, Purge

-----------------------------------------------------------------------------
LEMMA TypeInit == Init => TypeOK /\ Shape
<1> SUFFICES ASSUME Init PROVE TypeOK /\ Shape
  OBVIOUS
<1>1. NoArgs \in Req /\ NoArgs.id = Null
  BY DEF NoArgs, Args, Req
<1>2. "idle" \in Steps /\ "idle" \notin WithId \cup Sending \cup Counted \cup Purging
  BY DEF Steps, WithId, Sending, Counted, Purging
<1>3. TypeOK
  BY <1>1, <1>2, ConstantsAssumption DEF Init, TypeOK, Req
<1>4. ASSUME NEW t \in Tabs PROVE Fits(t)
  BY <1>1, <1>2 DEF Init, Fits
<1> QED BY <1>3, <1>4 DEF Init, Shape

LEMMA Typed == Spec => [](TypeOK /\ Shape)
<1>1. TypeOK /\ Shape /\ [Next]_vars => TypeOK' /\ Shape'
  BY TypeStep
<1> QED BY <1>1, TypeInit, PTL DEF Spec

(* Every variable stays in its type, whatever the tabs do and wherever they  *)
(* break off: so every chunk and every id in hand is one that was given out. *)
THEOREM TypeCorrect == Spec => []TypeOK
BY Typed, PTL

LEMMA RestInit == Init => Rest
<1> SUFFICES ASSUME Init PROVE Rest
  OBVIOUS
<1>1. NoArgs.id = Null
  BY DEF NoArgs, Args
<1>2. "idle" \notin Merging \cup Cleaning \cup Counted \cup Purging \cup {"row", "compose"}
  BY DEF Merging, Cleaning, Counted, Purging
<1> QED BY <1>1, <1>2 DEF Init, Rest, Locked, Purged, Merged, Sound

IInv == TypeOK /\ Shape /\ Rest

LEMMA Invariant == Provisos => (Spec => []IInv)
<1> SUFFICES ASSUME Provisos PROVE Spec => []IInv
  OBVIOUS
<1>1. Init => IInv
  BY TypeInit, RestInit DEF IInv
<1>2. IInv /\ [Next]_vars => IInv'
  BY TypeStep, RestStep DEF IInv
<1> QED BY <1>1, <1>2, PTL DEF Spec

(* A merge that has counted its chunks finds every one of them, when uploads *)
(* break off anywhere but nobody purges the file while it is uploaded again: *)
(* the merge holds the lock, and only a merge removes chunk objects.         *)
THEOREM MergesFind == Provisos => (Spec => []MergeFinds)
<1> SUFFICES ASSUME Provisos PROVE Spec => []MergeFinds
  OBVIOUS
<1>1. IInv => MergeFinds
  <2> SUFFICES ASSUME IInv, NEW t \in Tabs, pc[t] = "compose", NEW k \in req[t].parts
               PROVE  bytes[k] # Null
    BY DEF MergeFinds, At
  <2>1. file = Null /\ k \in rows /\ k[1] = req[t].id
    BY DEF IInv, Rest, Merged, Shape, Fits, Counted
  <2>2. ~ In(Purging)
    BY DEF IInv, Rest, Purged, In, Purging
  <2>3. req[t].id \in Ids
    BY DEF IInv, Shape, Fits, WithId
  <2>4. ~ Bad(req[t].id)
    BY <2>1, <2>2, <2>3, Nulls DEF IInv, Rest, Sound
  <2> QED BY <2>1, <2>4 DEF Bad
<1> QED BY <1>1, Invariant, PTL

(* What the next MultiPartFileInit reports as uploaded is in the bucket,     *)
(* under the same provisos, whatever clean-up broke off before.              *)
THEOREM ResumesTruly == Provisos => (Spec => []ResumeTruthful)
<1> SUFFICES ASSUME Provisos PROVE Spec => []ResumeTruthful
  OBVIOUS
<1>1. IInv => ResumeTruthful
  <2> SUFFICES ASSUME IInv, file = Null, ~ In(Cleaning \cup Purging), NEW k \in rows, Latest(k[1])
               PROVE  bytes[k] # Null
    BY DEF ResumeTruthful
  <2>1. ~ In(Purging) /\ k[1] \in live
    BY DEF In, Latest
  <2> QED BY <2>1, LatestNotBad DEF IInv, Rest, Bad
<1> QED BY <1>1, Invariant, PTL

-----------------------------------------------------------------------------
SingleCut == \E c \in Cuts : Cuts = {c}

(* As many different chunks of one session as the file has pieces are all.   *)
LEMMA AllPieces ==
    ASSUME NEW c \in Cuts, Cuts = {c}, NEW id \in Ids, NEW parts \in SUBSET Chunks,
           \A k \in parts : k[1] = id, Cardinality(parts) = PiecesOf[c]
    PROVE  {k[2] : k \in parts} = Pieces(c)
<1> DEFINE f == [k \in parts |-> k[2]]
<1>1. Index = Pieces(c) /\ PiecesOf[c] \in Nat \ {0}
  BY ConstantsAssumption DEF Index
<1>2. \A k \in parts : k = <<id, k[2]>> /\ k[2] \in Pieces(c)
  BY <1>1 DEF Chunks
<1>3. f \in [parts -> Pieces(c)] /\ \A k, l \in parts : f[k] = f[l] => k = l
  BY <1>2
<1>4. f \in Injection(parts, Pieces(c))
  BY <1>3 DEF Injection, IsInjective
<1>5. IsFiniteSet(Pieces(c)) /\ Cardinality(Pieces(c)) = PiecesOf[c]
  BY <1>1, FS_Interval DEF Pieces
<1>6. f \in Surjection(parts, Pieces(c))
  BY <1>4, <1>5, FS_Injection
<1>7. \A i \in Pieces(c) : \E k \in parts : f[k] = i
  BY <1>6 DEF Surjection
<1> QED BY <1>2, <1>7

(* Whatever is merged is the whole content, when every tab cuts it alike: no *)
(* crash, no lost answer and no second tab makes CompleteFile join a part.   *)
THEOREM MergesWhole == SingleCut => (Spec => []MergeWhole)
<1> SUFFICES ASSUME SingleCut PROVE Spec => []MergeWhole
  OBVIOUS
<1>1. PICK c \in Cuts : Cuts = {c}
  BY DEF SingleCut
<1> DEFINE whole == [i \in Pieces(c) |-> c]
           Whole == file = Null \/ file = whole
<1>2. Whole => MergeWhole
  BY DEF MergeWhole
<1>3. Init => Whole
  BY DEF Init
<1>4. TypeOK /\ Shape /\ Whole /\ [Next]_vars => Whole'
  <2> SUFFICES ASSUME TypeOK, Shape, Whole, [Next]_vars PROVE Whole'
    OBVIOUS
  <2>1. ASSUME NEW t \in Tabs, ComposeObject(t), file' # file PROVE Whole'
    <3> DEFINE parts == req[t].parts
               id    == req[t].id
    <3>1. /\ parts \in SUBSET Chunks /\ id \in Ids /\ \A k \in parts : k[1] = id
          /\ Cardinality(parts) = PiecesOf[c]
      BY <1>1, <2>1, ReqType DEF ComposeObject, At, Fits, WithId, Counted, Purging
    <3>2. /\ \A k \in parts : bytes[k] # Null
          /\ file' = [i \in {k[2] : k \in parts} |-> bytes[<<id, i>>]]
      BY <2>1 DEF ComposeObject
    <3>3. {k[2] : k \in parts} = Pieces(c)
      BY <1>1, <3>1, AllPieces
    <3>4. ASSUME NEW i \in Pieces(c) PROVE bytes[<<id, i>>] = c
      <4>1. PICK k \in parts : k[2] = i
        BY <3>3
      <4>2. k = <<id, i>> /\ k \in Chunks
        BY <3>1, <4>1 DEF Chunks
      <4> QED BY <1>1, <3>2, <4>2, StoresType
    <3> QED BY <3>2, <3>3, <3>4
  <2>2. ASSUME file' # file, \A t \in Tabs : ~ ComposeObject(t) PROVE file' = Null
    BY <2>2 DEF Next, StartUpload, Upload, Complete, Purge, Abort, Instant, CheckChunkNum, Uploaded,
         CreateUploadSession, InitAnswer, CheckChunk, PutChunk, SaveChunk, MultipartComplete, MergeLock,
         FindSession, CountChunks, LookupHash, CleanChunk, CleanFind, CleanRows, CleanSession,
         PurgeFile, PurgeFind, PurgeRows, vars
  <2> QED BY <2>1, <2>2
<1>5. Spec => []Whole
  BY <1>3, <1>4, Typed, PTL DEF Spec
<1> HIDE DEF Whole
<1> QED BY <1>2, <1>5, PTL

=============================================================================

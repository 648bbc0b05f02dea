--------------------------- MODULE FileTreeProofs ----------------------------
(* Theorems about FileTree, for every set of sessions and bound. *)
EXTENDS FileTree, TLAPS, SequenceTheorems

PurgeSteps == {"pg_children", "pg_delete"}
CopyLoop   == {"cp_count", "cp_insert"}
TargetSteps == {"mk_count", "mk_insert", "walk_from", "walk", "mv_find", "mv_count", "mv_update",
                "cp_target", "cp_find", "cp_children"}

PurgeFrame == [dir : Ids, rows : SUBSET (Ids \X Names)]

(* What a request holds when it is about to execute a step. *)
Fits(step, args) ==
    /\ step \in Steps
    /\ args \in Request
    /\ step \in {"mk_count", "mk_insert", "rn_count", "rn_update", "cp_insert"} => args.name \in Names
    /\ step \in {"rn_count", "rn_update", "cp_insert", "cp_children"} \cup PurgeSteps => args.file \in Ids
    /\ step \in TargetSteps => args.target \in Ids \cup {Root}
    /\ step \in {"mv_count"} \cup CopyLoop => args.stack # <<>>
    /\ step \in PurgeSteps => args.stack \in Seq(PurgeFrame)

Local ==
    /\ pc \in [Sessions -> Steps]
    /\ req \in [Sessions -> Request]
    /\ \A s \in Sessions : Fits(pc[s], req[s])

(* The rows of user_file. *)
Tree ==
    /\ used \in 0 .. MaxEntries
    /\ entries \subseteq 1 .. used
    /\ dirs \subseteq 1 .. used
    /\ bin \subseteq entries
    /\ parent \in [Ids -> Ids \cup {Root}]
    /\ \A e \in entries : parent[e] \in entries \cup {Root}
    /\ name \in [Ids -> Names \cup {Null}]
    /\ \A e \in entries : name[e] \in Names

TInv == Local /\ Tree /\ left \in 0 .. MaxRequests

LEMMA FramesWiden == Seq(PurgeFrame) \subseteq Seq(Frame)
<1>1. PurgeFrame \subseteq Frame
  BY DEF PurgeFrame, Frame
<1> QED
  BY <1>1

LEMMA IdleFits == Fits("idle", NoArgs)
<1>1. <<>> \in Seq(Frame)
  BY EmptySeq
<1> QED
  BY <1>1 DEF Fits, NoArgs, Request, Steps, PurgeSteps, CopyLoop, TargetSteps

LEMMA GotoLocal ==
    ASSUME Local, NEW s \in Sessions, NEW step, NEW args, Fits(step, args), Goto(s, step, args)
    PROVE  Local'
  BY DEF Local, Goto, Fits

LEMMA ReturnLocal ==
    ASSUME Local, NEW s \in Sessions, Return(s)
    PROVE  Local'
  BY IdleFits, GotoLocal DEF Return

LEMMA StayLocal ==
    ASSUME Local, UNCHANGED <<pc, req>>
    PROVE  Local'
  BY DEF Local, Fits

(* The rows a statement finds. *)
LEMMA RowsFound ==
    ASSUME Tree, NEW S \in SUBSET entries
    PROVE  /\ S \in SUBSET Ids
           /\ Rows(S) \in SUBSET (Ids \X Names)
<1>1. entries \subseteq Ids
  BY TreeAssumption DEF Tree, Ids
<1> QED
  BY <1>1 DEF Tree, Rows

LEMMA Pushed ==
    ASSUME NEW F, NEW q \in Seq(F), NEW f \in F
    PROVE  <<f>> \o q \in Seq(F) /\ <<f>> \o q # <<>>
<1>1. <<f>> \in Seq(F) /\ <<f>> # <<>>
  OBVIOUS
<1> QED
  BY <1>1, ConcatProperties, ConcatEqualIffEmpty

LEMMA Popped ==
    ASSUME NEW F, NEW q \in Seq(F), q # <<>>
    PROVE  Head(q) \in F /\ Tail(q) \in Seq(F)
  BY HeadTailProperties

LEMMA BatchIds ==
    ASSUME Tree, NEW F \in Batches
    PROVE  F \in SUBSET entries /\ F \in SUBSET Ids
  BY RowsFound DEF Batches

LEMMA EntryIds == Tree => entries \subseteq Ids
  BY TreeAssumption DEF Tree, Ids

-----------------------------------------------------------------------------
(* What a request holds fits its next step. *)

LEMMA BeginFits ==
    ASSUME TInv, NEW s \in Sessions, Call(s)
    PROVE  Local'
<1>1. ASSUME NEW f \in Folders \cup {Root}, NEW n \in Names
      PROVE  Fits("mk_count", [NoArgs EXCEPT !.target = f, !.name = n])
  BY EntryIds, IdleFits DEF TInv, Fits, Folders, Live, NoArgs, Request, Steps, PurgeSteps, CopyLoop, TargetSteps
<1>2. CASE CreateFolder(s)
  BY <1>1, <1>2, GotoLocal DEF CreateFolder, Begin, TInv
<1>3. ASSUME NEW e \in Live, NEW n \in Names
      PROVE  Fits("rn_count", [NoArgs EXCEPT !.file = e, !.cur = parent[e], !.name = n])
  <2>1. e \in Ids /\ parent[e] \in Ids \cup {Root}
    BY EntryIds DEF TInv, Tree, Live
  <2> QED
    BY <2>1, IdleFits DEF Fits, NoArgs, Request, Steps, PurgeSteps, CopyLoop, TargetSteps
<1>4. CASE RenameFile(s)
  BY <1>3, <1>4, GotoLocal DEF RenameFile, Begin, TInv
<1>5. ASSUME NEW F \in Batches, NEW t \in Folders \cup {Root}, NEW step \in {"mv_find", "walk_from"}
      PROVE  Fits(step, [NoArgs EXCEPT !.files = F, !.target = t, !.todo = F])
  <2>1. F \in SUBSET Ids /\ t \in Ids \cup {Root}
    BY BatchIds, EntryIds DEF TInv, Folders, Live
  <2> QED
    BY <2>1, IdleFits DEF Fits, NoArgs, Request, Steps, PurgeSteps, CopyLoop, TargetSteps
<1>6. CASE MoveFiles(s)
  BY <1>5, <1>6, GotoLocal DEF MoveFiles, Begin, TInv
<1>7. ASSUME NEW F \in Batches, NEW t \in Folders \cup {Root}
      PROVE  Fits("cp_find", [NoArgs EXCEPT !.files = F, !.target = t])
  <2>1. F \in SUBSET Ids /\ t \in Ids \cup {Root}
    BY BatchIds, EntryIds DEF TInv, Folders, Live
  <2> QED
    BY <2>1, IdleFits DEF Fits, NoArgs, Request, Steps, PurgeSteps, CopyLoop, TargetSteps
<1>8. CASE CopyFiles(s)
  BY <1>7, <1>8, GotoLocal DEF CopyFiles, Begin, TInv
<1>9. ASSUME NEW e \in bin, NEW step \in PurgeSteps
      PROVE  Fits(step, [NoArgs EXCEPT !.file = e])
  <2>1. e \in Ids
    BY EntryIds DEF TInv, Tree
  <2>2. <<>> \in Seq(PurgeFrame)
    BY EmptySeq
  <2> QED
    BY <2>1, <2>2, IdleFits DEF Fits, NoArgs, Request, Steps, PurgeSteps, CopyLoop, TargetSteps
<1>10. CASE DeleteFileRecord(s)
  BY <1>9, <1>10, GotoLocal DEF DeleteFileRecord, Begin, TInv, PurgeSteps
<1>11. CASE CreateUserFile(s) \/ Recycle(s) \/ RestoreFile(s)
  BY <1>11, StayLocal DEF CreateUserFile, Recycle, RestoreFile, AtOnce, TInv
<1> QED
  BY <1>2, <1>4, <1>6, <1>8, <1>10, <1>11 DEF Call

(* One step of the climb of isChildFolder. *)
LEMMA ClimbFits ==
    ASSUME TInv, NEW s \in Sessions, NEW e \in Ids \cup {Null}, NEW f, ClimbFrom(s, e, f),
           At(s, "walk_from") \/ At(s, "walk")
    PROVE  Local'
<1>1. Fits(pc[s], req[s]) /\ pc[s] \in {"walk_from", "walk"}
  BY DEF TInv, Local, At
<1>2. ASSUME Passed(s, e) PROVE Local'
  <2>1. ASSUME NEW step \in {"mv_find", "walk_from"}
        PROVE  Fits(step, [req[s] EXCEPT !.todo = req[s].todo \ {e}, !.file = Null, !.cur = Null])
    BY <1>1 DEF Fits, Request, Steps, PurgeSteps, CopyLoop, TargetSteps
  <2> QED
    BY <1>2, <2>1, GotoLocal DEF Passed, TInv
<1>3. ASSUME f \in Live, parent[f] \notin {Root, e}, Goto(s, "walk", [req[s] EXCEPT !.file = e, !.cur = parent[f]])
      PROVE  Local'
  <2>1. parent[f] \in Ids
    BY <1>3, EntryIds DEF TInv, Tree, Live
  <2>2. Fits("walk", [req[s] EXCEPT !.file = e, !.cur = parent[f]])
    BY <1>1, <2>1 DEF Fits, Request, Steps, PurgeSteps, CopyLoop, TargetSteps
  <2> QED
    BY <1>3, <2>2, GotoLocal DEF TInv
<1> QED
  BY <1>2, <1>3, ReturnLocal DEF ClimbFrom, Climb, TInv

(* The next row of a recursive purge. *)
LEMMA NextPurgeFits ==
    ASSUME TInv, NEW s \in Sessions, NEW stack \in Seq(PurgeFrame), NextPurge(s, stack)
    PROVE  Local'
<1>1. CASE stack = <<>>
  BY <1>1, ReturnLocal DEF NextPurge, TInv
<1>2. CASE stack # <<>>
  <2> DEFINE top == Head(stack)
  <2>1. top \in PurgeFrame /\ Tail(stack) \in Seq(PurgeFrame)
    BY <1>2, Popped
  <2>2. ASSUME NEW step \in PurgeSteps, NEW e \in Ids, NEW q \in Seq(PurgeFrame)
        PROVE  Fits(step, [NoArgs EXCEPT !.file = e, !.stack = q])
    BY IdleFits, FramesWiden DEF Fits, NoArgs, Request, Steps, PurgeSteps, CopyLoop, TargetSteps
  <2>3. CASE top.rows = {}
    <3>1. top.dir \in Ids
      BY <2>1 DEF PurgeFrame
    <3> QED
      BY <1>2, <2>1, <2>2, <2>3, <3>1, GotoLocal DEF NextPurge, TInv, PurgeSteps
  <2>4. CASE top.rows # {}
    <3>1. PICK r \in top.rows :
             Goto(s, IF r[1] \in dirs THEN "pg_children" ELSE "pg_delete",
                  [NoArgs EXCEPT !.file = r[1], !.stack = <<[top EXCEPT !.rows = @ \ {r}]>> \o Tail(stack)])
      BY <1>2, <2>4 DEF NextPurge
    <3>2. r[1] \in Ids
      BY <2>1 DEF PurgeFrame
    <3>3. [top EXCEPT !.rows = @ \ {r}] \in PurgeFrame
      BY <2>1 DEF PurgeFrame
    <3>4. <<[top EXCEPT !.rows = @ \ {r}]>> \o Tail(stack) \in Seq(PurgeFrame)
      BY <2>1, <3>3, Pushed
    <3> QED
      BY <2>2, <3>1, <3>2, <3>4, GotoLocal DEF TInv, PurgeSteps
  <2> QED
    BY <2>3, <2>4
<1> QED
  BY <1>1, <1>2

LEMMA MoveFits ==
    ASSUME TInv, NEW s \in Sessions,
           WalkFrom(s) \/ Walk(s) \/ FindMoved(s) \/ CountMoved(s) \/ UpdateParent(s)
    PROVE  Local'
<1> DEFINE q == req[s]
<1>1. Fits(pc[s], q) /\ q \in Request
  BY DEF TInv, Local
<1>2. CASE WalkFrom(s)
  <2>1. PICK e \in q.todo : ClimbFrom(s, e, q.target)
    BY <1>2 DEF WalkFrom
  <2> QED
    BY <1>1, <1>2, <2>1, ClimbFits DEF Request, WalkFrom
<1>3. CASE Walk(s)
  BY <1>1, <1>3, ClimbFits DEF Walk, Request
<1>4. CASE FindMoved(s)
  <2>1. CASE q.files \subseteq Live
    <3> DEFINE f == [dir |-> q.target, rows |-> Rows(q.files)]
    <3>1. f.rows \in SUBSET (Ids \X Names)
      BY <2>1, RowsFound DEF TInv, Live
    <3>2. Goto(s, "mv_count", [q EXCEPT !.stack = <<f>>])
      BY <1>4, <2>1 DEF FindMoved
    <3>3. q.target \in Ids \cup {Root}
      BY <1>1, <1>4 DEF Fits, TargetSteps, FindMoved, At
    <3>4. f \in Frame
      BY <3>1, <3>3 DEF Frame
    <3>5. <<f>> \in Seq(Frame) /\ <<f>> # <<>>
      BY <3>4
    <3>6. Fits("mv_count", [q EXCEPT !.stack = <<f>>])
      BY <1>1, <3>3, <3>5 DEF Fits, Request, Steps, PurgeSteps, CopyLoop, TargetSteps
    <3> QED
      BY <3>2, <3>6, GotoLocal DEF TInv
  <2> QED
    BY <1>4, <2>1, ReturnLocal DEF FindMoved, TInv
<1>5. CASE CountMoved(s)
  <2> DEFINE top == Head(q.stack)
  <2>1. top \in Frame
    BY <1>1, <1>5, Popped DEF Fits, CountMoved, At, Request
  <2>2. PICK r \in top.rows :
          IF Taken(top.dir, r[2]) THEN Return(s)
          ELSE Goto(s, IF top.rows = {r} THEN "mv_update" ELSE "mv_count",
                    [q EXCEPT !.stack = <<[top EXCEPT !.rows = @ \ {r}]>>])
    BY <1>5 DEF CountMoved
  <2> DEFINE g == [top EXCEPT !.rows = @ \ {r}]
  <2>3. g \in Frame
    BY <2>1 DEF Frame
  <2>4. <<g>> \in Seq(Frame) /\ <<g>> # <<>>
    BY <2>3
  <2>5. ASSUME NEW step \in {"mv_update", "mv_count"} PROVE Fits(step, [q EXCEPT !.stack = <<g>>])
    BY <1>1, <1>5, <2>4 DEF CountMoved, At, Fits, Request, Steps, PurgeSteps, CopyLoop, TargetSteps
  <2> QED
    BY <2>2, <2>5, GotoLocal, ReturnLocal DEF TInv
<1>6. CASE UpdateParent(s)
  BY <1>6, ReturnLocal DEF UpdateParent, TInv
<1> QED
  BY <1>2, <1>3, <1>4, <1>5, <1>6

(* The next row of a recursive copy. *)
LEMMA NextCopyFits ==
    ASSUME TInv, NEW s \in Sessions, NEW stack \in Seq(Frame), NextCopy(s, stack)
    PROVE  Local'
<1>1. ASSUME stack # <<>> PROVE Fits("cp_count", [NoArgs EXCEPT !.stack = stack])
  BY <1>1, IdleFits DEF Fits, NoArgs, Request, Steps, PurgeSteps, CopyLoop, TargetSteps
<1> QED
  BY <1>1, GotoLocal, ReturnLocal DEF NextCopy, TInv

LEMMA CopyFits ==
    ASSUME TInv, NEW s \in Sessions,
           CopyTarget(s) \/ FindCopied(s) \/ CountCopied(s) \/ InsertCopy(s) \/ CopyChildren(s)
    PROVE  Local'
<1> DEFINE q == req[s]
<1>1. Fits(pc[s], q) /\ q \in Request
  BY DEF TInv, Local
<1>2. CASE CopyTarget(s)
  <2>1. Fits("cp_find", q)
    BY <1>1, <1>2 DEF CopyTarget, At, Fits, Steps, PurgeSteps, CopyLoop, TargetSteps
  <2> QED
    BY <1>2, <2>1, GotoLocal, ReturnLocal DEF CopyTarget, TInv
<1>3. CASE FindCopied(s)
  <2>1. CASE q.files \subseteq Live
    <3> DEFINE f == [dir |-> q.target, rows |-> Rows(q.files)]
    <3>1. f.rows \in SUBSET (Ids \X Names)
      BY <2>1, RowsFound DEF TInv, Live
    <3>2. Goto(s, "cp_count", [q EXCEPT !.stack = <<f>> \o @])
      BY <1>3, <2>1 DEF FindCopied
    <3>3. q.target \in Ids \cup {Root}
      BY <1>1, <1>3 DEF Fits, TargetSteps, FindCopied, At
    <3>4. f \in Frame /\ q.stack \in Seq(Frame)
      BY <1>1, <3>1, <3>3 DEF Frame, Request
    <3>5. <<f>> \o q.stack \in Seq(Frame) /\ <<f>> \o q.stack # <<>>
      BY <3>4, Pushed
    <3>6. Fits("cp_count", [q EXCEPT !.stack = <<f>> \o @])
      BY <1>1, <3>5 DEF Fits, Request, Steps, PurgeSteps, CopyLoop, TargetSteps
    <3> QED
      BY <3>2, <3>6, GotoLocal DEF TInv
  <2> QED
    BY <1>3, <2>1, ReturnLocal DEF FindCopied, TInv
<1>4. CASE CountCopied(s)
  <2> DEFINE top == Head(q.stack)
  <2>1. top \in Frame /\ q.stack # <<>>
    BY <1>1, <1>4, Popped DEF Fits, CountCopied, At, Request, CopyLoop
  <2>2. PICK r \in top.rows :
          IF Taken(top.dir, r[2]) THEN Return(s)
          ELSE Goto(s, "cp_insert", [q EXCEPT !.file = r[1], !.name = r[2]])
    BY <1>4 DEF CountCopied
  <2>3. r[1] \in Ids /\ r[2] \in Names
    BY <2>1 DEF Frame
  <2>4. Fits("cp_insert", [q EXCEPT !.file = r[1], !.name = r[2]])
    BY <1>1, <2>1, <2>3 DEF Fits, Request, Steps, PurgeSteps, CopyLoop, TargetSteps
  <2> QED
    BY <2>2, <2>4, GotoLocal, ReturnLocal DEF TInv
<1>5. CASE InsertCopy(s)
  <2> DEFINE top  == Head(q.stack)
             rows == top.rows \ {<<q.file, q.name>>}
             front == IF rows = {} THEN <<>> ELSE <<[top EXCEPT !.rows = rows]>>
             rest == front \o Tail(q.stack)
  <2>1. q.stack \in Seq(Frame) /\ q.stack # <<>> /\ q.file \in Ids
    BY <1>1, <1>5 DEF Fits, InsertCopy, At, Request, CopyLoop
  <2>2. top \in Frame /\ Tail(q.stack) \in Seq(Frame)
    BY <2>1, Popped
  <2>3. [top EXCEPT !.rows = rows] \in Frame
    BY <2>2 DEF Frame
  <2>4. front \in Seq(Frame)
    BY <2>3
  <2>5. rest \in Seq(Frame)
    BY <2>2, <2>4, ConcatProperties
  <2>6. CASE Insertable(top.dir, q.name) /\ q.file \in dirs
    <3>1. Goto(s, "cp_children", [q EXCEPT !.stack = rest, !.target = used + 1])
      BY <1>5, <2>6 DEF InsertCopy
    <3>2. used + 1 \in Ids
      BY <2>6, TreeAssumption DEF Insertable, TInv, Tree, Ids
    <3>3. Fits("cp_children", [q EXCEPT !.stack = rest, !.target = used + 1])
      BY <1>1, <2>1, <2>5, <3>2 DEF Fits, Request, Steps, PurgeSteps, CopyLoop, TargetSteps
    <3> QED
      BY <3>1, <3>3, GotoLocal DEF TInv
  <2>7. CASE Insertable(top.dir, q.name) /\ q.file \notin dirs
    <3>1. NextCopy(s, rest)
      BY <1>5, <2>7 DEF InsertCopy
    <3> QED
      BY <2>5, <3>1, NextCopyFits
  <2>8. CASE ~ Insertable(top.dir, q.name)
    BY <1>5, <2>8, ReturnLocal DEF InsertCopy, TInv
  <2> QED
    BY <2>6, <2>7, <2>8
<1>6. CASE CopyChildren(s)
  <2> DEFINE children == Children(q.file) \cap Live
  <2>1. children \in SUBSET Ids /\ q.stack \in Seq(Frame)
    BY <1>1, EntryIds DEF TInv, Children, Request
  <2>2. Fits("cp_target", [q EXCEPT !.files = children])
    BY <1>1, <1>6, <2>1 DEF CopyChildren, At, Fits, Request, Steps, PurgeSteps, CopyLoop, TargetSteps
  <2>3. NextCopy(s, q.stack) \/ Goto(s, "cp_target", [q EXCEPT !.files = children])
    BY <1>6 DEF CopyChildren
  <2> QED
    BY <2>1, <2>2, <2>3, GotoLocal, NextCopyFits DEF TInv
<1> QED
  BY <1>2, <1>3, <1>4, <1>5, <1>6

LEMMA PurgeFits ==
    ASSUME TInv, NEW s \in Sessions, PurgeChildren(s) \/ PurgeEntry(s)
    PROVE  Local'
<1> DEFINE q == req[s]
<1>1. q.file \in Ids /\ q.stack \in Seq(PurgeFrame)
  BY DEF TInv, Local, Fits, PurgeChildren, PurgeEntry, At, PurgeSteps
<1>2. CASE PurgeChildren(s)
  <2> DEFINE f == [dir |-> q.file, rows |-> Rows(Children(q.file))]
  <2>1. f.rows \in SUBSET (Ids \X Names)
    BY RowsFound DEF TInv, Children
  <2>2. f \in PurgeFrame
    BY <1>1, <2>1 DEF PurgeFrame
  <2>3. <<f>> \o q.stack \in Seq(PurgeFrame)
    BY <1>1, <2>2, Pushed
  <2> QED
    BY <1>2, <2>3, NextPurgeFits DEF PurgeChildren
<1>3. CASE PurgeEntry(s)
  BY <1>1, <1>3, NextPurgeFits, ReturnLocal DEF PurgeEntry, TInv
<1> QED
  BY <1>2, <1>3

LEMMA LocalStep ==
    ASSUME TInv, [Next]_vars
    PROVE  Local'
<1>1. ASSUME NEW s \in Sessions, Step(s) PROVE Local'
  <2>1. ASSUME CountFolder(s) PROVE Local'
    <3>1. Fits("mk_insert", req[s])
      BY <2>1 DEF TInv, Local, Fits, CountFolder, At, Steps, PurgeSteps, CopyLoop, TargetSteps
    <3> QED
      BY <2>1, <3>1, GotoLocal, ReturnLocal DEF CountFolder, TInv
  <2>2. ASSUME CountNamesakes(s) PROVE Local'
    <3>1. Fits("rn_update", req[s])
      BY <2>2 DEF TInv, Local, Fits, CountNamesakes, At, Steps, PurgeSteps, CopyLoop, TargetSteps
    <3> QED
      BY <2>2, <3>1, GotoLocal, ReturnLocal DEF CountNamesakes, TInv
  <2>3. CASE InsertFolder(s) \/ UpdateName(s)
    BY <2>3, ReturnLocal DEF InsertFolder, UpdateName, TInv
  <2> QED
    BY <1>1, <2>1, <2>2, <2>3, MoveFits, CopyFits, PurgeFits DEF Step
<1>2. ASSUME NEW s \in Sessions, Abort(s) PROVE Local'
  BY <1>2, ReturnLocal DEF Abort, TInv
<1>3. CASE UNCHANGED vars
  BY <1>3, StayLocal DEF vars, TInv
<1> QED
  BY <1>1, <1>2, <1>3, BeginFits DEF Next

-----------------------------------------------------------------------------
(* What the steps do to the rows. *)

LEMMA TreeChanges ==
    ASSUME TInv, [Next]_vars
    PROVE  \/ UNCHANGED treeVars
           \/ \E f, n, d : n \in Names /\ Insertable(f, n) /\ Insert(f, n, d)
           \/ \E s \in Sessions : UpdateName(s) \/ UpdateParent(s) \/ Recycle(s)
                                    \/ RestoreFile(s) \/ PurgeEntry(s)
<1>1. ASSUME NEW s \in Sessions, InsertFolder(s)
      PROVE  UNCHANGED treeVars \/ \E f, n, d : n \in Names /\ Insertable(f, n) /\ Insert(f, n, d)
  <2>1. req[s].name \in Names
    BY <1>1 DEF TInv, Local, Fits, InsertFolder, At
  <2> QED
    BY <1>1, <2>1 DEF InsertFolder
<1>2. ASSUME NEW s \in Sessions, InsertCopy(s)
      PROVE  UNCHANGED treeVars \/ \E f, n, d : n \in Names /\ Insertable(f, n) /\ Insert(f, n, d)
  <2>1. req[s].name \in Names
    BY <1>2 DEF TInv, Local, Fits, InsertCopy, At
  <2> QED
    BY <1>2, <2>1 DEF InsertCopy
<1>3. ASSUME NEW s \in Sessions, CreateUserFile(s)
      PROVE  \E f, n, d : n \in Names /\ Insertable(f, n) /\ Insert(f, n, d)
  BY <1>3 DEF CreateUserFile
<1>4. ASSUME NEW s \in Sessions,
             CreateFolder(s) \/ RenameFile(s) \/ MoveFiles(s) \/ CopyFiles(s) \/ DeleteFileRecord(s) \/ Abort(s)
      PROVE  UNCHANGED treeVars
  BY <1>4 DEF CreateFolder, RenameFile, MoveFiles, CopyFiles, DeleteFileRecord, Abort, Begin
<1>5. ASSUME NEW s \in Sessions,
             \/ CountFolder(s) \/ CountNamesakes(s) \/ WalkFrom(s) \/ Walk(s) \/ FindMoved(s) \/ CountMoved(s)
             \/ CopyTarget(s) \/ FindCopied(s) \/ CountCopied(s) \/ CopyChildren(s) \/ PurgeChildren(s)
      PROVE  UNCHANGED treeVars
  BY <1>5 DEF CountFolder, CountNamesakes, WalkFrom, Walk, FindMoved, CountMoved,
              CopyTarget, FindCopied, CountCopied, CopyChildren, PurgeChildren
<1>6. CASE UNCHANGED vars
  BY <1>6 DEF vars
<1> QED
  BY <1>1, <1>2, <1>3, <1>4, <1>5, <1>6 DEF Next, Call, Step

LEMMA InsertTree ==
    ASSUME Tree, NEW f, NEW n \in Names, NEW d, Insertable(f, n), Insert(f, n, d)
    PROVE  Tree'
<1>1. used \in Nat /\ used + 1 \in Ids /\ used + 1 \notin entries /\ used' = used + 1
  BY TreeAssumption DEF Tree, Ids, Insertable, Insert
<1>2. used' \in 0 .. MaxEntries /\ entries' \subseteq 1 .. used' /\ dirs' \subseteq 1 .. used' /\ bin' \subseteq entries'
  BY <1>1, TreeAssumption DEF Tree, Insert, Insertable
<1>3. parent' \in [Ids -> Ids \cup {Root}] /\ \A e \in entries' : parent'[e] \in entries' \cup {Root}
  BY <1>1, EntryIds DEF Tree, Insert, Insertable
<1>4. name' \in [Ids -> Names \cup {Null}] /\ \A e \in entries' : name'[e] \in Names
  BY <1>1, EntryIds DEF Tree, Insert
<1> QED
  BY <1>2, <1>3, <1>4 DEF Tree

LEMMA TreeStep ==
    ASSUME TInv, [Next]_vars
    PROVE  Tree' /\ left' \in 0 .. MaxRequests
<1>1. Tree'
  <2>1. CASE UNCHANGED treeVars
    BY <2>1 DEF TInv, Tree, treeVars
  <2>2. ASSUME NEW f, NEW n \in Names, NEW d, Insertable(f, n), Insert(f, n, d)
        PROVE  Tree'
    BY <2>2, InsertTree DEF TInv
  <2>3. ASSUME NEW s \in Sessions, UpdateName(s)
        PROVE  Tree'
    <3>1. req[s].name \in Names
      BY <2>3 DEF TInv, Local, Fits, UpdateName, At
    <3> DEFINE e == req[s].file
    <3>2. name' = name \/ name' = [name EXCEPT ![e] = req[s].name]
      BY <2>3 DEF UpdateName
    <3>3. UNCHANGED <<used, entries, dirs, bin, parent>>
      BY <2>3 DEF UpdateName
    <3>4. name' \in [Ids -> Names \cup {Null}] /\ \A d \in entries : name'[d] \in Names
      BY <3>1, <3>2, EntryIds DEF TInv, Tree
    <3> QED
      BY <3>3, <3>4 DEF TInv, Tree
  <2>4. ASSUME NEW s \in Sessions, UpdateParent(s)
        PROVE  Tree'
    BY <2>4, EntryIds DEF UpdateParent, TInv, Tree, Live
  <2>5. ASSUME NEW s \in Sessions, Recycle(s) \/ RestoreFile(s)
        PROVE  Tree'
    BY <2>5 DEF Recycle, RestoreFile, Batches, TInv, Tree, Live
  <2>6. ASSUME NEW s \in Sessions, PurgeEntry(s)
        PROVE  Tree'
    BY <2>6 DEF PurgeEntry, Children, TInv, Tree
  <2> QED
    BY TreeChanges, <2>1, <2>2, <2>3, <2>4, <2>5, <2>6
<1>2. left' \in 0 .. MaxRequests
  <2>1. \/ left' = left
        \/ left > 0 /\ left' = left - 1
    BY DEF Next, Call, Step, Begin, AtOnce, vars, CreateFolder, CreateUserFile, RenameFile, MoveFiles, CopyFiles,
           Recycle, RestoreFile, DeleteFileRecord, CountFolder, InsertFolder, CountNamesakes, UpdateName,
           WalkFrom, Walk, FindMoved, CountMoved, UpdateParent, CopyTarget, FindCopied, CountCopied,
           InsertCopy, CopyChildren, PurgeChildren, PurgeEntry, Abort
  <2> QED
    BY <2>1, TreeAssumption DEF TInv
<1> QED
  BY <1>1, <1>2

LEMMA InitTInv == Init => TInv
<1> SUFFICES ASSUME Init PROVE TInv
  OBVIOUS
<1>1. Local
  BY IdleFits DEF Init, Local, Fits
<1>2. Tree /\ left \in 0 .. MaxRequests
  BY TreeAssumption DEF Init, Tree, Ids
<1> QED
  BY <1>1, <1>2 DEF TInv

(* Types of rows and requests; every parent_id names an existing row.  The   *)
(* invariant says in addition what a request holds at each of its statements. *)
THEOREM TypeCorrect == Spec => []TypeOK
<1>1. TInv /\ [Next]_vars => TInv'
  BY LocalStep, TreeStep DEF TInv
<1>2. TInv => TypeOK
  BY DEF TInv, Local, Tree, TypeOK
<1> QED
  BY InitTInv, <1>1, <1>2, PTL DEF Spec

-----------------------------------------------------------------------------
(* Moves keep a forest. *)

(* Entry t and the folders above it: what every closed set with t contains. *)
Up(t) == {x \in entries : \A P \in SUBSET entries : t \in P /\ Closed(P) => x \in P}

LEMMA UpSelf ==
    ASSUME NEW t \in entries
    PROVE  t \in Up(t)
  BY DEF Up

(* The folders above t are t and those above its parent. *)
LEMMA UpNext ==
    ASSUME Tree, NEW t \in entries, NEW x \in Up(t), x # t
    PROVE  parent[t] # Root /\ parent[t] \in entries /\ x \in Up(parent[t])
<1>1. parent[t] # Root
  <2>1. ASSUME parent[t] = Root PROVE FALSE
    <3>1. {t} \in SUBSET entries /\ Closed({t})
      BY <2>1 DEF Closed
    <3> QED
      BY <3>1 DEF Up
  <2> QED
    BY <2>1
<1>2. parent[t] \in entries
  BY <1>1 DEF Tree
<1>3. ASSUME NEW P \in SUBSET entries, parent[t] \in P, Closed(P)
      PROVE  x \in P
  <2>1. P \cup {t} \in SUBSET entries /\ Closed(P \cup {t})
    BY <1>3 DEF Closed
  <2> QED
    BY <2>1 DEF Up
<1> QED
  BY <1>1, <1>2, <1>3 DEF Up

LEMMA UpClosed ==
    ASSUME Tree, NEW t \in entries
    PROVE  Closed(Up(t))
<1> SUFFICES ASSUME NEW x \in Up(t), parent[x] # Root PROVE parent[x] \in Up(t)
  BY DEF Closed
<1>1. parent[x] \in entries
  BY DEF Tree, Up
<1>2. ASSUME NEW P \in SUBSET entries, t \in P, Closed(P) PROVE parent[x] \in P
  BY <1>2 DEF Up, Closed
<1> QED
  BY <1>1, <1>2 DEF Up

(* A new row is above nothing. *)
LEMMA UpInsert ==
    ASSUME Tree, NEW f, NEW n, NEW d, Insertable(f, n), Insert(f, n, d), NEW t \in entries
    PROVE  Up(t)' = Up(t)
<1>1. used + 1 \notin entries /\ entries' = entries \cup {used + 1} /\ used + 1 \in Ids
  BY TreeAssumption DEF Tree, Insert, Insertable, Ids
<1>2. \A e \in entries : parent'[e] = parent[e] /\ parent[e] \in entries \cup {Root}
  BY <1>1, EntryIds DEF Tree, Insert
<1>3. Root \notin entries'
  BY <1>1, EntryIds, TreeAssumption
<1>4. ASSUME NEW x \in Up(t) PROVE x \in Up(t)'
  <2>1. ASSUME NEW P \in SUBSET entries', t \in P, Closed(P)' PROVE x \in P
    <3>1. P \cap entries \in SUBSET entries /\ Closed(P \cap entries)
      BY <1>2, <2>1 DEF Closed
    <3> QED
      BY <2>1, <3>1 DEF Up
  <2> QED
    BY <1>1, <2>1 DEF Up
<1>5. ASSUME NEW x \in Up(t)' PROVE x \in Up(t)
  <2>1. ASSUME NEW P \in SUBSET entries, t \in P, Closed(P) PROVE x \in P
    <3>1. P \in SUBSET entries' /\ Closed(P)'
      BY <1>1, <1>2, <2>1 DEF Closed
    <3> QED
      BY <2>1, <3>1 DEF Up
  <2>2. entries \in SUBSET entries /\ Closed(entries)
    BY <1>2 DEF Closed
  <2> QED
    BY <2>1, <2>2 DEF Up
<1> QED
  BY <1>4, <1>5

LEMMA InsertForest ==
    ASSUME Tree, Forest, NEW f, NEW n, NEW d, Insertable(f, n), Insert(f, n, d)
    PROVE  Forest'
<1>1. used + 1 \notin entries /\ entries' = entries \cup {used + 1} /\ used + 1 \in Ids
  BY TreeAssumption DEF Tree, Insert, Insertable, Ids
<1>2. \A e \in entries : parent'[e] = parent[e] /\ parent[e] \in entries \cup {Root}
  BY <1>1, EntryIds DEF Tree, Insert
<1>3. parent'[used + 1] = f /\ f \in entries \cup {Root}
  BY <1>1 DEF Tree, Insert, Insertable
<1>4. Root \notin entries'
  BY <1>1, EntryIds, TreeAssumption
<1> SUFFICES ASSUME NEW S \in SUBSET entries', S # {}, \A e \in S : parent'[e] \in S
             PROVE  FALSE
  BY DEF Forest
<1> DEFINE T == S \cap entries
<1>5. T # {}
  BY <1>1, <1>3, <1>4
<1>6. \A e \in T : parent[e] \in T
  BY <1>2, <1>4
<1> QED
  BY <1>5, <1>6 DEF Forest

(* A move below a folder that none of the moved entries is above. *)
LEMMA MoveForest ==
    ASSUME Tree, Forest, NEW s \in Sessions, UpdateParent(s),
           \/ req[s].target = Root
           \/ req[s].target \in entries /\ req[s].files \cap Up(req[s].target) = {}
    PROVE  Forest'
<1> DEFINE t == req[s].target
           moved == req[s].files \cap Live
<1>1. entries' = entries
  BY DEF UpdateParent
<1>2. parent' = parent \/ \A e \in entries : parent'[e] = IF e \in moved THEN t ELSE parent[e]
  BY EntryIds DEF UpdateParent
<1>3. Root \notin entries
  BY EntryIds, TreeAssumption
<1> SUFFICES ASSUME NEW S \in SUBSET entries, S # {}, \A e \in S : parent'[e] \in S
             PROVE  FALSE
  BY <1>1 DEF Forest
<1>4. CASE parent' = parent \/ moved \cap S = {}
  BY <1>2, <1>4 DEF Forest
<1>5. CASE ~ (parent' = parent) /\ moved \cap S # {}
  <2>1. t \in S
    BY <1>2, <1>5
  <2>2. t \in entries /\ req[s].files \cap Up(t) = {}
    BY <1>3, <2>1
  <2> DEFINE T == S \cap Up(t)
  <2>3. t \in T
    BY <2>1, <2>2, UpSelf
  <2>4. ASSUME NEW e \in T PROVE parent[e] \in T
    <3>1. parent[e] \in S /\ parent[e] # Root
      BY <1>2, <1>3, <1>5, <2>2
    <3>2. parent[e] \in Up(t)
      BY <2>2, <3>1, UpClosed DEF Closed
    <3> QED
      BY <3>1, <3>2
  <2> QED
    BY <2>3, <2>4 DEF Forest
<1> QED
  BY <1>4, <1>5

(* The steps of MoveFiles, of which one session is capable. *)
WalkSteps == {"walk_from", "walk"}
MoveSteps == WalkSteps \cup {"mv_find", "mv_count", "mv_update"}

(* What the subfolder check has established: none of the moved entries is     *)
(* above the target, save those still to be checked; the one in hand could    *)
(* only be found above the folder the climb has come to.                      *)
Checked(s) ==
    LET q == req[s] IN
    \/ q.target = Root /\ pc[s] \notin WalkSteps
    \/ /\ q.target \in entries
       /\ q.target \notin q.files
       /\ \A e \in q.files \cap Up(q.target) :
             /\ pc[s] \in WalkSteps
             /\ e \in q.todo
             /\ pc[s] = "walk" /\ e = q.file => e \in Up(q.cur)
       /\ pc[s] = "walk" => q.cur \in entries /\ q.cur # q.file
       /\ pc[s] \in WalkSteps => q.todo \subseteq q.files

MoveInv ==
    /\ TInv
    /\ Forest
    /\ bin = {}
    /\ \A s \in Sessions : pc[s] \notin PurgeSteps
    /\ \A s \in Sessions : pc[s] \in MoveSteps => "move" \in OpsOf[s] /\ Checked(s)

PurgeCall(s) == DeleteFileRecord(s) \/ PurgeChildren(s) \/ PurgeEntry(s)
MoveCheck(s) == MoveFiles(s) \/ WalkFrom(s) \/ Walk(s) \/ FindMoved(s) \/ CountMoved(s)

(* Who goes where. *)
LEMMA PcChanges ==
    ASSUME [Next]_vars
    PROVE  \/ UNCHANGED <<pc, req>>
           \/ \E args : \E s \in Sessions, step \in Steps \ (MoveSteps \cup PurgeSteps) : Goto(s, step, args)
           \/ \E s \in Sessions : MoveCheck(s) \/ PurgeCall(s)
<1> DEFINE Other == \E args : \E s \in Sessions, step \in Steps \ (MoveSteps \cup PurgeSteps) : Goto(s, step, args)
<1>0. {"idle", "mk_count", "mk_insert", "rn_count", "rn_update", "cp_target", "cp_find", "cp_count",
       "cp_insert", "cp_children"} \subseteq Steps \ (MoveSteps \cup PurgeSteps)
  BY DEF Steps, MoveSteps, WalkSteps, PurgeSteps
<1>1. ASSUME NEW s \in Sessions, Return(s) PROVE Other
  BY <1>0, <1>1 DEF Return
<1>2. ASSUME NEW s \in Sessions, CreateFolder(s) \/ RenameFile(s) \/ CopyFiles(s) PROVE Other
  BY <1>0, <1>2 DEF CreateFolder, RenameFile, CopyFiles, Begin
<1>3. ASSUME NEW s \in Sessions, CreateUserFile(s) \/ Recycle(s) \/ RestoreFile(s) PROVE UNCHANGED <<pc, req>>
  BY <1>3 DEF CreateUserFile, Recycle, RestoreFile, AtOnce
<1>6. ASSUME NEW s \in Sessions, CountFolder(s) \/ CountNamesakes(s) \/ CopyTarget(s) PROVE Other
  BY <1>0, <1>1, <1>6 DEF CountFolder, CountNamesakes, CopyTarget
<1>7. ASSUME NEW s \in Sessions, InsertFolder(s) \/ UpdateName(s) \/ UpdateParent(s) \/ Abort(s) PROVE Other
  BY <1>1, <1>7 DEF InsertFolder, UpdateName, UpdateParent, Abort
<1>8. ASSUME NEW s \in Sessions, FindCopied(s) \/ CountCopied(s) PROVE Other
  BY <1>0, <1>1, <1>8 DEF FindCopied, CountCopied
<1>9. ASSUME NEW s \in Sessions, NEW stack, NextCopy(s, stack) PROVE Other
  BY <1>0, <1>1, <1>9 DEF NextCopy
<1>10. ASSUME NEW s \in Sessions, InsertCopy(s) \/ CopyChildren(s) PROVE Other
  BY <1>0, <1>1, <1>9, <1>10 DEF InsertCopy, CopyChildren
<1>11. CASE UNCHANGED vars
  BY <1>11 DEF vars
<1> HIDE DEF Other
<1>12. ASSUME NEW s \in Sessions, Call(s) PROVE UNCHANGED <<pc, req>> \/ Other \/ MoveCheck(s) \/ PurgeCall(s)
  BY <1>2, <1>3, <1>12 DEF Call, MoveCheck, PurgeCall
<1>13. ASSUME NEW s \in Sessions, Step(s) PROVE Other \/ MoveCheck(s) \/ PurgeCall(s)
  BY <1>6, <1>7, <1>8, <1>10, <1>13 DEF Step, MoveCheck, PurgeCall
<1>14. ASSUME NEW s \in Sessions, Abort(s) PROVE Other
  BY <1>7, <1>14
<1>15. CASE Next
  <2>1. PICK s \in Sessions : Call(s) \/ Step(s) \/ Abort(s)
    BY <1>15 DEF Next
  <2>2. UNCHANGED <<pc, req>> \/ Other \/ MoveCheck(s) \/ PurgeCall(s)
    BY <2>1, <1>12, <1>13, <1>14
  <2> QED
    BY <2>2 DEF Other
<1> QED
  BY <1>11, <1>15

LEMMA MoveGoes ==
    ASSUME NEW s \in Sessions, MoveCheck(s)
    PROVE  \E args : \E step \in MoveSteps \cup {"idle"} : Goto(s, step, args)
<1>1. {"idle", "walk_from", "walk", "mv_find", "mv_count", "mv_update"} \subseteq MoveSteps \cup {"idle"}
  BY DEF MoveSteps, WalkSteps
<1>2. ASSUME NEW e, NEW f, ClimbFrom(s, e, f)
      PROVE  \E args : \E step \in MoveSteps \cup {"idle"} : Goto(s, step, args)
  BY <1>1, <1>2 DEF ClimbFrom, Climb, Passed, Return
<1>3. CASE MoveFiles(s)
  BY <1>1, <1>3 DEF MoveFiles, Begin
<1>4. CASE WalkFrom(s) \/ Walk(s)
  BY <1>2, <1>4 DEF WalkFrom, Walk
<1>5. CASE FindMoved(s) \/ CountMoved(s)
  BY <1>1, <1>5 DEF FindMoved, CountMoved, Return
<1> QED
  BY <1>3, <1>4, <1>5 DEF MoveCheck

(* The tree of a move's session may only change under it by inserts. *)
LEMMA CheckedKept ==
    ASSUME Tree, NEW s \in Sessions, Checked(s), pc'[s] = pc[s], req'[s] = req[s],
           \/ entries' = entries /\ parent' = parent
           \/ \E f, n, d : Insertable(f, n) /\ Insert(f, n, d)
    PROVE  Checked(s)'
<1>1. entries \subseteq entries' /\ \A t \in entries : Up(t)' = Up(t)
  <2>1. CASE entries' = entries /\ parent' = parent
    BY <2>1 DEF Up, Closed
  <2>2. ASSUME NEW f, NEW n, NEW d, Insertable(f, n), Insert(f, n, d)
        PROVE  entries \subseteq entries' /\ \A t \in entries : Up(t)' = Up(t)
    BY <2>2, UpInsert DEF Insert
  <2> QED
    BY <2>1, <2>2
<1>2. CASE req[s].target = Root /\ pc[s] \notin WalkSteps
  BY <1>2 DEF Checked
<1>3. CASE ~ (req[s].target = Root /\ pc[s] \notin WalkSteps)
  <2>1. req[s].target \in entries
    BY <1>3 DEF Checked
  <2>2. Up(req[s].target)' = Up(req[s].target)
    BY <1>1, <2>1 DEF Up
  <2>3. ASSUME pc[s] = "walk" PROVE req[s].cur \in entries /\ Up(req[s].cur)' = Up(req[s].cur)
    BY <1>1, <1>3, <2>3 DEF Checked
  <2> QED
    BY <1>1, <1>3, <2>1, <2>2, <2>3 DEF Checked
<1> QED
  BY <1>2, <1>3

(* The subfolder check, statement by statement. *)
LEMMA CheckStep ==
    ASSUME MoveInv, NEW s \in Sessions, MoveCheck(s)
    PROVE  pc'[s] \in MoveSteps => "move" \in OpsOf[s] /\ Checked(s)'
<1> DEFINE q == req[s]
<1>0. UNCHANGED treeVars
  BY DEF MoveCheck, MoveFiles, WalkFrom, Walk, FindMoved, CountMoved, Begin
<1>1. Live = entries /\ s \in DOMAIN pc /\ s \in DOMAIN req /\ q \in Request
  BY DEF MoveInv, Live, TInv, Local
<1>2. \A t : Up(t)' = Up(t)
  BY <1>0 DEF Up, Closed, treeVars
<1>3. ASSUME Return(s) PROVE pc'[s] \notin MoveSteps
  BY <1>1, <1>3 DEF Return, Goto, MoveSteps, WalkSteps
<1>4. CASE MoveFiles(s)
  <2>1. PICK F \in Batches, t \in Folders \cup {Root} :
          /\ t \notin F
          /\ Begin(s, "move", IF t = Root THEN "mv_find" ELSE "walk_from",
                   [NoArgs EXCEPT !.files = F, !.target = t, !.todo = F])
    BY <1>4 DEF MoveFiles
  <2>2. "move" \in OpsOf[s]
    BY <2>1 DEF Begin
  <2>3. /\ pc'[s] = IF t = Root THEN "mv_find" ELSE "walk_from"
        /\ req'[s] = [NoArgs EXCEPT !.files = F, !.target = t, !.todo = F]
    BY <1>1, <2>1 DEF Begin, Goto
  <2>4. req'[s].files = F /\ req'[s].target = t /\ req'[s].todo = F
    BY <2>3 DEF NoArgs
  <2>5. t \in entries' \/ t = Root
    BY <1>0, <1>1 DEF Folders, treeVars
  <2> QED
    BY <2>1, <2>2, <2>3, <2>4, <2>5 DEF Checked, WalkSteps
<1>5. ASSUME NEW e, NEW f \in entries, f # e, ClimbFrom(s, e, f), pc[s] \in WalkSteps, Checked(s), "move" \in OpsOf[s],
             e \in q.files \cap Up(q.target) => e \in Up(f),
             q.todo \subseteq q.files,
             \A d \in q.files \cap Up(q.target) : d \in q.todo
      PROVE  pc'[s] \in MoveSteps => "move" \in OpsOf[s] /\ Checked(s)'
  <2>1. q.target \in entries /\ q.target \notin q.files
    BY <1>5 DEF Checked
  <2>2. CASE parent[f] = Root
    <3>1. e \notin q.files \cap Up(q.target)
      BY <1>5, <2>2, UpNext DEF MoveInv, TInv
    <3>2. Passed(s, e) \/ Return(s)
      BY <1>1, <1>5, <2>2 DEF ClimbFrom, Climb
    <3> DEFINE rest == q.todo \ {e}
    <3>3. ASSUME Passed(s, e)
          PROVE  /\ pc'[s] = IF rest = {} THEN "mv_find" ELSE "walk_from"
                 /\ req'[s] = [q EXCEPT !.todo = rest, !.file = Null, !.cur = Null]
      BY <1>1, <3>3 DEF Passed, Goto
    <3>4. ASSUME Passed(s, e)
          PROVE  req'[s].files = q.files /\ req'[s].target = q.target /\ req'[s].todo = rest
      BY <1>1, <3>3, <3>4 DEF Request
    <3>5. \A d \in q.files \cap Up(q.target) : d \in rest
      BY <1>5, <3>1
    <3>6. ASSUME Passed(s, e) PROVE Checked(s)'
      <4>1. Up(q.target)' = Up(q.target) /\ entries' = entries /\ rest \subseteq q.files
        BY <1>0, <1>5, <3>4, <3>6 DEF Up, Closed, treeVars
      <4>2. CASE rest = {}
        BY <2>1, <3>3, <3>4, <3>5, <3>6, <4>1, <4>2 DEF Checked, WalkSteps
      <4>3. CASE rest # {}
        BY <2>1, <3>3, <3>4, <3>5, <3>6, <4>1, <4>3 DEF Checked, WalkSteps
      <4> QED
        BY <4>2, <4>3
    <3> QED
      BY <1>3, <1>5, <3>2, <3>6
  <2>3. CASE parent[f] = e /\ e # Root
    <3>1. Return(s)
      BY <1>1, <1>5, <2>3 DEF ClimbFrom, Climb
    <3> QED
      BY <1>3, <3>1
  <2>4. CASE parent[f] \notin {Root, e}
    <3>1. Goto(s, "walk", [q EXCEPT !.file = e, !.cur = parent[f]])
      BY <1>1, <1>5, <2>4 DEF ClimbFrom, Climb
    <3>2. pc'[s] = "walk" /\ req'[s] = [q EXCEPT !.file = e, !.cur = parent[f]]
      BY <1>1, <3>1 DEF Goto
    <3>3. /\ req'[s].files = q.files /\ req'[s].target = q.target /\ req'[s].todo = q.todo
          /\ req'[s].file = e /\ req'[s].cur = parent[f]
      BY <1>1, <3>2 DEF Request
    <3>4. parent[f] \in entries
      BY <2>4 DEF MoveInv, TInv, Tree
    <3>5. e \in q.files \cap Up(q.target) => e \in Up(parent[f])
      BY <1>5, UpNext DEF MoveInv, TInv
    <3> QED
      BY <1>0, <1>2, <1>5, <2>1, <2>4, <3>2, <3>3, <3>4, <3>5 DEF Checked, WalkSteps, treeVars
  <2> QED
    BY <2>2, <2>3, <2>4
<1>6. ASSUME pc[s] \in MoveSteps PROVE "move" \in OpsOf[s] /\ Checked(s)
  BY <1>6 DEF MoveInv
<1>7. CASE WalkFrom(s)
  <2>1. PICK e \in q.todo : ClimbFrom(s, e, q.target)
    BY <1>7 DEF WalkFrom
  <2>2. pc[s] = "walk_from" /\ Checked(s) /\ "move" \in OpsOf[s]
    BY <1>6, <1>7 DEF WalkFrom, At, MoveSteps, WalkSteps
  <2>3. q.target \in entries
    BY <2>2 DEF Checked, WalkSteps
  <2>4. q.target # e
    BY <2>1, <2>2 DEF Checked, WalkSteps
  <2> QED
    BY <1>5, <2>1, <2>2, <2>3, <2>4 DEF Checked, WalkSteps
<1>8. CASE Walk(s)
  <2>1. pc[s] = "walk" /\ Checked(s) /\ "move" \in OpsOf[s] /\ ClimbFrom(s, q.file, q.cur)
    BY <1>6, <1>8 DEF Walk, At, MoveSteps, WalkSteps
  <2> QED
    BY <1>5, <2>1 DEF Checked, WalkSteps
<1>9. ASSUME NEW step \in MoveSteps \ WalkSteps, NEW stack, Goto(s, step, [q EXCEPT !.stack = stack]),
             pc[s] \in MoveSteps \ WalkSteps
      PROVE  "move" \in OpsOf[s] /\ Checked(s)'
  <2>1. pc'[s] = step /\ req'[s] = [q EXCEPT !.stack = stack]
    BY <1>1, <1>9 DEF Goto
  <2>2. req'[s].files = q.files /\ req'[s].target = q.target
    BY <1>1, <2>1 DEF Request
  <2> QED
    BY <1>0, <1>2, <1>6, <1>9, <2>1, <2>2 DEF Checked, WalkSteps, treeVars
<1>10. CASE FindMoved(s)
  <2>1. pc[s] \in MoveSteps \ WalkSteps /\ "mv_count" \in MoveSteps \ WalkSteps
    BY <1>10 DEF FindMoved, At, MoveSteps, WalkSteps
  <2> QED
    BY <1>3, <1>9, <1>10, <2>1 DEF FindMoved
<1>11. CASE CountMoved(s)
  <2>1. pc[s] \in MoveSteps \ WalkSteps /\ {"mv_count", "mv_update"} \subseteq MoveSteps \ WalkSteps
    BY <1>11 DEF CountMoved, At, MoveSteps, WalkSteps
  <2> QED
    BY <1>3, <1>9, <1>11, <2>1 DEF CountMoved
<1> QED
  BY <1>4, <1>7, <1>8, <1>10, <1>11 DEF MoveCheck

LEMMA MoveStep ==
    ASSUME MoveInv, OneMover, NoRecycle, [Next]_vars
    PROVE  MoveInv'
<1> DEFINE Grows == \/ entries' = entries /\ parent' = parent
                    \/ \E f, n, d : Insertable(f, n) /\ Insert(f, n, d)
           Others(s) == \A r \in Sessions \ {s} : pc'[r] = pc[r] /\ req'[r] = req[r]
<1>1. TInv'
  BY LocalStep, TreeStep DEF MoveInv, TInv
<1>2. (\E s \in Sessions : UpdateParent(s)) \/ (bin' = bin /\ Grows)
  <2>1. ASSUME NEW s \in Sessions, Recycle(s) \/ RestoreFile(s) \/ PurgeEntry(s) PROVE FALSE
    BY <2>1 DEF Recycle, RestoreFile, PurgeEntry, AtOnce, At, NoRecycle, MoveInv, PurgeSteps
  <2>2. ASSUME NEW s \in Sessions, UpdateName(s) PROVE bin' = bin /\ Grows
    BY <2>2 DEF UpdateName
  <2>3. CASE UNCHANGED treeVars
    BY <2>3 DEF treeVars
  <2>4. ASSUME NEW f, NEW n, NEW d, Insertable(f, n), Insert(f, n, d) PROVE bin' = bin /\ Grows
    BY <2>4 DEF Insert
  <2> QED
    BY TreeChanges, <2>1, <2>2, <2>3, <2>4 DEF MoveInv
<1>3. ASSUME NEW s \in Sessions, NEW step, NEW args, Goto(s, step, args)
      PROVE  Others(s) /\ pc'[s] = step
  BY <1>3 DEF Goto, MoveInv, TInv, Local
<1>4. ASSUME Grows, NEW s \in Sessions, pc'[s] = pc[s], req'[s] = req[s]
      PROVE  pc'[s] \in MoveSteps => "move" \in OpsOf[s] /\ Checked(s)'
  BY <1>4, CheckedKept DEF MoveInv, TInv
<1>5. bin' = {}
  <2>1. ASSUME NEW s \in Sessions, UpdateParent(s) PROVE bin' = bin
    BY <2>1 DEF UpdateParent
  <2> QED
    BY <1>2, <2>1 DEF MoveInv
<1>6. CASE \E s \in Sessions : UpdateParent(s)
  <2>1. PICK s \in Sessions : UpdateParent(s)
    BY <1>6
  <2>2. Others(s) /\ pc'[s] = "idle" /\ pc[s] = "mv_update"
    BY <1>3, <2>1 DEF UpdateParent, Return, At
  <2>3. "move" \in OpsOf[s] /\ Checked(s)
    BY <2>2 DEF MoveInv, MoveSteps
  <2>4. ASSUME NEW r \in Sessions, r # s PROVE pc'[r] \notin MoveSteps
    BY <2>2, <2>3, <2>4 DEF MoveInv, OneMover
  <2>5. Forest'
    BY <2>1, <2>2, <2>3, MoveForest DEF Checked, WalkSteps, MoveInv, TInv
  <2>6. \A r \in Sessions : pc'[r] \notin MoveSteps
    BY <2>2, <2>4 DEF MoveSteps, WalkSteps
  <2>7. \A r \in Sessions : pc'[r] \notin PurgeSteps
    BY <2>2 DEF MoveInv, PurgeSteps
  <2> QED
    BY <1>1, <1>5, <2>5, <2>6, <2>7 DEF MoveInv
<1>7. CASE bin' = bin /\ Grows
  <2>1. Forest'
    <3>1. CASE entries' = entries /\ parent' = parent
      BY <3>1 DEF Forest, MoveInv
    <3> QED
      BY <1>7, <3>1, InsertForest DEF MoveInv, TInv
  <2>2. ASSUME UNCHANGED <<pc, req>>
        PROVE  \A r \in Sessions : /\ pc'[r] \notin PurgeSteps
                                   /\ pc'[r] \in MoveSteps => "move" \in OpsOf[r] /\ Checked(r)'
    BY <1>4, <1>7, <2>2 DEF MoveInv
  <2>3. ASSUME NEW s \in Sessions, NEW step \in Steps \ (MoveSteps \cup PurgeSteps), NEW args, Goto(s, step, args)
        PROVE  \A r \in Sessions : /\ pc'[r] \notin PurgeSteps
                                   /\ pc'[r] \in MoveSteps => "move" \in OpsOf[r] /\ Checked(r)'
    <3>1. Others(s) /\ pc'[s] = step
      BY <1>3, <2>3
    <3>2. ASSUME NEW r \in Sessions, r # s
          PROVE /\ pc'[r] \notin PurgeSteps
                /\ pc'[r] \in MoveSteps => "move" \in OpsOf[r] /\ Checked(r)'
      BY <1>4, <1>7, <3>1, <3>2 DEF MoveInv
    <3> QED
      BY <3>1, <3>2
  <2>4. ASSUME NEW s \in Sessions, MoveCheck(s)
        PROVE  \A r \in Sessions : /\ pc'[r] \notin PurgeSteps
                                   /\ pc'[r] \in MoveSteps => "move" \in OpsOf[r] /\ Checked(r)'
    <3>1. \E args : \E step \in MoveSteps \cup {"idle"} : Goto(s, step, args)
      BY <2>4, MoveGoes
    <3>2. Others(s) /\ pc'[s] \notin PurgeSteps
      BY <1>3, <3>1 DEF MoveSteps, WalkSteps, PurgeSteps
    <3>3. ASSUME NEW r \in Sessions, r # s
          PROVE /\ pc'[r] \notin PurgeSteps
                /\ pc'[r] \in MoveSteps => "move" \in OpsOf[r] /\ Checked(r)'
      BY <1>4, <1>7, <3>2, <3>3 DEF MoveInv
    <3> QED
      BY <2>4, <3>2, <3>3, CheckStep
  <2>5. ASSUME NEW s \in Sessions, PurgeCall(s)
        PROVE  FALSE
    BY <2>5 DEF PurgeCall, DeleteFileRecord, PurgeChildren, PurgeEntry, At, MoveInv, PurgeSteps
  <2> QED
    BY <1>1, <1>5, <2>1, <2>2, <2>3, <2>4, <2>5, PcChanges DEF MoveInv
<1> QED
  BY <1>2, <1>6, <1>7

(* If one session moves folders and nothing lies in the recycle bin, moves   *)
(* never close a cycle, whatever other sessions create, upload, rename and    *)
(* copy between the SELECTs of isChildFolder and the UPDATE of MoveFiles.     *)
THEOREM MovesKeepForest == OneMover /\ NoRecycle => (Spec => []Forest)
<1> SUFFICES ASSUME OneMover, NoRecycle PROVE Spec => []Forest
  OBVIOUS
<1>1. Init => MoveInv
  <2> SUFFICES ASSUME Init PROVE MoveInv
    OBVIOUS
  <2>1. Forest
    BY DEF Init, Forest
  <2> QED
    BY <2>1, InitTInv DEF Init, MoveInv, MoveSteps, WalkSteps, PurgeSteps
<1>2. MoveInv /\ [Next]_vars => MoveInv'
  BY MoveStep
<1>3. MoveInv => Forest
  BY DEF MoveInv
<1> QED
  BY <1>1, <1>2, <1>3, PTL DEF Spec

-----------------------------------------------------------------------------
(* A purge deletes from the recycle bin only. *)

(* Ids whose row, if it is still there, lies in the recycle bin or below it. *)
Dead == {e \in 1 .. used : e \in entries => Recycled(e)}

DeadFrame(D) == [dir : D, rows : SUBSET (D \X Names)]

(* A purge works on the dead alone. *)
Held(s) == req[s].file \in Dead /\ req[s].stack \in Seq(DeadFrame(Dead))

PurgeInv ==
    /\ TInv
    /\ \A s \in Sessions : pc[s] \in MoveSteps => "move" \in OpsOf[s]
    /\ \A s \in Sessions : pc[s] \in PurgeSteps => "purge" \in OpsOf[s] /\ Held(s)

LEMMA FramesGrow ==
    ASSUME NEW D, NEW E, D \subseteq E
    PROVE  Seq(DeadFrame(D)) \subseteq Seq(DeadFrame(E))
<1>1. DeadFrame(D) \subseteq DeadFrame(E)
  BY DEF DeadFrame
<1> QED
  BY <1>1

(* What lies in a dead folder is dead. *)
LEMMA ChildDead ==
    ASSUME Tree, NEW e \in Dead, NEW c \in Children(e)
    PROVE  c \in Dead
<1>1. c \in entries /\ parent[c] = e /\ c \in 1 .. used
  BY DEF Children, Tree
<1>2. e \in entries /\ e # Root
  <2>1. e \in Ids
    BY TreeAssumption DEF Dead, Tree, Ids
  <2> QED
    BY <1>1, <2>1, TreeAssumption DEF Tree
<1>3. Recycled(e)
  BY <1>2 DEF Dead
<1>4. ASSUME NEW S \in SUBSET entries, c \in S, Closed(S) PROVE S \cap bin # {}
  <2>1. e \in S
    BY <1>1, <1>2, <1>4 DEF Closed
  <2> QED
    BY <1>3, <1>4, <2>1 DEF Recycled
<1> QED
  BY <1>1, <1>4 DEF Dead, Recycled

(* Nobody raises the dead but RestoreFile and MoveFiles. *)
LEMMA DeadStay ==
    ASSUME TInv, [Next]_vars, \A s \in Sessions : ~ UpdateParent(s) /\ ~ RestoreFile(s)
    PROVE  Dead \subseteq Dead'
<1>0. Tree /\ used \in Nat
  BY DEF TInv, Tree
<1>1. CASE UNCHANGED <<used, entries, bin, parent>>
  BY <1>1 DEF Dead, Recycled, Closed
<1>2. ASSUME NEW f, NEW n \in Names, NEW d, Insertable(f, n), Insert(f, n, d)
      PROVE  Dead \subseteq Dead'
  <2>1. /\ used + 1 \notin entries /\ used' = used + 1 /\ entries' = entries \cup {used + 1} /\ bin' = bin
    BY <1>0, <1>2 DEF Tree, Insert
  <2>2. \A e \in entries : parent'[e] = parent[e] /\ parent[e] \in entries \cup {Root}
    BY <1>0, <1>2, <2>1, EntryIds DEF Tree, Insert
  <2> SUFFICES ASSUME NEW e \in Dead, e \in entries', NEW S \in SUBSET entries', e \in S, Closed(S)'
               PROVE  S \cap bin' # {}
    BY <1>0, <2>1 DEF Dead, Recycled
  <2>3. e \in entries
    BY <1>0, <2>1 DEF Dead
  <2>4. S \cap entries \in SUBSET entries /\ Closed(S \cap entries)
    BY <2>2 DEF Closed
  <2>5. Recycled(e)
    BY <2>3 DEF Dead
  <2> QED
    BY <2>1, <2>3, <2>4, <2>5 DEF Recycled
<1>3. ASSUME NEW s \in Sessions, UpdateName(s) PROVE Dead \subseteq Dead'
  BY <1>1, <1>3 DEF UpdateName
<1>4. ASSUME NEW s \in Sessions, Recycle(s) PROVE Dead \subseteq Dead'
  <2>1. UNCHANGED <<used, entries, parent>> /\ bin \subseteq bin'
    BY <1>4 DEF Recycle
  <2> QED
    BY <2>1 DEF Dead, Recycled, Closed
<1>5. ASSUME NEW s \in Sessions, PurgeEntry(s) PROVE Dead \subseteq Dead'
  <2> DEFINE x == req[s].file
  <2>1. CASE UNCHANGED <<used, entries, bin, parent>>
    BY <1>1, <2>1
  <2>2. CASE entries' = entries \ {x} /\ bin' = bin \ {x} /\ UNCHANGED <<used, parent>>
    <3> SUFFICES ASSUME NEW e \in Dead, e \in entries', NEW S \in SUBSET entries', e \in S, Closed(S)'
                 PROVE  S \cap bin' # {}
      BY <2>2 DEF Dead, Recycled
    <3>1. S \in SUBSET entries /\ Closed(S) /\ x \notin S
      BY <2>2 DEF Closed
    <3>2. Recycled(e)
      BY <2>2 DEF Dead
    <3> QED
      BY <2>2, <3>1, <3>2 DEF Recycled
  <2> QED
    BY <1>5, <2>1, <2>2 DEF PurgeEntry
<1>6. CASE UNCHANGED treeVars
  BY <1>1, <1>6 DEF treeVars
<1> QED
  BY TreeChanges, <1>2, <1>3, <1>4, <1>5, <1>6

LEMMA NextPurgeDead ==
    ASSUME TInv, NEW s \in Sessions, NEW D, NEW stack \in Seq(DeadFrame(D)), NextPurge(s, stack)
    PROVE  pc'[s] \in PurgeSteps => req'[s].file \in D /\ req'[s].stack \in Seq(DeadFrame(D))
<1>0. s \in DOMAIN pc /\ s \in DOMAIN req
  BY DEF TInv, Local
<1>1. ASSUME NEW step, NEW e \in D, NEW q \in Seq(DeadFrame(D)), Goto(s, step, [NoArgs EXCEPT !.file = e, !.stack = q])
      PROVE  req'[s].file \in D /\ req'[s].stack \in Seq(DeadFrame(D))
  <2>1. req'[s] = [NoArgs EXCEPT !.file = e, !.stack = q]
    BY <1>0, <1>1 DEF Goto
  <2>2. req'[s].file = e /\ req'[s].stack = q
    BY <2>1 DEF NoArgs
  <2> QED
    BY <2>2
<1>2. CASE stack = <<>>
  <2>1. pc'[s] = "idle"
    BY <1>0, <1>2 DEF NextPurge, Return, Goto
  <2> QED
    BY <2>1 DEF PurgeSteps
<1>3. CASE stack # <<>>
  <2> DEFINE top == Head(stack)
  <2>1. top \in DeadFrame(D) /\ Tail(stack) \in Seq(DeadFrame(D))
    BY <1>3, Popped
  <2>2. CASE top.rows = {}
    <3>1. top.dir \in D
      BY <2>1 DEF DeadFrame
    <3>2. Goto(s, "pg_delete", [NoArgs EXCEPT !.file = top.dir, !.stack = Tail(stack)])
      BY <1>3, <2>2 DEF NextPurge
    <3> QED
      BY <1>1, <2>1, <3>1, <3>2
  <2>3. CASE top.rows # {}
    <3>1. PICK r \in top.rows :
             Goto(s, IF r[1] \in dirs THEN "pg_children" ELSE "pg_delete",
                  [NoArgs EXCEPT !.file = r[1], !.stack = <<[top EXCEPT !.rows = @ \ {r}]>> \o Tail(stack)])
      BY <1>3, <2>3 DEF NextPurge
    <3>2. r[1] \in D /\ [top EXCEPT !.rows = @ \ {r}] \in DeadFrame(D)
      BY <2>1 DEF DeadFrame
    <3>3. <<[top EXCEPT !.rows = @ \ {r}]>> \o Tail(stack) \in Seq(DeadFrame(D))
      BY <2>1, <3>2, Pushed
    <3> QED
      BY <1>1, <3>1, <3>2, <3>3
  <2> QED
    BY <2>2, <2>3
<1> QED
  BY <1>2, <1>3

(* One step of a purge. *)
LEMMA PurgeCallStep ==
    ASSUME PurgeInv, [Next]_vars, NEW s \in Sessions, PurgeCall(s), Dead \subseteq Dead'
    PROVE  /\ pc'[s] \in PurgeSteps \cup {"idle"}
           /\ pc'[s] \in PurgeSteps => "purge" \in OpsOf[s] /\ Held(s)'
<1>0. s \in DOMAIN pc /\ s \in DOMAIN req /\ Tree
  BY DEF PurgeInv, TInv, Local
<1>1. ASSUME NEW stack, NextPurge(s, stack) \/ Return(s) PROVE pc'[s] \in PurgeSteps \cup {"idle"}
  BY <1>0, <1>1 DEF NextPurge, Return, Goto, PurgeSteps
<1>2. ASSUME req'[s].file \in Dead, req'[s].stack \in Seq(DeadFrame(Dead)) PROVE Held(s)'
  BY <1>2, FramesGrow DEF Held
<1>3. ASSUME NEW stack \in Seq(DeadFrame(Dead)), NextPurge(s, stack) PROVE pc'[s] \in PurgeSteps => Held(s)'
  BY <1>2, <1>3, NextPurgeDead DEF PurgeInv
<1>4. CASE DeleteFileRecord(s)
  <2>1. PICK e \in bin : Begin(s, "purge", IF e \in dirs THEN "pg_children" ELSE "pg_delete", [NoArgs EXCEPT !.file = e])
    BY <1>4 DEF DeleteFileRecord
  <2>2. pc'[s] \in PurgeSteps /\ req'[s] = [NoArgs EXCEPT !.file = e] /\ "purge" \in OpsOf[s]
    BY <1>0, <2>1 DEF Begin, Goto, PurgeSteps
  <2>3. req'[s].file = e /\ req'[s].stack = <<>>
    BY <2>2 DEF NoArgs
  <2>4. e \in Dead
    BY <1>0 DEF Dead, Recycled, Tree
  <2>5. <<>> \in Seq(DeadFrame(Dead))
    BY EmptySeq
  <2> QED
    BY <1>2, <2>2, <2>3, <2>4, <2>5
<1>5. CASE PurgeChildren(s)
  <2> DEFINE f == [dir |-> req[s].file, rows |-> Rows(Children(req[s].file))]
  <2>1. "purge" \in OpsOf[s] /\ Held(s)
    BY <1>5 DEF PurgeInv, PurgeChildren, At, PurgeSteps
  <2>2. \A c \in Children(req[s].file) : c \in Dead /\ name[c] \in Names
    BY <1>0, <2>1, ChildDead DEF Held, Children, Tree
  <2>3. f \in DeadFrame(Dead)
    BY <2>1, <2>2 DEF Held, DeadFrame, Rows
  <2>4. <<f>> \o req[s].stack \in Seq(DeadFrame(Dead))
    BY <2>1, <2>3, Pushed DEF Held
  <2> QED
    BY <1>1, <1>3, <1>5, <2>1, <2>4 DEF PurgeChildren
<1>6. CASE PurgeEntry(s)
  <2>1. "purge" \in OpsOf[s] /\ Held(s)
    BY <1>6 DEF PurgeInv, PurgeEntry, At, PurgeSteps
  <2>2. NextPurge(s, req[s].stack) \/ Return(s)
    BY <1>6 DEF PurgeEntry
  <2>3. ASSUME Return(s) PROVE pc'[s] \notin PurgeSteps
    BY <1>0, <2>3 DEF Return, Goto, PurgeSteps
  <2> QED
    BY <1>1, <1>3, <2>1, <2>2, <2>3 DEF Held
<1> QED
  BY <1>4, <1>5, <1>6 DEF PurgeCall

LEMMA PurgeStep ==
    ASSUME PurgeInv, PurgerAlone, [Next]_vars
    PROVE  PurgeInv'
<1> DEFINE Fine(r) == /\ pc'[r] \in MoveSteps => "move" \in OpsOf[r]
                      /\ pc'[r] \in PurgeSteps => "purge" \in OpsOf[r] /\ Held(r)'
           Others(s) == \A r \in Sessions \ {s} : pc'[r] = pc[r] /\ req'[r] = req[r]
<1>1. TInv'
  BY LocalStep, TreeStep DEF PurgeInv, TInv
<1>2. ASSUME NEW r \in Sessions, pc[r] \in PurgeSteps PROVE Dead \subseteq Dead'
  <2>1. ASSUME NEW s \in Sessions, RestoreFile(s) \/ UpdateParent(s) PROVE FALSE
    <3>1. OpsOf[s] \cap {"restore", "move"} # {}
      BY <2>1 DEF RestoreFile, UpdateParent, AtOnce, At, PurgeInv, MoveSteps
    <3>2. s = r
      BY <1>2, <3>1 DEF PurgerAlone, PurgeInv
    <3> QED
      BY <1>2, <2>1, <3>2 DEF RestoreFile, UpdateParent, AtOnce, At, PurgeSteps
  <2> QED
    BY <2>1, DeadStay DEF PurgeInv
<1>3. ASSUME NEW r \in Sessions, pc'[r] = pc[r], req'[r] = req[r] PROVE Fine(r)
  <2>1. ASSUME pc[r] \in PurgeSteps PROVE Held(r)'
    BY <1>2, <1>3, <2>1, FramesGrow DEF PurgeInv, Held
  <2> QED
    BY <1>3, <2>1 DEF PurgeInv
<1>4. ASSUME NEW s \in Sessions, NEW step, NEW args, Goto(s, step, args)
      PROVE  Others(s) /\ pc'[s] = step
  BY <1>4 DEF Goto, PurgeInv, TInv, Local
<1>5. CASE UNCHANGED <<pc, req>>
  BY <1>1, <1>3, <1>5 DEF PurgeInv
<1>6. ASSUME NEW s \in Sessions, NEW step \in Steps \ (MoveSteps \cup PurgeSteps), NEW args, Goto(s, step, args)
      PROVE  PurgeInv'
  BY <1>1, <1>3, <1>4, <1>6 DEF PurgeInv
<1>7. ASSUME NEW s \in Sessions, MoveCheck(s)
      PROVE  PurgeInv'
  <2>1. PICK args : \E step \in MoveSteps \cup {"idle"} : Goto(s, step, args)
    BY <1>7, MoveGoes
  <2>2. Others(s) /\ pc'[s] \notin PurgeSteps
    BY <1>4, <2>1 DEF MoveSteps, WalkSteps, PurgeSteps
  <2>3. "move" \in OpsOf[s]
    BY <1>7 DEF MoveCheck, MoveFiles, Begin, WalkFrom, Walk, FindMoved, CountMoved, At, PurgeInv, MoveSteps, WalkSteps
  <2> QED
    BY <1>1, <1>3, <2>2, <2>3 DEF PurgeInv
<1>8. ASSUME NEW s \in Sessions, PurgeCall(s)
      PROVE  PurgeInv'
  <2>1. Dead \subseteq Dead'
    <3>1. CASE DeleteFileRecord(s)
      BY <3>1 DEF DeleteFileRecord, Begin, treeVars, Dead, Recycled, Closed
    <3>2. CASE PurgeChildren(s) \/ PurgeEntry(s)
      BY <1>2, <3>2 DEF PurgeChildren, PurgeEntry, At, PurgeSteps
    <3> QED
      BY <1>8, <3>1, <3>2 DEF PurgeCall
  <2>2. Fine(s)
    BY <1>8, <2>1, PurgeCallStep DEF MoveSteps, WalkSteps, PurgeSteps
  <2>3. Others(s)
    <3>1. ASSUME NEW stack, NextPurge(s, stack) PROVE \E step, args : Goto(s, step, args)
      BY <3>1 DEF NextPurge, Return
    <3>2. \E step, args : Goto(s, step, args)
      BY <1>8, <3>1 DEF PurgeCall, DeleteFileRecord, Begin, PurgeChildren, PurgeEntry, Return
    <3> QED
      BY <1>4, <3>2
  <2> QED
    BY <1>1, <1>3, <2>2, <2>3 DEF PurgeInv
<1> QED
  BY <1>5, <1>6, <1>7, <1>8, PcChanges

(* Only PurgeEntry deletes rows, and the row in its hand is dead. *)
LEMMA PurgesTheDead ==
    ASSUME PurgeInv, [Next]_vars, NEW e \in entries \ entries'
    PROVE  Recycled(e)
<1>1. PICK s \in Sessions : PurgeEntry(s)
  <2>1. ASSUME NEW f, NEW n, NEW d, Insert(f, n, d) PROVE FALSE
    BY <2>1 DEF Insert
  <2>2. ASSUME NEW s \in Sessions, UpdateName(s) \/ UpdateParent(s) \/ Recycle(s) \/ RestoreFile(s) PROVE FALSE
    BY <2>2 DEF UpdateName, UpdateParent, Recycle, RestoreFile
  <2>3. ~ UNCHANGED treeVars
    BY DEF treeVars
  <2> QED
    BY TreeChanges, <2>1, <2>2, <2>3 DEF PurgeInv
<1>2. Held(s)
  BY <1>1 DEF PurgeInv, PurgeEntry, At, PurgeSteps
<1>3. e = req[s].file
  BY <1>1 DEF PurgeEntry
<1> QED
  BY <1>2, <1>3 DEF Held, Dead

(* If nobody else restores or moves what a session purges, a purge deletes    *)
(* nothing but recycled entries and what lies below them, although the rows   *)
(* of a folder are read long before they are deleted and other sessions       *)
(* create, copy, rename and recycle meanwhile.                                *)
THEOREM PurgeBelowBinOnly == PurgerAlone => (Spec => PurgesRecycled)
<1> SUFFICES ASSUME PurgerAlone PROVE Spec => PurgesRecycled
  OBVIOUS
<1>1. Init => PurgeInv
  BY InitTInv DEF Init, PurgeInv, MoveSteps, WalkSteps, PurgeSteps
<1>2. PurgeInv /\ [Next]_vars => PurgeInv'
  BY PurgeStep
<1>3. PurgeInv /\ [Next]_vars => [\A e \in entries \ entries' : Recycled(e)]_vars
  BY PurgesTheDead
<1> QED
  BY <1>1, <1>2, <1>3, PTL DEF Spec, PurgesRecycled
==============================================================================

----------------------------- MODULE ViewsProofs ----------------------------
(* Theorems about Views, for any number of sessions, clients, entries,       *)
(* folders and shares.                                                       *)
EXTENDS Views, FiniteSetTheorems, WellFoundedInduction, TLAPS

LReq == [dir : Folders \cup {Null}, total : L!Totals, found : SUBSET Files,
         files : SUBSET Files, target : Folders \cup {Null},
         flush : SUBSET Folders, raced : BOOLEAN]

Reading == {"count", "find", "fill"}

(* What the step a session is at says of its local variables. *)
Fits(step, a) ==
    /\ step \in Reading => a.dir \in Folders /\ a.flush = {}
    /\ step = "idle" => a.flush = {}
    /\ step \in {"copy", "move"} => a.target \in Folders /\ a.target \in a.flush
    /\ step = "copy" => a.flush = {a.target}
    /\ step = "purge" => \A f, g \in a.files : f = g

ListShape ==
    /\ cache = [d \in Folders |-> cache[d]]
    /\ \A s \in Sessions : Fits(lpc[s], lreq[s])

(* A request as another session's change leaves it. *)
Alike(a, b) ==
    /\ a.dir = b.dir /\ a.total = b.total /\ a.found = b.found
    /\ a.files = b.files /\ a.target = b.target /\ a.flush = b.flush
    /\ a \in LReq => b \in LReq

(* Session s goes on at step with args. *)
Moved(s, step, args) ==
    /\ lpc' = [lpc EXCEPT ![s] = step]
    /\ lreq' = [t \in Sessions |-> lreq'[t]]
    /\ lreq'[s] = args
    /\ \A t \in Sessions \ {s} : Alike(lreq[t], lreq'[t])

-----------------------------------------------------------------------------
LEMMA SameSets == \A F : (L!IsFiniteSet(F) <=> IsFiniteSet(F)) /\ L!Cardinality(F) = Cardinality(F)
<1>1. \A F : L!IsFiniteSet(F) <=> IsFiniteSet(F)
  BY DEF L!IsFiniteSet, IsFiniteSet
<1>2. \A F : L!Cardinality(F) = Cardinality(F)
  BY DEF L!Cardinality, Cardinality
<1> QED BY <1>1, <1>2

LEMMA Constants ==
    /\ L!New \notin Folders /\ L!Purged \notin Folders /\ Null \notin Folders
    /\ MaxRequests \in Nat /\ IsFiniteSet(Files)
    /\ L!New # L!Purged
  BY ViewsAssumption, SameSets DEF L!ListingsConstants, L!New, L!Purged

LEMMA SubsetTotal ==
    ASSUME NEW F \in SUBSET Files
    PROVE  Cardinality(F) \in L!Totals
  BY Constants, SameSets, FS_Subset, FS_CardinalityType DEF L!Totals

LEMMA NoArgsType == L!NoArgs \in LReq /\ L!NoArgs.flush = {}
<1>1. 0 \in L!Totals
  BY Constants, SameSets, FS_CardinalityType DEF L!Totals
<1> QED BY <1>1 DEF LReq, L!NoArgs

LEMMA ReqType ==
    ASSUME L!TypeOK, ListShape, NEW s \in Sessions
    PROVE  lpc[s] \in L!Steps /\ lreq[s] \in LReq /\ Fits(lpc[s], lreq[s])
  BY DEF L!TypeOK, ListShape, LReq

(* Goto, Return and Changed are such moves. *)
LEMMA GotoMoved ==
    ASSUME L!TypeOK, ListShape, NEW s \in Sessions, NEW step, NEW args, L!Goto(s, step, args)
    PROVE  Moved(s, step, args)
<1>1. lreq \in [Sessions -> LReq]
  BY DEF L!TypeOK, LReq
<1> QED BY <1>1 DEF Moved, L!Goto, Alike

LEMMA ChangedMoved ==
    ASSUME L!TypeOK, ListShape, NEW s \in Sessions, NEW F, NEW step, NEW args, L!Changed(s, F, step, args)
    PROVE  Moved(s, step, args) /\ cache' = cache /\ doubts' \in [Folders -> SUBSET L!Reasons]
<1>1. lreq \in [Sessions -> LReq] /\ doubts \in [Folders -> SUBSET L!Reasons]
  BY DEF L!TypeOK, LReq
<1> DEFINE touched == L!Homes(F) \cup ({home'[f] : f \in F} \cap Folders)
           relies(t) == t # s /\ (lreq[t].dir \in touched \/ lreq[t].files \cap F # {})
<1>2. /\ lpc' = [lpc EXCEPT ![s] = step] /\ cache' = cache
      /\ lreq' = [t \in Sessions |-> IF t = s THEN args
                                     ELSE [lreq[t] EXCEPT !.raced = @ \/ relies(t)]]
      /\ doubts' = [d \in Folders |->
                        doubts[d] \cup IF lreq[s].raced /\ d \in touched THEN {"change"} ELSE {}]
  BY DEF L!Changed
<1>3. \A t \in Sessions : relies(t) \in BOOLEAN /\ lreq[t] \in LReq /\ (lreq[t].raced \/ relies(t)) \in BOOLEAN
  BY <1>1 DEF LReq
<1> HIDE DEF relies, touched
<1>4. \A t \in Sessions \ {s} : Alike(lreq[t], lreq'[t])
  <2> SUFFICES ASSUME NEW t \in Sessions \ {s} PROVE Alike(lreq[t], lreq'[t])
    OBVIOUS
  <2>1. lreq'[t] = [lreq[t] EXCEPT !.raced = lreq[t].raced \/ relies(t)] /\ lreq[t] \in LReq
    BY <1>2, <1>3
  <2> QED BY <1>3, <2>1 DEF Alike, LReq
<1>5. doubts' \in [Folders -> SUBSET L!Reasons]
  BY <1>1, <1>2 DEF L!Reasons
<1> QED BY <1>2, <1>4, <1>5 DEF Moved

(* A request of one session: what it leaves to be shown. *)
LEMMA ListFrame ==
    ASSUME L!TypeOK, ListShape, NEW s \in Sessions, NEW step \in L!Steps, NEW args \in LReq,
           Moved(s, step, args), Fits(step, args),
           home' \in [Files -> Folders \cup {L!New, L!Purged}],
           binned' \subseteq {f \in Files : home'[f] \in Folders},
           cache' = [d \in Folders |-> cache'[d]],
           \A d \in Folders : cache'[d] \in L!Listing \cup {Null},
           doubts' \in [Folders -> SUBSET L!Reasons], left' \in 0 .. MaxRequests
    PROVE  L!TypeOK' /\ ListShape'
<1>1. lpc \in [Sessions -> L!Steps] /\ lreq \in [Sessions -> LReq] /\ \A t \in Sessions : Fits(lpc[t], lreq[t])
  BY DEF L!TypeOK, LReq, ListShape
<1>2. lpc' \in [Sessions -> L!Steps] /\ lpc'[s] = step /\ \A t \in Sessions \ {s} : lpc'[t] = lpc[t]
  BY <1>1 DEF Moved
<1>3. lreq' \in [Sessions -> LReq]
  BY <1>1 DEF Moved, Alike
<1>4. \A t \in Sessions : Fits(lpc'[t], lreq'[t])
  <2> SUFFICES ASSUME NEW t \in Sessions, t # s PROVE Fits(lpc'[t], lreq'[t])
    BY <1>2 DEF Moved
  <2>1. Alike(lreq[t], lreq'[t]) /\ lpc'[t] = lpc[t] /\ Fits(lpc[t], lreq[t])
    BY <1>1, <1>2 DEF Moved
  <2> QED BY <2>1 DEF Alike, Fits
<1> QED BY <1>2, <1>3, <1>4 DEF L!TypeOK, ListShape, LReq

(* A change: what it does to the rows, where it goes, and the rest is typed. *)
LEMMA ChangeFrame ==
    ASSUME L!TypeOK, ListShape, NEW s \in Sessions, NEW F, NEW step \in L!Steps, NEW args \in LReq,
           L!Changed(s, F, step, args), Fits(step, args),
           home' \in [Files -> Folders \cup {L!New, L!Purged}],
           binned' \subseteq {f \in Files : home'[f] \in Folders}, left' \in 0 .. MaxRequests
    PROVE  L!TypeOK' /\ ListShape'
<1>1. Moved(s, step, args) /\ cache' = cache /\ doubts' \in [Folders -> SUBSET L!Reasons]
  BY ChangedMoved
<1>2. cache' = [d \in Folders |-> cache'[d]] /\ \A d \in Folders : cache'[d] \in L!Listing \cup {Null}
  BY <1>1 DEF L!TypeOK, ListShape
<1> QED BY <1>1, <1>2, ListFrame

(* A step that leaves the rows alone. *)
LEMMA StoreFrame ==
    ASSUME L!TypeOK, ListShape, NEW s \in Sessions, NEW step \in L!Steps, NEW args \in LReq,
           L!Goto(s, step, args), Fits(step, args), UNCHANGED <<home, binned>>,
           cache' = [d \in Folders |-> cache'[d]],
           \A d \in Folders : cache'[d] \in L!Listing \cup {Null},
           doubts' \in [Folders -> SUBSET L!Reasons], left' \in 0 .. MaxRequests
    PROVE  L!TypeOK' /\ ListShape'
<1>1. Moved(s, step, args)
  BY GotoMoved
<1>2. /\ home' \in [Files -> Folders \cup {L!New, L!Purged}]
      /\ binned' \subseteq {f \in Files : home'[f] \in Folders}
  BY DEF L!TypeOK
<1> QED BY <1>1, <1>2, ListFrame

LEMMA TableType ==
    ASSUME L!TypeOK, ListShape
    PROVE  /\ home \in [Files -> Folders \cup {L!New, L!Purged}]
           /\ binned \subseteq {f \in Files : home[f] \in Folders}
           /\ cache = [d \in Folders |-> cache[d]]
           /\ \A d \in Folders : cache[d] \in L!Listing \cup {Null}
           /\ doubts \in [Folders -> SUBSET L!Reasons]
           /\ left \in 0 .. MaxRequests /\ (left > 0 => left - 1 \in 0 .. MaxRequests)
           /\ \A d : L!Listed(d) \in SUBSET Files
  BY Constants DEF L!TypeOK, ListShape, L!Listed, L!Live

LEMMA DropType ==
    ASSUME L!TypeOK, ListShape, NEW d \in Folders, L!Drop(d)
    PROVE  /\ cache' = [e \in Folders |-> cache'[e]]
           /\ \A e \in Folders : cache'[e] \in L!Listing \cup {Null}
           /\ doubts' \in [Folders -> SUBSET L!Reasons]
  BY TableType DEF L!Drop

LEMMA ListTypeStep ==
    ASSUME L!TypeOK, ListShape, [L!Next]_listVars
    PROVE  L!TypeOK' /\ ListShape'
<1> USE DEF L!At, L!tableVars
<1> DEFINE Ok == L!TypeOK' /\ ListShape'
<1>u. /\ UNCHANGED left => left' \in 0 .. MaxRequests
      /\ UNCHANGED cache => cache' = [d \in Folders |-> cache'[d]] /\ \A d \in Folders : cache'[d] \in L!Listing \cup {Null}
      /\ UNCHANGED doubts => doubts' \in [Folders -> SUBSET L!Reasons]
      /\ UNCHANGED home => home' \in [Files -> Folders \cup {L!New, L!Purged}]
  BY TableType
<1>r. ASSUME NEW s \in Sessions, L!Request(s) PROVE lpc[s] = "idle" /\ left' \in 0 .. MaxRequests
  BY <1>r, TableType DEF L!Request
<1>1. ASSUME NEW s \in Sessions, L!GetFileList(s) PROVE Ok
  <2>1. PICK d \in Folders : L!Request(s) /\ L!Goto(s, "count", [L!NoArgs EXCEPT !.dir = d])
    BY <1>1 DEF L!GetFileList
  <2>2. [L!NoArgs EXCEPT !.dir = d] \in LReq /\ Fits("count", [L!NoArgs EXCEPT !.dir = d])
    BY NoArgsType DEF LReq, Fits
  <2>3. "count" \in L!Steps
    BY DEF L!Steps
  <2> HIDE DEF L!NoArgs
  <2> QED BY <1>1, <1>u, <1>r, <2>1, <2>2, <2>3, StoreFrame DEF L!GetFileList
<1>2. ASSUME NEW s \in Sessions, L!CountFiles(s) PROVE Ok
  <2> DEFINE args == [lreq[s] EXCEPT !.total = L!Cardinality(L!Listed(lreq[s].dir)), !.raced = FALSE]
  <2>1. L!Cardinality(L!Listed(lreq[s].dir)) \in L!Totals
    BY TableType, SubsetTotal, SameSets
  <2>2. args \in LReq /\ Fits("find", args) /\ "find" \in L!Steps
    BY <1>2, <2>1, ReqType DEF LReq, Fits, Reading, L!CountFiles, L!Steps
  <2>3. L!Goto(s, "find", args)
    BY <1>2 DEF L!CountFiles
  <2> HIDE DEF args
  <2> QED BY <1>2, <1>u, <2>2, <2>3, StoreFrame DEF L!CountFiles
<1>3. ASSUME NEW s \in Sessions, L!FindFiles(s) PROVE Ok
  <2> DEFINE args == [lreq[s] EXCEPT !.found = L!Listed(lreq[s].dir)]
  <2>2. args \in LReq /\ Fits("fill", args) /\ "fill" \in L!Steps
    BY <1>3, ReqType, TableType DEF LReq, Fits, Reading, L!FindFiles, L!Steps
  <2>3. L!Goto(s, "fill", args)
    BY <1>3 DEF L!FindFiles
  <2> HIDE DEF args
  <2> QED BY <1>3, <1>u, <2>2, <2>3, StoreFrame DEF L!FindFiles
<1>i. "idle" \in L!Steps /\ L!NoArgs \in LReq /\ Fits("idle", L!NoArgs)
  BY NoArgsType DEF L!Steps, Fits, Reading
<1>4. ASSUME NEW s \in Sessions, L!FillCache(s) PROVE Ok
  <2> DEFINE d == lreq[s].dir
             new == [files |-> lreq[s].found, total |-> lreq[s].total]
  <2>1. d \in Folders /\ new \in L!Listing
    BY <1>4, ReqType DEF L!FillCache, Fits, Reading, LReq, L!Listing
  <2>2. /\ cache' = [cache EXCEPT ![d] = new]
        /\ doubts' = [doubts EXCEPT ![d] = IF lreq[s].raced THEN {"fill"} ELSE {}]
    BY <1>4 DEF L!FillCache
  <2> HIDE DEF d, new
  <2>3. cache' = [e \in Folders |-> cache'[e]] /\ \A e \in Folders : cache'[e] \in L!Listing \cup {Null}
    BY <2>1, <2>2, TableType
  <2>4. doubts' \in [Folders -> SUBSET L!Reasons]
    BY <2>1, <2>2, TableType DEF L!Reasons
  <2> QED BY <1>4, <1>u, <1>i, <2>3, <2>4, StoreFrame DEF L!FillCache, L!Return
<1>5. ASSUME NEW d \in Folders, L!Expire(d) PROVE Ok
  <2>1. /\ cache' = [e \in Folders |-> cache'[e]]
        /\ \A e \in Folders : cache'[e] \in L!Listing \cup {Null}
        /\ doubts' \in [Folders -> SUBSET L!Reasons]
    BY <1>5, DropType DEF L!Expire
  <2>2. UNCHANGED <<home, binned, lpc, lreq, left>>
    BY <1>5 DEF L!Expire
  <2> QED BY <2>1, <2>2 DEF L!TypeOK, ListShape
<1>6. ASSUME NEW s \in Sessions, L!Invalidate(s) PROVE Ok
  <2>1. PICK d \in lreq[s].flush :
           /\ L!Drop(d)
           /\ IF lreq[s].flush \ {d} = {} THEN L!Return(s)
              ELSE L!Goto(s, "invalidate", [lreq[s] EXCEPT !.flush = lreq[s].flush \ {d}])
    BY <1>6 DEF L!Invalidate
  <2> DEFINE args == [lreq[s] EXCEPT !.flush = lreq[s].flush \ {d}]
  <2>2. args \in LReq /\ Fits("invalidate", args) /\ "invalidate" \in L!Steps /\ d \in Folders
    BY ReqType DEF LReq, Fits, Reading, L!Steps
  <2>3. L!Goto(s, "idle", L!NoArgs) \/ L!Goto(s, "invalidate", args)
    BY <2>1 DEF L!Return
  <2> HIDE DEF args
  <2>4. UNCHANGED <<home, binned>> /\ left' \in 0 .. MaxRequests
    BY <1>6, <1>u DEF L!Invalidate
  <2> QED BY <1>i, <2>1, <2>2, <2>3, <2>4, DropType, StoreFrame
<1>7. ASSUME NEW s \in Sessions, L!Create(s) PROVE Ok
  <2>1. PICK f \in Files, d \in Folders :
           /\ L!Request(s) /\ home' = [home EXCEPT ![f] = d] /\ UNCHANGED binned
           /\ L!Changed(s, {f}, "invalidate", [L!NoArgs EXCEPT !.flush = {d}])
    BY <1>7 DEF L!Create
  <2>2. /\ [L!NoArgs EXCEPT !.flush = {d}] \in LReq /\ Fits("invalidate", [L!NoArgs EXCEPT !.flush = {d}])
        /\ "invalidate" \in L!Steps
    BY NoArgsType DEF LReq, Fits, Reading, L!Steps
  <2>3. home' \in [Files -> Folders \cup {L!New, L!Purged}] /\ binned' \subseteq {g \in Files : home'[g] \in Folders}
    BY <2>1, TableType
  <2> QED BY <1>r, <2>1, <2>2, <2>3, ChangeFrame
<1>8. ASSUME NEW s \in Sessions, L!Look(s) PROVE Ok
  <2>1. PICK op \in L!Changes, F \in SUBSET Files, d \in Folders :
           /\ L!Request(s)
           /\ op = "purge" => L!Cardinality(F) = 1 /\ F \subseteq Files
           /\ L!Goto(s, op, [L!NoArgs EXCEPT !.files = F, !.target = d, !.flush = L!FlushOf(op, F, d)])
    BY <1>8 DEF L!Look
  <2> DEFINE args == [L!NoArgs EXCEPT !.files = F, !.target = d, !.flush = L!FlushOf(op, F, d)]
  <2>2. L!FlushOf(op, F, d) \subseteq Folders /\ op \in L!Steps
    BY DEF L!FlushOf, L!Homes, L!Steps
  <2>3. args \in LReq /\ args.files = F /\ args.target = d /\ args.flush = L!FlushOf(op, F, d)
    BY <2>2, NoArgsType DEF LReq
  <2>4. op \notin Reading \cup {"idle"}
    BY DEF L!Changes, Reading
  <2>5. op \in {"copy", "move"} => d \in L!FlushOf(op, F, d)
    BY DEF L!FlushOf
  <2>6. op = "copy" => L!FlushOf(op, F, d) = {d}
    BY DEF L!FlushOf
  <2>7. op = "purge" => \A f, g \in F : f = g
    <3> SUFFICES ASSUME op = "purge" PROVE \A f, g \in F : f = g
      OBVIOUS
    <3>1. Cardinality(F) = 1 /\ IsFiniteSet(F)
      BY <2>1, SameSets, Constants, FS_Subset
    <3> QED BY <3>1, FS_Singleton
  <2>8. L!Goto(s, op, args)
    BY <2>1
  <2> HIDE DEF args
  <2>9. Fits(op, args)
    BY <2>3, <2>4, <2>5, <2>6, <2>7 DEF Fits
  <2> QED BY <1>8, <1>u, <1>r, <2>1, <2>2, <2>3, <2>8, <2>9, StoreFrame DEF L!Look
<1>9. ASSUME NEW s \in Sessions, L!Update(s) \/ L!Purge(s) PROVE Ok
  <2> DEFINE F == lreq[s].files
  <2>1. /\ L!Changed(s, F, "invalidate", lreq[s]) /\ left' = left
        /\ lpc[s] \in {"recycle", "restore", "move", "purge"}
    BY <1>9 DEF L!Update, L!Purge
  <2>2. lreq[s] \in LReq /\ F \subseteq Files /\ Fits("invalidate", lreq[s]) /\ "invalidate" \in L!Steps
    BY ReqType DEF LReq, Fits, Reading, L!Steps
  <2>3. lpc[s] = "move" => lreq[s].target \in Folders
    BY ReqType DEF Fits
  <2>4. home' \in [Files -> Folders \cup {L!New, L!Purged}] /\ binned' \subseteq {g \in Files : home'[g] \in Folders}
    <3>1. CASE L!Update(s) /\ lpc[s] = "move"
      BY <2>3, <3>1, TableType DEF L!Update, L!Live
    <3>2. CASE L!Update(s) /\ lpc[s] # "move"
      BY <3>2, TableType DEF L!Update, L!Live
    <3>3. CASE L!Purge(s)
      BY <3>3, TableType DEF L!Purge
    <3> QED BY <1>9, <3>1, <3>2, <3>3
  <2> HIDE DEF F
  <2> QED BY <1>u, <2>1, <2>2, <2>4, ChangeFrame
<1>10. ASSUME NEW s \in Sessions, L!CopyFile(s) PROVE Ok
  <2>1. PICK f \in lreq[s].files, new \in Files :
           /\ lpc[s] = "copy" /\ home' = [home EXCEPT ![new] = lreq[s].target]
           /\ UNCHANGED <<binned, left>>
           /\ L!Changed(s, {new}, "copy", [lreq[s] EXCEPT !.files = @ \ {f}])
    BY <1>10 DEF L!CopyFile
  <2> DEFINE args == [lreq[s] EXCEPT !.files = @ \ {f}]
  <2>2. args \in LReq /\ Fits("copy", args) /\ "copy" \in L!Steps /\ lreq[s].target \in Folders
    BY <2>1, ReqType DEF LReq, Fits, Reading, L!Steps
  <2>3. home' \in [Files -> Folders \cup {L!New, L!Purged}] /\ binned' \subseteq {g \in Files : home'[g] \in Folders}
    BY <2>1, <2>2, TableType
  <2>4. L!Changed(s, {new}, "copy", args)
    BY <2>1
  <2> HIDE DEF args
  <2> QED BY <1>u, <2>1, <2>2, <2>3, <2>4, ChangeFrame
<1>11. ASSUME NEW s \in Sessions, L!CopyDone(s) PROVE Ok
  <2>1. lreq[s] \in LReq /\ Fits("invalidate", lreq[s]) /\ "invalidate" \in L!Steps
    BY ReqType DEF Fits, Reading, L!Steps
  <2> QED BY <1>11, <1>u, <2>1, StoreFrame DEF L!CopyDone
<1>12. ASSUME NEW s \in Sessions, L!CopyFails(s) PROVE Ok
  <2>1. lreq[s].target \in Folders
    BY <1>12, ReqType DEF L!CopyFails, Fits
  <2>2. doubts' \in [Folders -> SUBSET L!Reasons]
    BY <1>12, <2>1, TableType DEF L!CopyFails, L!Reasons
  <2> QED BY <1>12, <1>u, <1>i, <2>2, StoreFrame DEF L!CopyFails, L!Return
<1>13. CASE UNCHANGED listVars
  BY <1>13 DEF listVars, L!TypeOK, ListShape
<1> QED BY <1>1, <1>2, <1>3, <1>4, <1>5, <1>6, <1>7, <1>8, <1>9, <1>10, <1>11, <1>12, <1>13
        DEF L!Next, L!Read, L!Change

-----------------------------------------------------------------------------
SReq == [file : Files \cup {Null}, timed : BOOLEAN, id : S!Ids \cup {Null}, late : BOOLEAN]

Holding == {"get", "find", "expire", "file", "log", "close"}

(* What the step a request about shares is at says of its local variables. *)
Serves(c) ==
    /\ spc[c] \in Holding => sreq[c].id \in 1 .. used
    /\ spc[c] = "setkey" => sreq[c].id \in timed \ due

ShareShape ==
    /\ \A c \in Clients : Serves(c)
    /\ \A id \in 1 .. used : fileOf[id] \in Files /\ home[fileOf[id]] # L!New

LEMMA ShareConstants == MaxShares \in Nat /\ MaxCalls \in Nat /\ CreateRaces \in BOOLEAN /\ Null \notin S!Ids
  BY ViewsAssumption DEF S!SharesConstants, S!Ids

LEMMA RowType ==
    ASSUME S!TypeOK, ShareShape
    PROVE  /\ used \in 0 .. MaxShares /\ used \in Nat /\ 1 .. used \subseteq S!Ids
           /\ rows \subseteq 1 .. used /\ open \subseteq rows
           /\ fileOf \in [S!Ids -> Files \cup {Null}] /\ \A id \in rows : fileOf[id] \in Present
           /\ timed \subseteq 1 .. used /\ due \subseteq timed /\ events \subseteq due /\ keys \subseteq timed \ due
           /\ log \in [S!Ids -> Nat] /\ calls \in 0 .. MaxCalls /\ (calls > 0 => calls - 1 \in 0 .. MaxCalls)
           /\ L!Live \subseteq Present /\ Present \subseteq Files
  BY ShareConstants DEF S!TypeOK, ShareShape, S!Ids

LEMMA CallType ==
    ASSUME S!TypeOK, ShareShape, NEW c \in Clients
    PROVE  spc[c] \in S!Steps /\ sreq[c] \in SReq /\ Serves(c)
  BY DEF S!TypeOK, ShareShape, SReq

LEMMA NoCallType == S!NoArgs \in SReq /\ "idle" \in S!Steps /\ "idle" \notin Holding \cup {"setkey"}
  BY DEF S!NoArgs, SReq, S!Steps, Holding

(* A step of one request: what it leaves to be shown. *)
LEMMA ShareFrame ==
    ASSUME S!TypeOK, ShareShape, UNCHANGED <<home, binned>>,
           NEW c \in Clients, NEW step \in S!Steps, NEW args \in SReq, S!Goto(c, step, args), Serves(c)',
           due' = due, used' \in 0 .. MaxShares, used <= used', timed \subseteq timed',
           rows' \subseteq 1 .. used', open' \subseteq rows',
           fileOf' \in [S!Ids -> Files \cup {Null}], \A id \in rows' : fileOf'[id] \in Present,
           \A id \in 1 .. used' : fileOf'[id] \in Files /\ home[fileOf'[id]] # L!New,
           timed' \subseteq 1 .. used', keys' \subseteq timed' \ due, events' \subseteq due,
           log' \in [S!Ids -> Nat], calls' \in 0 .. MaxCalls
    PROVE  S!TypeOK' /\ ShareShape'
<1>1. Present' = Present /\ L!Live' = L!Live
  BY DEF Present, L!Live
<1>2. spc \in [Clients -> S!Steps] /\ sreq \in [Clients -> SReq]
  BY DEF S!TypeOK, SReq
<1>3. /\ spc' \in [Clients -> S!Steps] /\ sreq' \in [Clients -> SReq]
      /\ \A o \in Clients \ {c} : spc'[o] = spc[o] /\ sreq'[o] = sreq[o]
  BY <1>2 DEF S!Goto
<1>4. 1 .. used \subseteq 1 .. used'
  BY RowType, ShareConstants
<1>5. \A o \in Clients : Serves(o)'
  BY <1>3, <1>4 DEF ShareShape, Serves
<1>6. L!Live \subseteq Present /\ Present \subseteq Files /\ due \subseteq timed
  BY RowType
<1> QED BY <1>1, <1>3, <1>5, <1>6 DEF S!TypeOK, ShareShape, SReq

(* A step that leaves the rows alone. *)
LEMMA VisitFrame ==
    ASSUME S!TypeOK, ShareShape, UNCHANGED <<home, binned>>,
           NEW c \in Clients, NEW step \in S!Steps, NEW args \in SReq, S!Goto(c, step, args), Serves(c)',
           UNCHANGED <<used, rows, fileOf, timed, due, events>>, open' \subseteq open,
           keys' \subseteq timed \ due, log' \in [S!Ids -> Nat], calls' \in 0 .. MaxCalls
    PROVE  S!TypeOK' /\ ShareShape'
<1>1. used <= used' /\ \A id \in 1 .. used' : fileOf'[id] \in Files /\ home[fileOf'[id]] # L!New
  BY RowType DEF ShareShape
<1> QED BY <1>1, RowType, ShareFrame

LEMMA ShareTypeStep ==
    ASSUME S!TypeOK, ShareShape, UNCHANGED listVars, S!Next
    PROVE  S!TypeOK' /\ ShareShape'
<1> USE DEF S!At, S!Step, S!fileVars, S!rowVars, S!timeVars
<1> DEFINE Ok == S!TypeOK' /\ ShareShape'
<1>0. UNCHANGED <<home, binned>> /\ Present' = Present /\ L!Live' = L!Live
  BY DEF listVars, Present, L!Live
<1>n. S!NoArgs \in SReq /\ "idle" \in S!Steps
  BY NoCallType
<1>c. calls \in 0 .. MaxCalls /\ log \in [S!Ids -> Nat] /\ keys \subseteq timed \ due /\ open \subseteq open
  BY RowType
<1>g. ASSUME NEW c \in Clients, NEW step, NEW args, S!Goto(c, step, args)
      PROVE  spc'[c] = step /\ sreq'[c] = args
  BY <1>g DEF S!Goto, S!TypeOK
<1>s. {"existing", "close", "insert", "setkey", "idle", "get", "find", "expire", "file", "log"} \subseteq S!Steps
  BY DEF S!Steps, S!Creating
<1>i. ASSUME NEW c \in Clients, S!Return(c) PROVE S!Goto(c, "idle", S!NoArgs) /\ Serves(c)'
  <2>1. spc'[c] = "idle"
    BY <1>i, <1>g DEF S!Return
  <2> QED BY <1>i, <2>1 DEF S!Return, Serves, Holding
<1>1. ASSUME NEW c \in Clients, S!CreateShare(c) PROVE Ok
  <2>1. PICK f \in L!Live, t \in BOOLEAN :
           S!Request(c) /\ S!Goto(c, "existing", [S!NoArgs EXCEPT !.file = f, !.timed = t])
    BY <1>1 DEF S!CreateShare
  <2> DEFINE args == [S!NoArgs EXCEPT !.file = f, !.timed = t]
  <2>2. args \in SReq
    BY RowType DEF S!NoArgs, SReq
  <2>3. S!Goto(c, "existing", args) /\ calls' \in 0 .. MaxCalls
    BY <2>1, RowType DEF S!Request
  <2> HIDE DEF args
  <2>4. Serves(c)'
    BY <1>g, <2>3 DEF Serves, Holding
  <2> QED BY <1>0, <1>1, <1>c, <1>s, <2>2, <2>3, <2>4, VisitFrame DEF S!CreateShare
<1>2. ASSUME NEW c \in Clients, S!FindExisting(c) PROVE Ok
  <2>1. CASE S!Return(c)
    BY <1>0, <1>2, <1>c, <1>i, <1>n, <2>1, VisitFrame DEF S!FindExisting
  <2>2. CASE S!Goto(c, "insert", sreq[c])
    <3>1. Serves(c)'
      BY <1>g, <2>2 DEF Serves, Holding
    <3> QED BY <1>0, <1>2, <1>c, <1>s, <2>2, <3>1, CallType, VisitFrame DEF S!FindExisting
  <2>3. ASSUME NEW id \in open, S!Goto(c, "close", [sreq[c] EXCEPT !.id = id]) PROVE Ok
    <3> DEFINE args == [sreq[c] EXCEPT !.id = id]
    <3>1. args \in SReq /\ args.id = id /\ id \in 1 .. used
      BY CallType, RowType DEF SReq
    <3>2. S!Goto(c, "close", args)
      BY <2>3
    <3> HIDE DEF args
    <3>3. Serves(c)'
      BY <1>2, <1>g, <3>1, <3>2 DEF Serves, S!FindExisting
    <3> QED BY <1>0, <1>2, <1>c, <1>s, <3>1, <3>2, <3>3, VisitFrame DEF S!FindExisting
  <2> QED BY <1>2, <2>1, <2>2, <2>3 DEF S!FindExisting
<1>3. ASSUME NEW c \in Clients, S!CloseExisting(c) PROVE Ok
  <2>1. S!Goto(c, "insert", sreq[c]) /\ open' \subseteq open
    BY <1>3 DEF S!CloseExisting, S!Close
  <2>2. Serves(c)'
    BY <1>g, <2>1 DEF Serves, Holding
  <2> QED BY <1>0, <1>3, <1>c, <1>s, <2>1, <2>2, CallType, VisitFrame DEF S!CloseExisting
<1>4. ASSUME NEW c \in Clients, S!InsertShare(c) PROVE Ok
  <2> DEFINE f == sreq[c].file
             id == used + 1
  <2>1. CASE S!Return(c) /\ UNCHANGED <<used, rows, open, fileOf, timed>>
    BY <1>0, <1>4, <1>c, <1>i, <1>n, <2>1, VisitFrame DEF S!InsertShare
  <2>2. CASE f \in Present /\ used < MaxShares
    <3>1. /\ used' = id /\ rows' = rows \cup {id} /\ open' = open \cup {id}
          /\ fileOf' = [fileOf EXCEPT ![id] = f]
          /\ timed' = (IF sreq[c].timed THEN timed \cup {id} ELSE timed)
          /\ UNCHANGED <<log, due, keys, events, calls>>
      BY <1>4, <2>2 DEF S!InsertShare
    <3>2. id \in Nat /\ id \in 1 .. id /\ id \in S!Ids /\ id \notin 1 .. used /\ 1 .. id = (1 .. used) \cup {id}
          /\ id \in 0 .. MaxShares /\ used <= id
      BY <2>2, RowType, ShareConstants DEF S!Ids
    <3>3. home[f] # L!New /\ f \in Files
      BY <2>2, Constants DEF Present
    <3> HIDE DEF f, id
    <3>4. /\ fileOf' \in [S!Ids -> Files \cup {Null}]
          /\ fileOf'[id] = f /\ \A o \in 1 .. used : fileOf'[o] = fileOf[o]
      BY <3>1, <3>2, <3>3, RowType
    <3>5. \A o \in rows' : fileOf'[o] \in Present
      BY <2>2, <3>1, <3>4, RowType
    <3>6. \A o \in 1 .. used' : fileOf'[o] \in Files /\ home[fileOf'[o]] # L!New
      BY <3>1, <3>2, <3>3, <3>4 DEF ShareShape
    <3>7. /\ rows' \subseteq 1 .. used' /\ open' \subseteq rows'
          /\ timed \subseteq timed' /\ timed' \subseteq 1 .. used' /\ keys' \subseteq timed' \ due /\ events' \subseteq due
          /\ id \notin due
      BY <3>1, <3>2, RowType
    <3>8. CASE S!Return(c)
      BY <1>0, <1>c, <1>i, <1>n, <3>1, <3>2, <3>4, <3>5, <3>6, <3>7, <3>8, ShareFrame
    <3>9. CASE sreq[c].timed /\ S!Goto(c, "setkey", [sreq[c] EXCEPT !.id = id])
      <4> DEFINE args == [sreq[c] EXCEPT !.id = id]
      <4>1. args \in SReq /\ args.id = id
        BY <3>2, CallType DEF SReq
      <4>2. S!Goto(c, "setkey", args)
        BY <3>9
      <4> HIDE DEF args
      <4>3. Serves(c)'
        BY <1>g, <3>1, <3>7, <3>9, <4>1, <4>2 DEF Serves, Holding
      <4> QED BY <1>0, <1>c, <1>s, <3>1, <3>2, <3>4, <3>5, <3>6, <3>7, <4>1, <4>2, <4>3, ShareFrame
    <3> QED BY <1>4, <2>2, <3>8, <3>9 DEF S!InsertShare, id, f
  <2> QED BY <1>4, <2>1, <2>2 DEF S!InsertShare
<1>5. ASSUME NEW c \in Clients, S!SetKey(c) PROVE Ok
  <2>1. keys' \subseteq timed \ due
    BY <1>5, <1>c, CallType DEF S!SetKey, Serves
  <2> QED BY <1>0, <1>5, <1>c, <1>i, <1>n, <2>1, VisitFrame DEF S!SetKey
<1>6. ASSUME NEW c \in Clients, S!Visit(c) PROVE Ok
  <2>1. PICK id \in 1 .. used :
           /\ S!Request(c)
           /\ S!Goto(c, "get", [S!NoArgs EXCEPT !.id = id, !.late = id \in due \/ fileOf[id] \notin Present])
    BY <1>6 DEF S!Visit
  <2> DEFINE args == [S!NoArgs EXCEPT !.id = id, !.late = id \in due \/ fileOf[id] \notin Present]
  <2>2. args \in SReq /\ args.id = id
    BY RowType DEF S!NoArgs, SReq
  <2>3. S!Goto(c, "get", args) /\ calls' \in 0 .. MaxCalls
    BY <2>1, RowType DEF S!Request
  <2> HIDE DEF args
  <2>4. Serves(c)'
    BY <1>6, <1>g, <2>2, <2>3 DEF Serves, S!Visit
  <2> QED BY <1>0, <1>6, <1>c, <1>s, <2>2, <2>3, <2>4, VisitFrame DEF S!Visit
<1>7. ASSUME NEW c \in Clients, NEW step \in {"file", "find", "expire", "log"}, S!Goto(c, step, sreq[c]),
             spc[c] \in Holding, UNCHANGED <<used, rows, open, fileOf, timed, log, due, keys, events, calls>>
      PROVE  Ok
  <2>1. Serves(c)'
    BY <1>7, <1>g, CallType DEF Serves
  <2> QED BY <1>0, <1>7, <1>c, <1>s, <2>1, CallType, VisitFrame
<1>8. ASSUME NEW c \in Clients, S!GetKey(c) \/ S!FindShare(c) \/ S!OpenFile(c) PROVE Ok
  <2>1. spc[c] \in Holding /\ UNCHANGED <<used, rows, open, fileOf, timed, log, due, keys, events, calls>>
    BY <1>8 DEF S!GetKey, S!FindShare, S!OpenFile, Holding
  <2>2. S!Return(c) \/ \E step \in {"file", "find", "expire", "log"} : S!Goto(c, step, sreq[c])
    BY <1>8 DEF S!GetKey, S!FindShare, S!OpenFile
  <2>3. CASE S!Return(c)
    BY <1>0, <1>c, <1>i, <1>n, <2>1, <2>3, VisitFrame
  <2> QED BY <1>7, <2>1, <2>2, <2>3
<1>9. ASSUME NEW c \in Clients, S!CloseExpired(c) \/ S!LogAccess(c) PROVE Ok
  <2>1. open' \subseteq open /\ S!Return(c) /\ UNCHANGED <<used, rows, fileOf, timed, due, keys, events, calls>>
    BY <1>9 DEF S!CloseExpired, S!LogAccess, S!Close
  <2>2. log' \in [S!Ids -> Nat]
    BY <1>9, <1>c DEF S!CloseExpired, S!LogAccess
  <2> QED BY <1>0, <1>c, <1>i, <1>n, <2>1, <2>2, VisitFrame
<1>10. ASSUME NEW id \in S!Ids, S!FallDue(id) PROVE Ok
  <2>1. /\ id \in timed \ due /\ due' = due \cup {id} /\ keys' = keys \ {id}
        /\ events' \subseteq events \cup {id}
        /\ UNCHANGED <<used, rows, open, fileOf, timed, log, spc, sreq, calls>>
        /\ \A c \in Clients : spc[c] = "setkey" => sreq[c].id # id
    BY <1>10 DEF S!FallDue
  <2>2. \A c \in Clients : Serves(c)'
    BY <2>1 DEF ShareShape, Serves
  <2> QED BY <1>0, <2>1, <2>2, RowType DEF S!TypeOK, ShareShape
<1>11. ASSUME NEW id \in S!Ids, S!HandleShareExpired(id) PROVE Ok
  <2>1. /\ events' \subseteq events /\ open' \subseteq open
        /\ UNCHANGED <<used, rows, fileOf, timed, log, due, keys, spc, sreq, calls>>
    BY <1>11 DEF S!HandleShareExpired, S!Close
  <2>2. \A c \in Clients : Serves(c)'
    BY <2>1 DEF ShareShape, Serves
  <2> QED BY <1>0, <2>1, <2>2, RowType DEF S!TypeOK, ShareShape
<1> QED BY <1>1, <1>2, <1>3, <1>4, <1>5, <1>6, <1>8, <1>9, <1>10, <1>11 DEF S!Next, S!Create, S!Serve

-----------------------------------------------------------------------------
(* What requests about listings make of the rows: a row that is gone does not *)
(* come back, and only a purge takes one away.                                *)
LEMMA HomeMoves ==
    ASSUME L!TypeOK, ListShape, [L!Next]_listVars
    PROVE  \A f \in Files :
               \/ home'[f] = home[f]
               \/ (home[f] \in Folders \cup {L!New} /\ home'[f] \in Folders)
               \/ (\E s \in Sessions : L!Purge(s)) /\ home'[f] = L!Purged
<1> DEFINE Moves == \A f \in Files :
               \/ home'[f] = home[f]
               \/ (home[f] \in Folders \cup {L!New} /\ home'[f] \in Folders)
               \/ (\E s \in Sessions : L!Purge(s)) /\ home'[f] = L!Purged
<1> USE DEF L!At
<1>1. CASE UNCHANGED home
  BY <1>1
<1>2. ASSUME NEW s \in Sessions, L!Create(s) PROVE Moves
  BY <1>2, TableType DEF L!Create
<1>3. ASSUME NEW s \in Sessions, L!CopyFile(s) PROVE Moves
  <2>1. lreq[s].target \in Folders
    BY <1>3, ReqType DEF Fits, L!CopyFile
  <2> QED BY <1>3, <2>1, TableType DEF L!CopyFile
<1>4. ASSUME NEW s \in Sessions, L!Update(s) PROVE Moves
  <2>1. CASE lpc[s] = "move"
    <3>1. lreq[s].target \in Folders
      BY <2>1, ReqType DEF Fits
    <3>2. home' = [f \in Files |-> IF f \in lreq[s].files \cap L!Live THEN lreq[s].target ELSE home[f]]
      BY <1>4, <2>1 DEF L!Update
    <3>3. \A f \in L!Live : home[f] \in Folders
      BY DEF L!Live
    <3> QED BY <3>1, <3>2, <3>3
  <2>2. CASE lpc[s] # "move"
    BY <1>1, <1>4, <2>2 DEF L!Update
  <2> QED BY <2>1, <2>2
<1>5. ASSUME NEW s \in Sessions, L!Purge(s) PROVE Moves
  BY <1>5 DEF L!Purge
<1>6. ASSUME NEW s \in Sessions, L!GetFileList(s) \/ L!Look(s) \/ L!Read(s) \/ L!CopyDone(s) \/ L!CopyFails(s) \/ L!Invalidate(s)
      PROVE  Moves
  BY <1>1, <1>6 DEF L!GetFileList, L!Look, L!Read, L!CountFiles, L!FindFiles, L!FillCache, L!CopyDone, L!CopyFails,
       L!Invalidate, L!tableVars
<1>7. ASSUME NEW d \in Folders, L!Expire(d) PROVE Moves
  BY <1>1, <1>7 DEF L!Expire, L!tableVars
<1>8. CASE UNCHANGED listVars
  BY <1>1, <1>8 DEF listVars
<1> QED BY <1>2, <1>3, <1>4, <1>5, <1>6, <1>7, <1>8 DEF L!Next, L!Change

(* A request about listings, as the shares see it. *)
LEMMA GoneStays ==
    ASSUME L!TypeOK, ListShape, [L!Next]_listVars, NEW f \in Files, home[f] # L!New
    PROVE  home'[f] # L!New /\ (f \notin Present => f \notin Present')
<1>1. home[f] \in Folders \/ home[f] = L!Purged
  BY TableType
<1> QED BY <1>1, HomeMoves, Constants DEF Present

LEMMA OnlyPurges ==
    ASSUME L!TypeOK, ListShape, [L!Next]_listVars, \A s \in Sessions : ~ L!Purge(s)
    PROVE  Present \subseteq Present'
BY HomeMoves, Constants DEF Present

(* A session does one thing at a time. *)
LEMMA NotPurging ==
    ASSUME L!TypeOK, NEW s \in Sessions, ListingStep(s) PROVE \A t \in Sessions : ~ L!Purge(t)
<1> USE DEF L!At, L!Return, L!Goto
<1>1. ASSUME NEW t \in Sessions, L!Purge(t) PROVE FALSE
  <2>1. lpc[t] = "purge" /\ lpc'[t] = "invalidate"
    BY <1>1 DEF L!Purge, L!Changed, L!TypeOK
  <2>2. CASE t # s
    <3>1. lpc'[t] = lpc[t]
      BY <2>2 DEF ListingStep, L!GetFileList, L!Read, L!CountFiles, L!FindFiles, L!FillCache, L!Create, L!Look,
           L!Update, L!CopyFile, L!CopyDone, L!CopyFails, L!Invalidate, L!Changed, L!TypeOK
    <3> QED BY <2>1, <3>1
  <2>3. CASE t = s
    BY <2>1, <2>3 DEF ListingStep, L!GetFileList, L!Request, L!Read, L!CountFiles, L!FindFiles, L!FillCache,
         L!Create, L!Look, L!Update, L!CopyFile, L!CopyDone, L!CopyFails, L!Invalidate
  <2> QED BY <2>2, <2>3
<1> QED BY <1>1

LEMMA NotPurgingEither ==
    ASSUME L!TypeOK, NEW d \in Folders, L!Expire(d) PROVE \A t \in Sessions : ~ L!Purge(t)
BY DEF L!Expire, L!Purge, L!At, L!Changed, L!TypeOK

LEMMA AroundShares ==
    ASSUME S!TypeOK, ShareShape, L!TypeOK, ListShape, [L!Next]_listVars, UNCHANGED shareVars,
           Present \subseteq Present'
    PROVE  S!TypeOK' /\ ShareShape'
<1>1. UNCHANGED <<used, rows, open, fileOf, timed, due, keys, events, log, spc, sreq, calls>>
  BY DEF shareVars
<1>2. \A id \in 1 .. used : fileOf'[id] \in Files /\ home'[fileOf'[id]] # L!New
  BY <1>1, GoneStays DEF ShareShape
<1>3. L!Live' \subseteq Present' /\ Present' \subseteq Files
  BY DEF L!Live, Present
<1> QED BY <1>1, <1>2, <1>3 DEF S!TypeOK, ShareShape, Serves

LEMMA PurgedShares ==
    ASSUME S!TypeOK, ShareShape, L!TypeOK, ListShape, NEW s \in Sessions, PurgeFile(s)
    PROVE  S!TypeOK' /\ ShareShape'
<1>1. PICK f \in lreq[s].files : L!Purge(s) /\ S!DropShares(f)
  BY DEF PurgeFile
<1>2. L!Next
  BY <1>1 DEF L!Next, L!Change
<1>3. lreq[s].files = {f} /\ f \in Files
  <2>1. lpc[s] = "purge" /\ lreq[s].files \subseteq Files
    BY <1>1, ReqType DEF L!Purge, L!At, LReq
  <2> QED BY <1>1, <2>1, ReqType DEF Fits
<1>4. /\ rows' = {id \in rows : fileOf[id] # f} /\ open' = {id \in open : fileOf[id] # f}
      /\ UNCHANGED <<used, fileOf, timed, log, due, keys, events, spc, sreq, calls>>
  BY <1>1 DEF S!DropShares, S!timeVars
<1>5. \A g \in Files \ {f} : home'[g] = home[g]
  BY <1>1, <1>3 DEF L!Purge
<1>6. \A id \in rows' : fileOf'[id] \in Present'
  <2> SUFFICES ASSUME NEW id \in rows' PROVE fileOf'[id] \in Present'
    OBVIOUS
  <2>1. fileOf[id] # f /\ fileOf[id] \in Present
    BY <1>4, RowType
  <2> QED BY <1>4, <1>5, <2>1 DEF Present
<1>7. \A id \in 1 .. used : fileOf'[id] \in Files /\ home'[fileOf'[id]] # L!New
  BY <1>2, <1>4, GoneStays DEF ShareShape
<1>8. L!Live' \subseteq Present' /\ Present' \subseteq Files
  BY DEF L!Live, Present
<1> QED BY <1>4, <1>6, <1>7, <1>8 DEF S!TypeOK, ShareShape, Serves

-----------------------------------------------------------------------------
(* A visit that began too late finds no key, no open row or no file.          *)
Gone(id) == fileOf[id] \notin Present

Late(c) == sreq[c].late =>
    /\ spc[c] \in {"get", "find"} => sreq[c].id \in due \/ Gone(sreq[c].id)
    /\ spc[c] = "file" => Gone(sreq[c].id)
    /\ spc[c] # "log"

LEMMA LateElsewhere ==
    ASSUME S!TypeOK, ShareShape, NEW c \in Clients, Late(c), spc'[c] = spc[c], sreq'[c] = sreq[c],
           due \subseteq due', \A id \in 1 .. used : Gone(id) => Gone(id)'
    PROVE  Late(c)'
BY CallType DEF Late, Serves, Holding

LEMMA LateStep ==
    ASSUME S!TypeOK, ShareShape, UNCHANGED listVars, S!Next, \A c \in Clients : Late(c)
    PROVE  \A c \in Clients : Late(c)'
<1> USE DEF S!At, S!Step, S!fileVars, S!rowVars, S!timeVars
<1> DEFINE Ok == \A c \in Clients : Late(c)'
<1>0. Present' = Present /\ L!Live' = L!Live
  BY DEF listVars, Present, L!Live
<1>g. ASSUME NEW c \in Clients, NEW step, NEW args, S!Goto(c, step, args)
      PROVE  /\ spc'[c] = step /\ sreq'[c] = args
             /\ \A o \in Clients \ {c} : spc'[o] = spc[o] /\ sreq'[o] = sreq[o]
  BY <1>g DEF S!Goto, S!TypeOK
<1>o. ASSUME NEW c \in Clients, NEW step, NEW args, S!Goto(c, step, args), due' = due,
             \A id \in 1 .. used : fileOf'[id] = fileOf[id], Late(c)'
      PROVE  Ok
  <2>1. \A id \in 1 .. used : Gone(id) => Gone(id)'
    BY <1>0, <1>o DEF Gone
  <2> QED BY <1>g, <1>o, <2>1, LateElsewhere
<1>q. ASSUME NEW c \in Clients, NEW step, step \notin {"get", "find", "file", "log"}, NEW args,
             S!Goto(c, step, args), due' = due, \A id \in 1 .. used : fileOf'[id] = fileOf[id]
      PROVE  Ok
  BY <1>g, <1>o, <1>q DEF Late
<1>1. ASSUME NEW c \in Clients, S!CreateShare(c) \/ S!FindExisting(c) \/ S!CloseExisting(c) \/ S!SetKey(c)
                                    \/ S!CloseExpired(c) \/ S!LogAccess(c)
      PROVE  Ok
  <2>1. due' = due /\ fileOf' = fileOf
    BY <1>1 DEF S!CreateShare, S!FindExisting, S!CloseExisting, S!SetKey, S!CloseExpired, S!LogAccess
  <2>2. PICK step \in {"existing", "insert", "close", "idle"}, args \in {sreq'[c]} : S!Goto(c, step, args)
    <3>1. ASSUME NEW step, NEW args, S!Goto(c, step, args) PROVE S!Goto(c, step, sreq'[c])
      BY <1>g, <3>1
    <3>2. \E step \in {"existing", "insert", "close", "idle"} : \E args : S!Goto(c, step, args)
      BY <1>1 DEF S!CreateShare, S!FindExisting, S!CloseExisting, S!SetKey, S!CloseExpired, S!LogAccess, S!Return
    <3> QED BY <3>1, <3>2
  <2> QED BY <1>q, <2>1, <2>2
<1>2. ASSUME NEW c \in Clients, S!InsertShare(c) PROVE Ok
  <2>1. due' = due /\ \A id \in 1 .. used : fileOf'[id] = fileOf[id]
    BY <1>2, RowType DEF S!InsertShare
  <2>2. \/ S!Goto(c, "idle", S!NoArgs) 
        \/ S!Goto(c, "setkey", [sreq[c] EXCEPT !.id = used + 1])
    BY <1>2 DEF S!InsertShare, S!Return
  <2> QED BY <1>q, <2>1, <2>2
<1>3. ASSUME NEW c \in Clients, S!Visit(c) PROVE Ok
  <2>1. PICK id \in 1 .. used :
           S!Goto(c, "get", [S!NoArgs EXCEPT !.id = id, !.late = id \in due \/ fileOf[id] \notin Present])
    BY <1>3 DEF S!Visit
  <2> DEFINE args == [S!NoArgs EXCEPT !.id = id, !.late = id \in due \/ fileOf[id] \notin Present]
  <2>2. args.id = id /\ (args.late => id \in due \/ fileOf[id] \notin Present)
    BY DEF S!NoArgs
  <2>3. S!Goto(c, "get", args) /\ due' = due /\ fileOf' = fileOf
    BY <1>3, <2>1 DEF S!Visit
  <2> HIDE DEF args
  <2>5. Late(c)'
    <3>1. spc'[c] = "get" /\ sreq'[c] = args
      BY <1>g, <2>3
    <3>2. sreq'[c].late => sreq'[c].id \in due' \/ fileOf'[sreq'[c].id] \notin Present'
      BY <1>0, <2>2, <2>3, <3>1
    <3> QED BY <3>1, <3>2 DEF Late, Gone
  <2> QED BY <1>o, <2>3, <2>5
<1>4. ASSUME NEW c \in Clients, S!GetKey(c) \/ S!FindShare(c) \/ S!OpenFile(c) PROVE Ok
  <2>0. PICK id : id = sreq[c].id
    OBVIOUS
  <2>1. due' = due /\ fileOf' = fileOf /\ id \in 1 .. used
    BY <2>0, <1>4, CallType DEF S!GetKey, S!FindShare, S!OpenFile, Serves, Holding
  <2>2. CASE S!Return(c)
    BY <1>q, <2>1, <2>2 DEF S!Return
  <2>4. CASE S!GetKey(c)
    <3>1. PICK step \in {"file", "find"} : S!Goto(c, step, sreq[c]) /\ (step = "file" => id \notin due)
      BY <2>0, <2>4, RowType DEF S!GetKey
    <3>2. Late(c)'
      BY <1>0, <1>g, <2>0, <2>1, <2>4, <3>1 DEF Late, Gone, S!GetKey
    <3> QED BY <1>o, <2>1, <3>1, <3>2
  <2>5. CASE S!FindShare(c) /\ ~ S!Return(c)
    <3>1. PICK step \in {"file", "expire"} : S!Goto(c, step, sreq[c]) /\ (step = "file" => id \notin due)
      BY <2>0, <2>5 DEF S!FindShare
    <3>2. ~ Gone(id)
      BY <2>0, <2>5, RowType DEF S!FindShare, Gone
    <3>3. Late(c)'
      BY <1>0, <1>g, <2>0, <2>1, <2>5, <3>1, <3>2 DEF Late, Gone, S!FindShare
    <3> QED BY <1>o, <2>1, <3>1, <3>3
  <2>6. CASE S!OpenFile(c) /\ ~ S!Return(c)
    <3>1. S!Goto(c, "log", sreq[c]) /\ fileOf[id] \in L!Live /\ spc[c] = "file"
      BY <2>0, <2>6 DEF S!OpenFile
    <3>2. ~ Gone(id)
      BY <3>1, RowType DEF Gone
    <3>3. Late(c)'
      BY <1>0, <1>g, <2>0, <2>1, <3>1, <3>2 DEF Late, Gone
    <3> QED BY <1>o, <2>1, <3>1, <3>3
  <2> QED BY <1>4, <2>2, <2>4, <2>5, <2>6
<1>5. ASSUME NEW id \in S!Ids, S!FallDue(id) \/ S!HandleShareExpired(id) PROVE Ok
  <2>1. due \subseteq due' /\ UNCHANGED <<spc, sreq, fileOf>>
    BY <1>5 DEF S!FallDue, S!HandleShareExpired
  <2>2. \A i \in 1 .. used : Gone(i) => Gone(i)'
    BY <1>0, <2>1 DEF Gone
  <2> QED BY <2>1, <2>2, LateElsewhere
<1> QED BY <1>1, <1>2, <1>3, <1>4, <1>5 DEF S!Next, S!Create, S!Serve

(* What happens to the listed files makes no late visit a timely one. *)
LEMMA LateAround ==
    ASSUME S!TypeOK, ShareShape, L!TypeOK, ListShape, [L!Next]_listVars,
           UNCHANGED <<due, fileOf, spc, sreq>>, \A c \in Clients : Late(c)
    PROVE  \A c \in Clients : Late(c)'
<1>1. \A id \in 1 .. used : Gone(id) => Gone(id)'
  BY GoneStays DEF ShareShape, Gone
<1> QED BY <1>1, LateElsewhere

-----------------------------------------------------------------------------
(* While CreateShare requests do not overlap: the older shares of a file have *)
(* expired, and who is to insert one has seen that all have.                  *)
Creates(c) == spc[c] \in S!Creating

Alone == \A c, o \in Clients : Creates(c) /\ Creates(o) => c = o
Older == \A a, b \in open : fileOf[a] = fileOf[b] /\ a < b => a \in due
Seen(c) == spc[c] \in {"close", "insert"} => \A id \in open \ due : fileOf[id] # sreq[c].file

Single == Alone /\ Older /\ \A c \in Clients : Seen(c)

LEMMA SingleQuiet ==
    ASSUME S!TypeOK, Single, UNCHANGED fileOf, open' \subseteq open, due \subseteq due',
           \A c \in Clients : Creates(c)' => spc'[c] = spc[c] /\ sreq'[c] = sreq[c]
    PROVE  Single'
<1>1. Alone'
  BY DEF Single, Alone, Creates
<1>2. Older'
  BY DEF Single, Older
<1>3. ASSUME NEW c \in Clients PROVE Seen(c)'
  <2>1. spc'[c] \in {"close", "insert"} => Creates(c)'
    BY DEF Creates, S!Creating
  <2> QED BY <2>1 DEF Single, Seen
<1> QED BY <1>1, <1>2, <1>3 DEF Single

(* The newest of some shares. *)
LEMMA NewestExists ==
    ASSUME NEW n \in Nat, NEW T \in SUBSET (1 .. n), T # {}
    PROVE  \E i \in T : \A j \in T : j <= i
<1> DEFINE R == {ss \in Nat \X Nat : ss[1] < ss[2]}
           D == {n - i : i \in T}
<1>1. IsWellFoundedOn(R, Nat)
  BY NatLessThanWellFounded DEF OpToRel
<1>0. \A i \in T : i \in Nat /\ n - i \in Nat
  OBVIOUS
<1>2. D \in SUBSET Nat /\ D # {}
  BY <1>0
<1> HIDE DEF R
<1>3. PICK d \in D : \A e \in D : <<e, d>> \notin R
  BY <1>1, <1>2, WFMin
<1>4. PICK i \in T : d = n - i
  BY <1>3
<1>5. ASSUME NEW j \in T PROVE j <= i
  <2>1. n - j \in D /\ n - j \in Nat /\ n - i \in Nat
    BY <1>2
  <2>2. ~ (n - j < n - i)
    BY <1>3, <1>4, <2>1 DEF R
  <2> QED BY <2>2
<1> QED BY <1>5

LEMMA SingleStep ==
    ASSUME S!TypeOK, ShareShape, UNCHANGED listVars, S!Next, ~ CreateRaces, Single
    PROVE  Single'
<1> USE DEF S!At, S!Step, S!fileVars, S!rowVars, S!timeVars
<1>g. ASSUME NEW c \in Clients, NEW step, NEW args, S!Goto(c, step, args)
      PROVE  /\ spc'[c] = step /\ sreq'[c] = args
             /\ \A o \in Clients \ {c} : spc'[o] = spc[o] /\ sreq'[o] = sreq[o]
  BY <1>g DEF S!Goto, S!TypeOK
<1>o. ASSUME NEW c \in Clients, Creates(c) PROVE \A o \in Clients \ {c} : ~ Creates(o)
  BY <1>o DEF Single, Alone
<1>c. {"existing", "close", "insert", "setkey"} = S!Creating
  BY DEF S!Creating
(* A step of the only creator. *)
<1>a. ASSUME NEW c \in Clients, \A o \in Clients \ {c} : ~ Creates(o), NEW step, NEW args, S!Goto(c, step, args),
             Older', Seen(c)'
      PROVE  Single'
  <2>1. \A o \in Clients \ {c} : ~ Creates(o)'
    BY <1>a, <1>g DEF Creates
  <2>2. Alone'
    BY <2>1 DEF Alone
  <2>3. \A o \in Clients \ {c} : Seen(o)'
    BY <1>c, <2>1 DEF Creates, Seen
  <2> QED BY <1>a, <2>2, <2>3 DEF Single
<1>i. ASSUME NEW c \in Clients, NEW step, step \notin S!Creating, NEW args, S!Goto(c, step, args),
             UNCHANGED <<fileOf, due>>, open' \subseteq open
      PROVE  Single'
  <2>1. \A o \in Clients : Creates(o)' => spc'[o] = spc[o] /\ sreq'[o] = sreq[o]
    BY <1>g, <1>i DEF Creates
  <2> QED BY <1>i, <2>1, SingleQuiet
<1>n. "idle" \notin S!Creating
  BY <1>c
<1>1. ASSUME NEW c \in Clients, S!CreateShare(c) PROVE Single'
  <2>1. (\A o \in Clients : ~ Creates(o)) /\ UNCHANGED <<open, fileOf, due>>
    BY <1>1 DEF S!CreateShare, Creates
  <2>2. PICK args : S!Goto(c, "existing", args)
    BY <1>1 DEF S!CreateShare
  <2>3. Older'
    BY <2>1 DEF Single, Older
  <2>4. Seen(c)'
    BY <1>g, <2>2 DEF Seen
  <2> QED BY <1>a, <2>1, <2>2, <2>3, <2>4
<1>2. ASSUME NEW c \in Clients, S!FindExisting(c) PROVE Single'
  <2> DEFINE f == sreq[c].file
  <2>1. Creates(c) /\ UNCHANGED <<open, fileOf, due>>
    BY <1>2, <1>c DEF S!FindExisting, Creates
  <2>2. CASE S!Return(c)
    BY <1>i, <1>n, <2>1, <2>2 DEF S!Return
  <2>3. Older'
    BY <2>1 DEF Single, Older
  <2>4. CASE S!Goto(c, "insert", sreq[c]) /\ ~ \E id \in open : S!Newest(f, id)
    <3>1. \A id \in open : fileOf[id] # f
      <4> SUFFICES ASSUME NEW one \in open, fileOf[one] = f PROVE FALSE
        OBVIOUS
      <4> DEFINE T == {id \in open : fileOf[id] = f}
      <4>1. T \in SUBSET (1 .. used) /\ T # {} /\ used \in Nat
        BY RowType
      <4>2. PICK i \in T : \A j \in T : j <= i
        BY <4>1, NewestExists
      <4> QED BY <2>4, <4>2 DEF S!Newest
    <3>2. Seen(c)'
      BY <1>g, <2>1, <2>4, <3>1 DEF Seen
    <3> QED BY <1>a, <1>o, <2>1, <2>3, <2>4, <3>2
  <2>5. ASSUME NEW id \in open, S!Newest(f, id), id \in due, S!Goto(c, "close", [sreq[c] EXCEPT !.id = id])
        PROVE  Single'
    <3>1. \A o \in open \ due : fileOf[o] # f
      <4> SUFFICES ASSUME NEW o \in open \ due, fileOf[o] = f PROVE FALSE
        OBVIOUS
      <4>1. o <= id /\ o # id /\ fileOf[id] = f
        BY <2>5 DEF S!Newest
      <4>2. o < id
        BY <4>1, RowType
      <4> QED BY <4>1, <4>2 DEF Single, Older
    <3>2. sreq'[c].file = f
      BY <1>g, <2>5, CallType DEF SReq
    <3>3. Seen(c)'
      BY <2>1, <3>1, <3>2 DEF Seen
    <3> QED BY <1>a, <1>o, <2>1, <2>3, <2>5, <3>3
  <2> QED BY <1>2, <2>2, <2>4, <2>5 DEF S!FindExisting
<1>3. ASSUME NEW c \in Clients, S!CloseExisting(c) PROVE Single'
  <2>1. Creates(c) /\ spc[c] = "close" /\ open' \subseteq open /\ UNCHANGED <<fileOf, due>> /\ S!Goto(c, "insert", sreq[c])
    BY <1>3, <1>c DEF S!CloseExisting, S!Close, Creates
  <2>2. Older'
    BY <2>1 DEF Single, Older
  <2>3. Seen(c)'
    BY <1>g, <2>1 DEF Single, Seen
  <2> QED BY <1>a, <1>o, <2>1, <2>2, <2>3
<1>4. ASSUME NEW c \in Clients, S!InsertShare(c) PROVE Single'
  <2> DEFINE f == sreq[c].file
             id == used + 1
  <2>0. Creates(c) /\ spc[c] = "insert" /\ due' = due
    BY <1>4, <1>c DEF S!InsertShare, Creates
  <2>1. CASE S!Return(c) /\ UNCHANGED <<used, rows, open, fileOf, timed>>
    BY <1>i, <1>n, <2>0, <2>1 DEF S!Return
  <2>2. CASE f \in Present /\ used < MaxShares
    <3>1. open' = open \cup {id} /\ fileOf' = [fileOf EXCEPT ![id] = f]
      BY <1>4, <2>2 DEF S!InsertShare
    <3>2. id \in S!Ids /\ \A o \in open : o \in Nat /\ o < id /\ o \in S!Ids
      BY <2>2, RowType, ShareConstants DEF S!Ids
    <3> HIDE DEF id
    <3>3. fileOf'[id] = f /\ \A o \in open : fileOf'[o] = fileOf[o]
      BY <3>1, <3>2, RowType
    <3>4. Older'
      <4> SUFFICES ASSUME NEW a \in open', NEW b \in open', fileOf'[a] = fileOf'[b], a < b PROVE a \in due
        BY <2>0 DEF Older
      <4>1. id \in Nat
        BY RowType DEF id
      <4>2. a # id
        BY <3>1, <3>2, <4>1
      <4>3. CASE b = id
        BY <2>0, <3>1, <3>3, <4>2, <4>3 DEF Single, Seen
      <4>4. CASE b # id
        BY <3>1, <3>3, <4>2, <4>4 DEF Single, Older
      <4> QED BY <4>3, <4>4
    <3>5. PICK step \in {"idle", "setkey"}, args \in {sreq'[c]} : S!Goto(c, step, args)
      <4>1. ASSUME NEW step, NEW args, S!Goto(c, step, args) PROVE S!Goto(c, step, sreq'[c])
        BY <1>g, <4>1
      <4>2. \E step \in {"idle", "setkey"} : \E args : S!Goto(c, step, args)
        BY <1>4 DEF S!InsertShare, S!Return
      <4> QED BY <4>1, <4>2
    <3>6. Seen(c)'
      BY <1>g, <3>5 DEF Seen
    <3> QED BY <1>a, <1>o, <2>0, <3>4, <3>5, <3>6
  <2> QED BY <1>4, <2>1, <2>2 DEF S!InsertShare
<1>5. ASSUME NEW c \in Clients, S!SetKey(c) \/ S!Visit(c) \/ S!Serve(c) PROVE Single'
  <2>1. UNCHANGED <<fileOf, due>> /\ open' \subseteq open
    BY <1>5 DEF S!SetKey, S!Visit, S!Serve, S!GetKey, S!FindShare, S!CloseExpired, S!OpenFile, S!LogAccess, S!Close
  <2>2. \E step : \E args : step \notin S!Creating /\ S!Goto(c, step, args)
    BY <1>5, <1>c DEF S!SetKey, S!Visit, S!Serve, S!GetKey, S!FindShare, S!CloseExpired, S!OpenFile, S!LogAccess, S!Return
  <2> QED BY <1>i, <2>1, <2>2
<1>6. ASSUME NEW id \in S!Ids, S!FallDue(id) \/ S!HandleShareExpired(id) PROVE Single'
  <2>1. UNCHANGED <<fileOf, spc, sreq>> /\ open' \subseteq open /\ due \subseteq due'
    BY <1>6 DEF S!FallDue, S!HandleShareExpired, S!Close
  <2> QED BY <2>1, SingleQuiet
<1> QED BY <1>1, <1>2, <1>3, <1>4, <1>5, <1>6 DEF S!Next, S!Create


-----------------------------------------------------------------------------
(* What an undisturbed request knows of the table: a reader the listing, a    *)
(* change where its entries are.                                             *)
Knows(step, a) == ~ a.raced =>
    /\ step \in {"find", "fill"} => a.total = L!Cardinality(L!Listed(a.dir))
    /\ step = "fill" => a.found = L!Listed(a.dir)
    /\ step \in {"recycle", "restore", "move", "purge"} => L!Homes(a.files) \subseteq a.flush

Explained(d) ==
    \/ cache[d] \in {Null, L!Truth(d)}
    \/ \E s \in Sessions : d \in lreq[s].flush
    \/ doubts[d] # {}

Told ==
    /\ \A s \in Sessions : Knows(lpc[s], lreq[s])
    /\ \A d \in Folders : Explained(d)

LEMMA KnowsSame ==
    ASSUME UNCHANGED <<home, binned>>
    PROVE  /\ \A d : L!Listed(d)' = L!Listed(d) /\ L!Truth(d)' = L!Truth(d)
           /\ \A F : L!Homes(F)' = L!Homes(F)
  BY DEF L!Listed, L!Live, L!Truth, L!Homes, L!Cardinality

(* A step that leaves the rows alone. *)
LEMMA ToldStore ==
    ASSUME L!TypeOK, ListShape, Told, NEW s \in Sessions, NEW step, NEW args, L!Goto(s, step, args),
           UNCHANGED <<home, binned>>, Knows(step, args),
           \A d \in Folders :
               \/ cache'[d] \in {Null, L!Truth(d)}
               \/ doubts'[d] # {}
               \/ /\ cache'[d] = cache[d] /\ doubts[d] \subseteq doubts'[d]
                  /\ d \in lreq[s].flush => d \in args.flush
    PROVE  Told'
<1>1. /\ lpc'[s] = step /\ lreq'[s] = args
      /\ \A t \in Sessions \ {s} : lpc'[t] = lpc[t] /\ lreq'[t] = lreq[t]
  BY DEF L!Goto, L!TypeOK
<1>2. ASSUME NEW t \in Sessions PROVE Knows(lpc[t], lreq[t])'
  <2>1. Knows(lpc'[t], lreq'[t])
    BY <1>1 DEF Told
  <2> QED BY <2>1, KnowsSame DEF Knows
<1>3. ASSUME NEW d \in Folders PROVE Explained(d)'
  <2>1. L!Truth(d)' = L!Truth(d)
    BY KnowsSame
  <2>2. CASE cache'[d] \in {Null, L!Truth(d)} \/ doubts'[d] # {}
    BY <2>1, <2>2 DEF Explained
  <2>3. CASE /\ cache'[d] = cache[d] /\ doubts[d] \subseteq doubts'[d]
             /\ d \in lreq[s].flush => d \in args.flush
    <3>1. (\E t \in Sessions : d \in lreq[t].flush) => \E t \in Sessions : d \in lreq'[t].flush
      BY <1>1, <2>3
    <3>2. Explained(d)
      BY DEF Told
    <3> QED BY <2>1, <2>3, <3>1, <3>2 DEF Explained
  <2> QED BY <2>2, <2>3
<1> QED BY <1>2, <1>3 DEF Told

(* A change of the rows of F: the listings it touches are invalidated by it, *)
(* or it did not know where its entries were.                                *)
LEMMA ToldChange ==
    ASSUME L!TypeOK, ListShape, Told, NEW s \in Sessions, NEW F \in SUBSET Files, NEW step, NEW args,
           L!Changed(s, F, step, args), step \in {"invalidate", "copy"},
           \A f \in Files \ F : home'[f] = home[f] /\ (f \in binned' <=> f \in binned),
           lreq[s].flush \subseteq args.flush,
           ~ lreq[s].raced => \A f \in F : /\ home[f] \in Folders => home[f] \in args.flush
                                           /\ home'[f] \in Folders => home'[f] \in args.flush
    PROVE  Told'
<1> DEFINE touched == L!Homes(F) \cup ({home'[f] : f \in F} \cap Folders)
           relies(t) == t # s /\ (lreq[t].dir \in touched \/ lreq[t].files \cap F # {})
<1>1. Moved(s, step, args) /\ cache' = cache
  BY ChangedMoved
<1>2. /\ \A t \in Sessions \ {s} : lreq'[t] = [lreq[t] EXCEPT !.raced = @ \/ relies(t)]
      /\ doubts' = [d \in Folders |->
                        doubts[d] \cup IF lreq[s].raced /\ d \in touched THEN {"change"} ELSE {}]
  BY DEF L!Changed
<1>3. \A f \in F : /\ home[f] \in Folders => home[f] \in touched
                   /\ home'[f] \in Folders => home'[f] \in touched
  BY DEF L!Homes
<1>4. \A d \in touched : lreq[s].raced \/ d \in args.flush
  BY DEF L!Homes
<1> HIDE DEF touched
<1>5. \A d \in Folders \ touched : L!Listed(d)' = L!Listed(d)
  BY <1>3 DEF L!Listed, L!Live
<1>6. \A t \in Sessions \ {s} : lpc'[t] = lpc[t] /\ lreq[t] \in LReq /\ Fits(lpc[t], lreq[t])
  BY <1>1, ReqType DEF Moved, L!TypeOK
<1>7. ASSUME NEW t \in Sessions \ {s} PROVE Knows(lpc[t], lreq[t])'
  <2>1. SUFFICES ASSUME ~ lreq'[t].raced PROVE Knows(lpc[t], lreq[t])'
    BY DEF Knows
  <2>2. /\ ~ lreq[t].raced /\ ~ relies(t)
        /\ lreq'[t].dir = lreq[t].dir /\ lreq'[t].total = lreq[t].total /\ lreq'[t].found = lreq[t].found
        /\ lreq'[t].files = lreq[t].files /\ lreq'[t].flush = lreq[t].flush
    BY <1>2, <1>6, <2>1 DEF LReq
  <2>3. lpc[t] \in Reading => L!Listed(lreq[t].dir)' = L!Listed(lreq[t].dir)
    BY <1>5, <1>6, <2>2 DEF Fits
  <2>4. lpc[t] \in {"find", "fill"} => L!Cardinality(L!Listed(lreq[t].dir))' = L!Cardinality(L!Listed(lreq[t].dir))
    BY <2>3 DEF Reading, L!Cardinality
  <2>5. L!Homes(lreq[t].files)' = L!Homes(lreq[t].files)
    <3>1. \A f \in lreq[t].files : f \in Files \ F
      BY <1>6, <2>2 DEF LReq
    <3> QED BY <2>2, <3>1 DEF L!Homes
  <2>6. Knows(lpc[t], lreq[t])
    BY DEF Told
  <2> QED BY <1>6, <2>2, <2>3, <2>4, <2>5, <2>6 DEF Knows, Reading
<1>8. Knows(lpc[s], lreq[s])'
  BY <1>1 DEF Knows, Moved, L!TypeOK
<1>9. ASSUME NEW d \in Folders PROVE Explained(d)'
  <2>1. lreq'[s] = args /\ \A t \in Sessions \ {s} : lreq'[t].flush = lreq[t].flush
    BY <1>1 DEF Moved, Alike
  <2>2. CASE d \in touched
    BY <1>2, <1>4, <2>1, <2>2 DEF Explained
  <2>3. CASE d \notin touched
    <3>0. L!Listed(d)' = L!Listed(d)
      BY <1>5, <2>3
    <3>c. L!Cardinality(L!Listed(d))' = L!Cardinality(L!Listed(d))
      BY <3>0 DEF L!Cardinality
    <3>1. L!Truth(d)' = L!Truth(d)
      BY <3>0, <3>c DEF L!Truth
    <3>2. (\E t \in Sessions : d \in lreq[t].flush) => \E t \in Sessions : d \in lreq'[t].flush
      BY <2>1
    <3>3. doubts'[d] = doubts[d] /\ cache'[d] = cache[d] /\ Explained(d)
      BY <1>1, <1>2, <2>3 DEF Told
    <3> QED BY <3>1, <3>2, <3>3 DEF Explained
  <2> QED BY <2>2, <2>3
<1> QED BY <1>7, <1>8, <1>9 DEF Told

LEMMA ToldStep ==
    ASSUME L!TypeOK, ListShape, Told, [L!Next]_listVars
    PROVE  Told'
<1> USE DEF L!At, L!tableVars
<1>t. /\ \A s \in Sessions : Knows(lpc[s], lreq[s]) /\ lreq[s] \in LReq /\ Fits(lpc[s], lreq[s])
      /\ home \in [Files -> Folders \cup {L!New, L!Purged}]
      /\ cache = [d \in Folders |-> cache[d]] /\ doubts \in [Folders -> SUBSET L!Reasons]
  BY ReqType, TableType DEF Told
<1>n. L!NoArgs.flush = {} /\ Knows("idle", L!NoArgs)
  BY DEF Knows, L!NoArgs
<1>r. ASSUME NEW s \in Sessions, L!Request(s) PROVE lreq[s].flush = {}
  BY <1>r, <1>t DEF L!Request, Fits
<1>1. ASSUME NEW s \in Sessions, L!GetFileList(s) PROVE Told'
  <2>1. PICK d \in Folders : L!Request(s) /\ L!Goto(s, "count", [L!NoArgs EXCEPT !.dir = d])
    BY <1>1 DEF L!GetFileList
  <2>2. Knows("count", [L!NoArgs EXCEPT !.dir = d])
    BY DEF Knows
  <2> QED BY <1>1, <1>r, <2>1, <2>2, ToldStore DEF L!GetFileList
<1>2. ASSUME NEW s \in Sessions, L!CountFiles(s) PROVE Told'
  <2> DEFINE n == L!Cardinality(L!Listed(lreq[s].dir))
             args == [lreq[s] EXCEPT !.total = n, !.raced = FALSE]
  <2>1. args.total = n /\ args.dir = lreq[s].dir /\ lreq[s].flush = {}
    BY <1>2, <1>t DEF LReq, Fits, Reading, L!CountFiles
  <2>2. L!Goto(s, "find", args)
    BY <1>2 DEF L!CountFiles
  <2> HIDE DEF args
  <2>3. Knows("find", args)
    BY <2>1 DEF Knows
  <2> QED BY <1>2, <2>1, <2>2, <2>3, ToldStore DEF L!CountFiles
<1>3. ASSUME NEW s \in Sessions, L!FindFiles(s) PROVE Told'
  <2> DEFINE args == [lreq[s] EXCEPT !.found = L!Listed(lreq[s].dir)]
  <2>1. /\ args.found = L!Listed(lreq[s].dir) /\ args.dir = lreq[s].dir /\ lreq[s].flush = {}
        /\ args.total = lreq[s].total /\ args.raced = lreq[s].raced /\ lpc[s] = "find"
    BY <1>3, <1>t DEF LReq, Fits, Reading, L!FindFiles
  <2>2. L!Goto(s, "fill", args)
    BY <1>3 DEF L!FindFiles
  <2> HIDE DEF args
  <2>3. Knows("fill", args)
    BY <1>t, <2>1 DEF Knows
  <2> QED BY <1>3, <2>1, <2>2, <2>3, ToldStore DEF L!FindFiles
<1>4. ASSUME NEW s \in Sessions, L!FillCache(s) PROVE Told'
  <2> DEFINE d == lreq[s].dir
  <2>1. d \in Folders /\ lreq[s].flush = {} /\ lpc[s] = "fill"
    BY <1>4, <1>t DEF Fits, Reading, L!FillCache
  <2>2. /\ cache' = [cache EXCEPT ![d] = [files |-> lreq[s].found, total |-> lreq[s].total]]
        /\ doubts' = [doubts EXCEPT ![d] = IF lreq[s].raced THEN {"fill"} ELSE {}]
        /\ L!Goto(s, "idle", L!NoArgs) /\ UNCHANGED <<home, binned>>
    BY <1>4 DEF L!FillCache, L!Return
  <2>3. ~ lreq[s].raced => [files |-> lreq[s].found, total |-> lreq[s].total] = L!Truth(d)
    BY <1>t, <2>1 DEF Knows, L!Truth
  <2> HIDE DEF d
  <2>4. cache'[d] \in {Null, L!Truth(d)} \/ doubts'[d] # {}
    BY <1>t, <2>1, <2>2, <2>3
  <2>5. \A e \in Folders \ {d} : cache'[e] = cache[e] /\ doubts'[e] = doubts[e]
    BY <1>t, <2>2
  <2> QED BY <1>n, <2>1, <2>2, <2>4, <2>5, ToldStore
<1>5. ASSUME NEW s \in Sessions, L!Invalidate(s) PROVE Told'
  <2>1. PICK d \in lreq[s].flush :
           /\ L!Drop(d)
           /\ IF lreq[s].flush \ {d} = {} THEN L!Return(s)
              ELSE L!Goto(s, "invalidate", [lreq[s] EXCEPT !.flush = lreq[s].flush \ {d}])
    BY <1>5 DEF L!Invalidate
  <2> DEFINE args == [lreq[s] EXCEPT !.flush = lreq[s].flush \ {d}]
  <2>2. args.flush = lreq[s].flush \ {d} /\ d \in Folders /\ Knows("invalidate", args)
    BY <1>t DEF LReq, Knows
  <2>3. PICK step, a : L!Goto(s, step, a) /\ Knows(step, a) /\ lreq[s].flush \ {d} = a.flush
    BY <1>n, <2>1, <2>2 DEF L!Return
  <2> HIDE DEF args
  <2>4. cache'[d] = Null /\ \A e \in Folders \ {d} : cache'[e] = cache[e] /\ doubts'[e] = doubts[e]
    BY <1>t, <2>1, <2>2 DEF L!Drop
  <2>5. UNCHANGED <<home, binned>>
    BY <1>5 DEF L!Invalidate
  <2> QED BY <2>3, <2>4, <2>5, ToldStore
<1>6. ASSUME NEW s \in Sessions, L!Create(s) PROVE Told'
  <2>1. PICK f \in Files, d \in Folders :
           /\ L!Request(s) /\ home[f] = L!New /\ home' = [home EXCEPT ![f] = d] /\ UNCHANGED binned
           /\ L!Changed(s, {f}, "invalidate", [L!NoArgs EXCEPT !.flush = {d}])
    BY <1>6 DEF L!Create
  <2>2. [L!NoArgs EXCEPT !.flush = {d}].flush = {d}
    BY DEF L!NoArgs
  <2>3. /\ home'[f] = d /\ home[f] \notin Folders
        /\ \A g \in Files \ {f} : home'[g] = home[g] /\ (g \in binned' <=> g \in binned)
    BY <1>t, <2>1, Constants
  <2> QED BY <1>r, <2>1, <2>2, <2>3, ToldChange
<1>7. ASSUME NEW s \in Sessions, L!Look(s) PROVE Told'
  <2>1. PICK op \in L!Changes, F \in SUBSET Files, d \in Folders :
           /\ L!Request(s)
           /\ L!Goto(s, op, [L!NoArgs EXCEPT !.files = F, !.target = d, !.flush = L!FlushOf(op, F, d)])
    BY <1>7 DEF L!Look
  <2> DEFINE args == [L!NoArgs EXCEPT !.files = F, !.target = d, !.flush = L!FlushOf(op, F, d)]
  <2>2. args.files = F /\ args.flush = L!FlushOf(op, F, d)
    BY DEF L!NoArgs
  <2>3. op \in {"recycle", "restore", "move", "purge"} => L!Homes(F) \subseteq L!FlushOf(op, F, d)
    BY DEF L!FlushOf
  <2>4. L!Goto(s, op, args) /\ op \notin {"find", "fill"}
    BY <2>1 DEF L!Changes
  <2> HIDE DEF args
  <2>5. Knows(op, args)
    BY <2>2, <2>3, <2>4 DEF Knows
  <2> QED BY <1>7, <1>r, <2>1, <2>4, <2>5, ToldStore DEF L!Look
<1>8. ASSUME NEW s \in Sessions, L!Update(s) \/ L!Purge(s) PROVE Told'
  <2> DEFINE F == lreq[s].files
  <2>1. L!Changed(s, F, "invalidate", lreq[s]) /\ lpc[s] \in {"recycle", "restore", "move", "purge"}
    BY <1>8 DEF L!Update, L!Purge
  <2>2. F \in SUBSET Files
    BY <1>t DEF LReq
  <2>3. \A f \in Files \ F : home'[f] = home[f] /\ (f \in binned' <=> f \in binned)
    BY <1>8, <1>t DEF L!Update, L!Purge
  <2>4. ~ lreq[s].raced => \A f \in F : home[f] \in Folders => home[f] \in lreq[s].flush
    BY <1>t, <2>1 DEF Knows, L!Homes
  <2>5. \A f \in F : home'[f] \in Folders => home'[f] = home[f] \/ home'[f] \in lreq[s].flush
    <3>1. CASE L!Update(s) /\ lpc[s] = "move"
      BY <1>t, <2>2, <3>1 DEF L!Update, Fits
    <3>2. CASE L!Update(s) /\ lpc[s] # "move"
      BY <3>2 DEF L!Update
    <3>3. CASE L!Purge(s)
      BY <2>2, <3>3, Constants DEF L!Purge
    <3> QED BY <1>8, <3>1, <3>2, <3>3
  <2> HIDE DEF F
  <2> QED BY <2>1, <2>2, <2>3, <2>4, <2>5, ToldChange
<1>9. ASSUME NEW s \in Sessions, L!CopyFile(s) PROVE Told'
  <2>1. PICK f \in lreq[s].files, new \in Files :
           /\ lpc[s] = "copy" /\ home[new] = L!New /\ home' = [home EXCEPT ![new] = lreq[s].target]
           /\ UNCHANGED binned
           /\ L!Changed(s, {new}, "copy", [lreq[s] EXCEPT !.files = @ \ {f}])
    BY <1>9 DEF L!CopyFile
  <2> DEFINE args == [lreq[s] EXCEPT !.files = @ \ {f}]
  <2>2. args.flush = lreq[s].flush /\ lreq[s].target \in args.flush
    BY <1>t, <2>1 DEF LReq, Fits
  <2>3. L!Changed(s, {new}, "copy", args)
    BY <2>1
  <2> HIDE DEF args
  <2>4. /\ home'[new] \in args.flush /\ home[new] \notin Folders
        /\ \A g \in Files \ {new} : home'[g] = home[g] /\ (g \in binned' <=> g \in binned)
    BY <1>t, <2>1, <2>2, Constants
  <2> QED BY <2>2, <2>3, <2>4, ToldChange
<1>10. ASSUME NEW s \in Sessions, L!CopyDone(s) PROVE Told'
  <2>1. Knows("invalidate", lreq[s])
    BY DEF Knows
  <2> QED BY <1>10, <2>1, ToldStore DEF L!CopyDone
<1>11. ASSUME NEW s \in Sessions, L!CopyFails(s) PROVE Told'
  <2>1. lreq[s].target \in Folders /\ lreq[s].flush = {lreq[s].target}
    BY <1>11, <1>t DEF L!CopyFails, Fits
  <2>2. doubts' = [doubts EXCEPT ![lreq[s].target] = @ \cup {"copy"}] /\ cache' = cache
    BY <1>11 DEF L!CopyFails
  <2>3. doubts'[lreq[s].target] # {} /\ \A d \in Folders \ {lreq[s].target} : doubts'[d] = doubts[d]
    BY <1>t, <2>1, <2>2
  <2> QED BY <1>11, <1>n, <2>1, <2>2, <2>3, ToldStore DEF L!CopyFails, L!Return
<1>12. ASSUME NEW d \in Folders, L!Expire(d) PROVE Told'
  <2>1. UNCHANGED <<home, binned, lpc, lreq>> /\ L!Drop(d)
    BY <1>12 DEF L!Expire
  <2>2. cache'[d] = Null /\ \A e \in Folders \ {d} : cache'[e] = cache[e] /\ doubts'[e] = doubts[e]
    BY <1>t, <2>1 DEF L!Drop
  <2>3. \A e \in Folders : Explained(e)'
    BY <2>1, <2>2, KnowsSame DEF Told, Explained
  <2>4. \A s \in Sessions : Knows(lpc[s], lreq[s])'
    BY <2>1, KnowsSame DEF Told, Knows
  <2> QED BY <2>3, <2>4 DEF Told
<1>13. CASE UNCHANGED listVars
  <2>1. UNCHANGED <<home, binned, lpc, lreq, cache, doubts>>
    BY <1>13 DEF listVars
  <2>2. \A e \in Folders : Explained(e)'
    BY <2>1, KnowsSame DEF Told, Explained
  <2>3. \A s \in Sessions : Knows(lpc[s], lreq[s])'
    BY <2>1, KnowsSame DEF Told, Knows
  <2> QED BY <2>2, <2>3 DEF Told
<1> QED BY <1>1, <1>2, <1>3, <1>4, <1>5, <1>6, <1>7, <1>8, <1>9, <1>10, <1>11, <1>12, <1>13
        DEF L!Next, L!Read, L!Change

-----------------------------------------------------------------------------
(* The inductive invariant, of which each property is a consequence.         *)
IInv ==
    /\ L!TypeOK /\ ListShape
    /\ S!TypeOK /\ ShareShape
    /\ \A c \in Clients : Late(c)
    /\ ~ CreateRaces => Single
    /\ Told

LEMMA InitHolds == Init => IInv
<1> SUFFICES ASSUME Init PROVE IInv
  OBVIOUS
<1> USE DEF Init, L!Init, S!Init
<1>1. L!TypeOK /\ ListShape
  <2>1. /\ lpc \in [Sessions -> L!Steps] /\ lreq \in [Sessions -> LReq]
        /\ \A s \in Sessions : lpc[s] = "idle" /\ lreq[s] = L!NoArgs
    BY NoArgsType DEF L!Steps
  <2>2. doubts \in [Folders -> SUBSET L!Reasons] /\ left \in 0 .. MaxRequests
    BY Constants
  <2>3. \A s \in Sessions : Fits(lpc[s], lreq[s])
    BY <2>1, NoArgsType DEF Fits, Reading
  <2> QED BY <2>1, <2>2, <2>3 DEF L!TypeOK, ListShape, LReq
<1>2. S!TypeOK /\ ShareShape
  <2>1. /\ spc \in [Clients -> S!Steps] /\ sreq \in [Clients -> SReq]
        /\ \A c \in Clients : spc[c] = "idle"
    BY NoCallType
  <2>2. L!Live \subseteq Present /\ Present \subseteq Files
    BY DEF L!Live, Present
  <2>3. used \in 0 .. MaxShares /\ calls \in 0 .. MaxCalls /\ 1 .. used = {}
    BY ShareConstants
  <2>4. \A c \in Clients : Serves(c)
    BY <2>1 DEF Serves, Holding
  <2> QED BY <2>1, <2>2, <2>3, <2>4 DEF S!TypeOK, ShareShape, SReq
<1>3. \A c \in Clients : Late(c)
  BY DEF Late, S!NoArgs
<1>4. Single
  BY DEF Single, Alone, Older, Seen, Creates, S!Creating
<1>5. Told
  <2>1. \A s \in Sessions : Knows(lpc[s], lreq[s])
    BY DEF Knows
  <2> QED BY <2>1 DEF Told, Explained
<1> QED BY <1>1, <1>2, <1>3, <1>4, <1>5 DEF IInv

(* What a request about listings leaves of the invariant of the shares. *)
LEMMA StepOfListings ==
    ASSUME IInv, [L!Next]_listVars, UNCHANGED shareVars, Present \subseteq Present'
    PROVE  IInv'
<1>1. UNCHANGED <<used, rows, open, fileOf, timed, due, keys, events, log, spc, sreq, calls>>
  BY DEF shareVars
<1>2. L!TypeOK' /\ ListShape' /\ Told'
  BY ListTypeStep, ToldStep DEF IInv
<1>3. S!TypeOK' /\ ShareShape'
  BY AroundShares DEF IInv
<1>4. \A c \in Clients : Late(c)'
  BY <1>1, LateAround DEF IInv
<1>5. ~ CreateRaces => Single'
  BY <1>1, SingleQuiet DEF IInv
<1> QED BY <1>2, <1>3, <1>4, <1>5 DEF IInv

LEMMA StepHolds == IInv /\ [Next]_vars => IInv'
<1> SUFFICES ASSUME IInv, [Next]_vars PROVE IInv'
  OBVIOUS
<1> USE DEF IInv
<1>1. ASSUME NEW s \in Sessions, ListingStep(s) PROVE IInv'
  <2>1. L!Next /\ UNCHANGED shareVars
    BY <1>1 DEF ListingStep, L!Next, L!Change
  <2>2. Present \subseteq Present'
    BY <1>1, <2>1, NotPurging, OnlyPurges
  <2> QED BY <2>1, <2>2, StepOfListings
<1>2. ASSUME NEW s \in Sessions, PurgeFile(s) PROVE IInv'
  <2>1. PICK f \in lreq[s].files : L!Purge(s) /\ S!DropShares(f)
    BY <1>2 DEF PurgeFile
  <2>2. L!Next
    BY <2>1 DEF L!Next, L!Change
  <2>3. open' \subseteq open /\ UNCHANGED <<due, fileOf, spc, sreq>>
    BY <2>1 DEF S!DropShares, S!timeVars
  <2>4. L!TypeOK' /\ ListShape' /\ Told'
    BY <2>2, ListTypeStep, ToldStep
  <2>5. S!TypeOK' /\ ShareShape'
    BY <1>2, PurgedShares
  <2>6. \A c \in Clients : Late(c)'
    BY <2>2, <2>3, LateAround
  <2>7. ~ CreateRaces => Single'
    BY <2>3, SingleQuiet
  <2> QED BY <2>4, <2>5, <2>6, <2>7
<1>3. ASSUME NEW d \in Folders, Expire(d) PROVE IInv'
  <2>1. L!Next /\ UNCHANGED shareVars
    BY <1>3 DEF Expire, L!Next
  <2>2. Present \subseteq Present'
    BY <1>3, <2>1, NotPurgingEither, OnlyPurges DEF Expire
  <2> QED BY <2>1, <2>2, StepOfListings
<1>4. CASE ShareStep
  <2>1. UNCHANGED listVars /\ S!Next
    BY <1>4 DEF ShareStep
  <2>2. L!TypeOK' /\ ListShape' /\ Told'
    BY <2>1, ListTypeStep, ToldStep
  <2>3. S!TypeOK' /\ ShareShape'
    BY <2>1, ShareTypeStep
  <2>4. \A c \in Clients : Late(c)'
    BY <2>1, LateStep
  <2>5. ~ CreateRaces => Single'
    BY <2>1, SingleStep
  <2> QED BY <2>2, <2>3, <2>4, <2>5
<1>5. CASE UNCHANGED vars
  <2>1. UNCHANGED <<home, binned>> /\ UNCHANGED listVars /\ UNCHANGED shareVars
    BY <1>5 DEF vars, listVars
  <2>2. Present \subseteq Present'
    BY <2>1 DEF Present
  <2> QED BY <2>1, <2>2, StepOfListings
<1> QED BY <1>1, <1>2, <1>3, <1>4, <1>5 DEF Next

LEMMA Inductive == Spec => []IInv
BY InitHolds, StepHolds, PTL DEF Spec

-----------------------------------------------------------------------------
(* The tables, the cache, the keys and the local variables keep their types, *)
(* every share row has a file that exists and every expired event is of a    *)
(* share whose time has passed (TypeOK of Listings and of Shares).           *)
THEOREM TypeCorrect == Spec => []TypeOK
<1>1. IInv => TypeOK
  BY DEF IInv, TypeOK
<1> QED BY <1>1, Inductive, PTL

(* No visitor who came after expire_at or after the purge of the file gets to *)
(* the bytes, however the key, the row, the listener and the purge are        *)
(* ordered (CheckShare, ShareDownload).                                       *)
THEOREM LateTurnedAway == Spec => []LateNotServed
<1>1. IInv => LateNotServed
  BY DEF IInv, Late, LateNotServed, S!LateNotServed, S!At
<1> QED BY <1>1, Inductive, PTL

(* If requests to create shares do not overlap, a file has at most one share *)
(* that is open and has not expired (CreateShare).                           *)
THEOREM OneShareOpen == Spec => []OneOpenShare
<1>1. IInv => OneOpenShare
  <2> SUFFICES ASSUME IInv, ~ CreateRaces, NEW a \in open \ due, NEW b \in open \ due, fileOf[a] = fileOf[b]
               PROVE  a = b
    BY DEF OneOpenShare, S!OneOpenShare
  <2>1. a \in Nat /\ b \in Nat
    BY RowType DEF IInv
  <2>2. ~ (a < b) /\ ~ (b < a)
    BY DEF IInv, Single, Older
  <2> QED BY <2>1, <2>2
<1> QED BY <1>1, Inductive, PTL

(* A cached listing that differs from the table is about to be invalidated,  *)
(* or a change overlapped the reading of it or another change, or a copy     *)
(* broke off (GetFileList, invalidateFileListCache).                         *)
THEOREM StaleTold == Spec => []StaleExplained
<1>1. IInv => StaleExplained
  BY DEF IInv, Told, Explained, StaleExplained, L!StaleExplained, L!Stale
<1> QED BY <1>1, Inductive, PTL

=============================================================================

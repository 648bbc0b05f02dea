--------------------------- MODULE ActivityProofs ---------------------------
(* Theorems about Activity, for any number of events, workers, days and     *)
(* mishaps.                                                                 *)
EXTENDS Activity, FiniteSetTheorems, TLAPS

(* A worker is idle exactly when it holds no event; emitters never are. *)
Shape ==
    /\ hash = [d \in Days |-> hash[d]]
    /\ \A w \in Workers : (held[w] = Null <=> pc[w] = "idle") /\ pc[w] \notin {"new", "publish", "done"}
    /\ \A e \in Events : pc[e] # "idle"

Idle == {"new", "idle", "done"}

-----------------------------------------------------------------------------
(* Whoever is at work on an event has one. *)
LEMMA HasEvent ==
    ASSUME TypeOK, Shape, NEW a \in Actors, pc[a] # "idle"
    PROVE  EventOf(a) \in Events /\ (a \notin Events => a \in Workers /\ EventOf(a) = held[a])
  BY DEF TypeOK, Shape, Actors, EventOf

LEMMA MishapType ==
    ASSUME TypeOK, NEW fault, NEW events, Mishap(fault, events)
    PROVE  mishaps' \in [Events -> SUBSET FaultNames] /\ left' \in 0 .. MaxMishaps
<1>1. fault \in FaultNames
  BY ConstantsAssumption DEF Mishap
<1>2. left' \in 0 .. MaxMishaps
  BY ConstantsAssumption DEF TypeOK, Mishap
<1> QED BY <1>1, <1>2 DEF TypeOK, Mishap

(* Every step keeps the types. *)
LEMMA TypeStep ==
    ASSUME TypeOK, Shape, [Next]_vars
    PROVE  TypeOK' /\ Shape'
<1> USE ConstantsAssumption DEF stores, aux, At, Goto, Steps
<1>1. ASSUME NEW e \in Events, Emit(e) PROVE TypeOK' /\ Shape'
  BY <1>1 DEF TypeOK, Shape, Emit, Actors
<1>2. ASSUME NEW e \in Events, Publish(e) PROVE TypeOK' /\ Shape'
  BY <1>2, MishapType DEF TypeOK, Shape, Publish, Actors
<1>3. ASSUME NEW e \in Events, PublishFails(e) PROVE TypeOK' /\ Shape'
  BY <1>3, MishapType DEF TypeOK, Shape, PublishFails, Actors
<1>4. ASSUME NEW w \in Workers, Deliver(w) PROVE TypeOK' /\ Shape'
  BY <1>4 DEF TypeOK, Shape, Deliver, Actors
<1>5. ASSUME NEW a \in Actors, Apply(a) PROVE TypeOK' /\ Shape'
  <2>1. pc[a] # "idle"
    BY <1>5 DEF Apply, Dedup, UpsertDailyRow, UndoDedup, CountInRedis, Settle
  <2>2. EventOf(a) \in Events /\ (a \notin Events => a \in Workers /\ EventOf(a) = held[a])
    BY <2>1, HasEvent
  <2>3. CASE Dedup(a)
    BY <2>2, <2>3 DEF TypeOK, Shape, Dedup, Actors
  <2>4. CASE UpsertDailyRow(a)
    BY <2>2, <2>4 DEF TypeOK, Shape, UpsertDailyRow, Counted, Actors
  <2>5. CASE UndoDedup(a)
    <3>1. dedup' \subseteq Events /\ mishaps' \in [Events -> SUBSET FaultNames] /\ left' \in 0 .. MaxMishaps
      BY <2>5, MishapType DEF TypeOK, UndoDedup
    <3>2. CASE a \in Workers
      BY <2>2, <2>5, <3>1, <3>2 DEF TypeOK, Shape, UndoDedup, Actors
    <3>3. CASE a \notin Workers
      BY <2>2, <2>5, <3>1, <3>3 DEF TypeOK, Shape, UndoDedup, Actors
    <3> QED BY <3>2, <3>3
  <2>6. CASE CountInRedis(a)
    <3>1. mishaps' \in [Events -> SUBSET FaultNames] /\ left' \in 0 .. MaxMishaps
      BY <2>6, MishapType DEF TypeOK, CountInRedis
    <3>2. hash' = [d \in Days |-> hash'[d]] /\ \A d \in Days : hash'[d] = Null \/ hash'[d] \in [Events -> Nat]
      <4>1. DayOf[EventOf(a)] \in Days
        BY <2>2 DEF Days
      <4> DEFINE before == IF hash[DayOf[EventOf(a)]] = Null THEN [f \in Events |-> 0]
                           ELSE hash[DayOf[EventOf(a)]]
      <4>2. before \in [Events -> Nat]
        BY <4>1 DEF TypeOK
      <4>3. Counted(before, EventOf(a)) \in [Events -> Nat]
        BY <2>2, <4>2 DEF Counted
      <4>4. hash' = hash \/ hash' = [hash EXCEPT ![DayOf[EventOf(a)]] = Counted(before, EventOf(a))]
        BY <2>6 DEF CountInRedis
      <4> HIDE DEF before
      <4> QED BY <4>1, <4>3, <4>4 DEF TypeOK, Shape
    <3> QED BY <2>2, <2>6, <3>1, <3>2 DEF TypeOK, Shape, CountInRedis, Actors
  <2>7. CASE Settle(a)
    BY <2>2, <2>7 DEF TypeOK, Shape, Settle, Actors
  <2> QED BY <1>5, <2>3, <2>4, <2>5, <2>6, <2>7 DEF Apply
<1>6. ASSUME NEW e \in Events, KeyLost(e) PROVE TypeOK' /\ Shape'
  BY <1>6, MishapType DEF TypeOK, Shape, KeyLost
<1>7. ASSUME NEW a \in Actors, DedupFails(a) \/ UpsertFails(a) PROVE TypeOK' /\ Shape'
  <2>1. EventOf(a) \in Events /\ (a \notin Events => a \in Workers /\ EventOf(a) = held[a])
    BY <1>7, HasEvent DEF DedupFails, UpsertFails
  <2>2. CASE DedupFails(a)
    BY <2>1, <2>2, MishapType DEF TypeOK, Shape, DedupFails, Actors
  <2>3. CASE UpsertFails(a)
    <3>1. row' \in [Events -> Nat]
      BY <2>1, <2>3 DEF TypeOK, UpsertFails, Counted
    <3> QED BY <2>1, <2>3, <3>1, MishapType DEF TypeOK, Shape, UpsertFails, Actors
  <2> QED BY <1>7, <2>2, <2>3
<1>8. ASSUME NEW a \in Actors, Stop(a) PROVE TypeOK' /\ Shape'
  <2>1. EventOf(a) \in Events /\ (a \notin Events => a \in Workers /\ EventOf(a) = held[a])
    BY <1>8, HasEvent DEF Stop
  <2>2. CASE a \in Workers
    BY <1>8, <2>1, <2>2, MishapType DEF TypeOK, Shape, Stop, Actors
  <2>3. CASE a \notin Workers
    BY <1>8, <2>1, <2>3, MishapType DEF TypeOK, Shape, Stop, Actors
  <2> QED BY <2>2, <2>3
<1>9. ASSUME NEW d \in Days, DayLost(d) PROVE TypeOK' /\ Shape'
  BY <1>9, MishapType DEF TypeOK, Shape, DayLost
<1>10. CASE UNCHANGED vars
  BY <1>10 DEF vars, TypeOK, Shape
<1> QED BY <1>1, <1>2, <1>3, <1>4, <1>5, <1>6, <1>7, <1>8, <1>9, <1>10 DEF Next, Mishaps

(* What has gone wrong with an event is not forgotten. *)
LEMMA Remembered ==
    ASSUME TypeOK, [Next]_vars, NEW e \in Events, NEW faults, Excused(e, faults)
    PROVE  Excused(e, faults)'
<1>1. mishaps' = mishaps \/ \E fault, events : Mishap(fault, events)
  BY DEF Next, Mishaps, Emit, Publish, PublishFails, Deliver, Apply, Dedup, UpsertDailyRow, UndoDedup,
         CountInRedis, Settle, KeyLost, DedupFails, UpsertFails, Stop, DayLost, vars, aux
<1> QED BY <1>1 DEF TypeOK, Excused, Mishap

-----------------------------------------------------------------------------
(* Between the dedup key and the end of the upsert. *)
Busy == {"upsert", "undo"}

BusyWith(a, e) == pc[a] \in Busy /\ EventOf(a) = e

(* Redis or MySQL misled ApplyEvent. *)
Misled(e) == Excused(e, {"redis", "sql_maybe", "key_lost"})

(* The dedup key is a lock, given back only if nothing was counted. *)
Locked(e) == ~ Misled(e) =>
    /\ row[e] <= 1
    /\ e \notin dedup => row[e] = 0
    /\ \A a \in Actors : BusyWith(a, e) => e \in dedup /\ row[e] = 0
    /\ \A a, b \in Actors : BusyWith(a, e) /\ BusyWith(b, e) => b = a

LEMMA LockStep ==
    ASSUME TypeOK, Shape, [Next]_vars, NEW e \in Events, Locked(e)
    PROVE  Locked(e)'
<1> SUFFICES ASSUME ~ Misled(e)' PROVE Locked(e)'
  BY DEF Locked
<1>0. ~ Misled(e)
  BY Remembered DEF Misled
<1> USE ConstantsAssumption DEF stores, aux, At, Goto, Busy, BusyWith, EventOf, Actors
<1>1. ASSUME NEW f \in Events, Emit(f) \/ Publish(f) \/ PublishFails(f) PROVE Locked(e)'
  BY <1>0, <1>1 DEF TypeOK, Shape, Locked, Emit, Publish, PublishFails
<1>2. ASSUME NEW w \in Workers, Deliver(w) PROVE Locked(e)'
  BY <1>0, <1>2 DEF TypeOK, Shape, Locked, Deliver
<1>3. ASSUME NEW a \in Actors, Dedup(a) PROVE Locked(e)'
  BY <1>0, <1>3 DEF TypeOK, Shape, Locked, Dedup
<1>4. ASSUME NEW a \in Actors, UpsertDailyRow(a) PROVE Locked(e)'
  BY <1>0, <1>4 DEF TypeOK, Shape, Locked, UpsertDailyRow, Counted
<1>5. ASSUME NEW a \in Actors, UndoDedup(a) PROVE Locked(e)'
  BY <1>0, <1>5 DEF TypeOK, Shape, Locked, UndoDedup
<1>6. ASSUME NEW a \in Actors, CountInRedis(a) \/ Settle(a) PROVE Locked(e)'
  BY <1>0, <1>6 DEF TypeOK, Shape, Locked, CountInRedis, Settle
<1>7. ASSUME NEW f \in Events, KeyLost(f) PROVE Locked(e)'
  <2>1. f # e
    BY <1>7 DEF KeyLost, Mishap, Misled, Excused
  <2> QED BY <1>0, <1>7, <2>1 DEF TypeOK, Shape, Locked, KeyLost
<1>8. ASSUME NEW a \in Actors, DedupFails(a) PROVE Locked(e)'
  <2>1. EventOf(a) # e
    BY <1>8 DEF DedupFails, Mishap, Misled, Excused
  <2> QED BY <1>0, <1>8, <2>1 DEF TypeOK, Shape, Locked, DedupFails
<1>9. ASSUME NEW a \in Actors, UpsertFails(a) PROVE Locked(e)'
  <2>1. CASE EventOf(a) = e
    <3>1. UNCHANGED row
      BY <1>9, <2>1 DEF UpsertFails, Mishap, Misled, Excused
    <3> QED BY <1>0, <1>9, <2>1, <3>1 DEF TypeOK, Shape, Locked, UpsertFails
  <2>2. CASE EventOf(a) # e
    BY <1>0, <1>9, <2>2 DEF TypeOK, Shape, Locked, UpsertFails, Counted
  <2> QED BY <2>1, <2>2
<1>10. ASSUME NEW a \in Actors, Stop(a) PROVE Locked(e)'
  BY <1>0, <1>10 DEF TypeOK, Shape, Locked, Stop
<1>11. ASSUME NEW d \in Days, DayLost(d) PROVE Locked(e)'
  BY <1>0, <1>11 DEF Locked, DayLost
<1>12. CASE UNCHANGED vars
  BY <1>0, <1>12 DEF Locked, vars
<1> QED BY <1>1, <1>2, <1>3, <1>4, <1>5, <1>6, <1>7, <1>8, <1>9, <1>10, <1>11, <1>12
        DEF Next, Mishaps, Apply

-----------------------------------------------------------------------------
(* What excuses an event that was never counted. *)
LostFor(e) ==
    \/ Excused(e, {"stop", "unconfirmed", "redis"})
    \/ Excused(e, {"publish", "maybe"}) /\ Excused(e, {"sql"})

(* Somebody is still to count it. *)
Going(e) ==
    \/ e \in queue
    \/ pc[e] \in {"new", "publish"}
    \/ \E a \in Actors : pc[a] \in Busy \cup {"dedup"} /\ EventOf(a) = e

Kept(e) ==
    (* a key without a count has an owner, who knows that it is his *)
    /\ row[e] = 0 /\ e \in dedup /\ ~ LostFor(e) => \E a \in Actors : BusyWith(a, e)
    /\ \A a \in Actors : BusyWith(a, e) /\ ~ LostFor(e) => a \in mine
    (* why an emitter applies its event, and why it gives up *)
    /\ pc[e] \in {"dedup", "upsert", "undo"} => Excused(e, {"publish", "maybe"})
    /\ \A a \in Actors : At(a, "undo") /\ EventOf(a) = e /\ row[e] = 0 => Excused(e, {"sql"})
    /\ row[e] = 0 /\ ~ LostFor(e) => Going(e)

LEMMA KeptStep ==
    ASSUME TypeOK, Shape, [Next]_vars, NEW e \in Events, Kept(e)
    PROVE  Kept(e)'
<1>0. /\ LostFor(e) => LostFor(e)'
      /\ \A faults : Excused(e, faults) => Excused(e, faults)'
  BY Remembered DEF LostFor
<1> USE ConstantsAssumption DEF stores, aux, At, Goto, Busy, BusyWith, EventOf, Actors, Going
<1>1. ASSUME NEW f \in Events, Emit(f) PROVE Kept(e)'
  BY <1>0, <1>1 DEF TypeOK, Shape, Kept, Emit
<1>2. ASSUME NEW f \in Events, Publish(f) PROVE Kept(e)'
  <2>1. f = e => e \in queue' \/ LostFor(e)'
    BY <1>2 DEF TypeOK, Publish, LostFor, Excused, Mishap
  <2> QED BY <1>0, <1>2, <2>1 DEF TypeOK, Shape, Kept, Publish
<1>3. ASSUME NEW f \in Events, PublishFails(f) PROVE Kept(e)'
  <2>1. f = e => Excused(e, {"publish", "maybe"})'
    BY <1>3 DEF TypeOK, PublishFails, Excused, Mishap
  <2> QED BY <1>0, <1>3, <2>1 DEF TypeOK, Shape, Kept, PublishFails
<1>4. ASSUME NEW w \in Workers, Deliver(w) PROVE Kept(e)'
  BY <1>0, <1>4 DEF TypeOK, Shape, Kept, Deliver
<1>5. ASSUME NEW a \in Actors, Dedup(a) PROVE Kept(e)'
  BY <1>0, <1>5 DEF TypeOK, Shape, Kept, Dedup
<1>6. ASSUME NEW a \in Actors, UpsertDailyRow(a) PROVE Kept(e)'
  BY <1>0, <1>6 DEF TypeOK, Shape, Kept, UpsertDailyRow, Counted
<1>7. ASSUME NEW a \in Actors, UndoDedup(a) PROVE Kept(e)'
  <2>1. CASE EventOf(a) # e
    BY <1>0, <1>7, <2>1 DEF TypeOK, Shape, Kept, UndoDedup
  <2>2. CASE EventOf(a) = e
    <3>1. BusyWith(a, e) /\ \A b \in Actors : BusyWith(b, e)' => b # a /\ BusyWith(b, e)
      BY <1>7, <2>2 DEF TypeOK, Shape, UndoDedup
    <3>2. e \notin dedup' \/ LostFor(e)'
      BY <1>0, <1>7, <2>2, <3>1 DEF TypeOK, UndoDedup, Kept, LostFor, Excused, Mishap
    <3>3. row[e] = 0 => e \in queue' \/ LostFor(e)'
      <4>1. CASE a \in Workers
        BY <1>7, <2>2, <4>1 DEF UndoDedup
      <4>2. CASE a \in Events
        BY <1>0, <1>7, <2>2, <4>2 DEF UndoDedup, Kept, LostFor
      <4> QED BY <4>1, <4>2
    <3>4. /\ \A b \in Actors : b # a => (b \in mine <=> b \in mine')
          /\ pc'[e] \in {"dedup", "upsert", "undo"} => pc[e] \in {"dedup", "upsert", "undo"}
          /\ row' = row
      BY <1>7, <2>2 DEF TypeOK, Shape, UndoDedup
    <3>5. \A b \in Actors : At(b, "undo")' /\ EventOf(b)' = e => At(b, "undo") /\ EventOf(b) = e
      BY <1>7, <2>2 DEF TypeOK, Shape, UndoDedup
    <3> QED BY <1>0, <3>1, <3>2, <3>3, <3>4, <3>5 DEF Kept
  <2> QED BY <2>1, <2>2
<1>8. ASSUME NEW a \in Actors, CountInRedis(a) \/ Settle(a) PROVE Kept(e)'
  BY <1>0, <1>8 DEF TypeOK, Shape, Kept, CountInRedis, Settle
<1>9. ASSUME NEW f \in Events, KeyLost(f) PROVE Kept(e)'
  BY <1>0, <1>9 DEF TypeOK, Shape, Kept, KeyLost
<1>10. ASSUME NEW a \in Actors, DedupFails(a) PROVE Kept(e)'
  <2>1. EventOf(a) = e => LostFor(e)'
    BY <1>10 DEF TypeOK, DedupFails, LostFor, Excused, Mishap
  <2> QED BY <1>0, <1>10, <2>1 DEF TypeOK, Shape, Kept, DedupFails
<1>11. ASSUME NEW a \in Actors, UpsertFails(a) PROVE Kept(e)'
  <2>1. EventOf(a) = e => row'[e] # 0 \/ Excused(e, {"sql"})'
    BY <1>11 DEF TypeOK, UpsertFails, Excused, Mishap, Counted
  <2> QED BY <1>0, <1>11, <2>1 DEF TypeOK, Shape, Kept, UpsertFails, Counted
<1>12. ASSUME NEW a \in Actors, Stop(a) PROVE Kept(e)'
  <2>1. EventOf(a) = e => LostFor(e)'
    BY <1>12 DEF TypeOK, Stop, LostFor, Excused, Mishap
  <2> QED BY <1>0, <1>12, <2>1 DEF TypeOK, Shape, Kept, Stop
<1>13. ASSUME NEW d \in Days, DayLost(d) PROVE Kept(e)'
  BY <1>0, <1>13 DEF Kept, DayLost
<1>14. CASE UNCHANGED vars
  BY <1>0, <1>14 DEF Kept, vars
<1> QED BY <1>1, <1>2, <1>3, <1>4, <1>5, <1>6, <1>7, <1>8, <1>9, <1>10, <1>11, <1>12, <1>13, <1>14
        DEF Next, Mishaps, Apply

-----------------------------------------------------------------------------
(* Who has counted e in MySQL, and not yet in Redis. *)
Counting(e) == {a \in Actors : pc[a] = "count" /\ EventOf(a) = e}

ShownLate(e) == Excused(e, {"redis", "day_lost", "stop", "sql_maybe"})

(* What the user sees, and what is still on its way to be seen. *)
Shown(e) ==
    /\ IsFiniteSet(Counting(e))
    /\ GetSummary(e) + Cardinality(Counting(e)) <= row[e]
    /\ ~ ShownLate(e) => GetSummary(e) + Cardinality(Counting(e)) = row[e]

LEMMA SummaryType ==
    ASSUME TypeOK, Shape, NEW e \in Events
    PROVE  GetSummary(e) \in Nat /\ row[e] \in Nat
  BY DEF TypeOK, GetSummary, Days

LEMMA SummaryTypeNext ==
    ASSUME TypeOK', Shape', NEW e \in Events
    PROVE  GetSummary(e)' \in Nat /\ row'[e] \in Nat
  BY DEF TypeOK, GetSummary, Days

(* A step that brings neither count forward may leave them apart only with *)
(* an excuse.                                                              *)
LEMMA ShownLess ==
    ASSUME TypeOK, Shape, TypeOK', Shape', NEW e \in Events, Shown(e),
           GetSummary(e)' <= GetSummary(e), row'[e] >= row[e], Counting(e)' \subseteq Counting(e),
           \/ ShownLate(e)'
           \/ /\ ~ ShownLate(e)
              /\ UNCHANGED <<GetSummary(e), row[e], Counting(e)>>
    PROVE  Shown(e)'
<1> DEFINE c == Cardinality(Counting(e))
           n == Cardinality(Counting(e)')
<1>1. IsFiniteSet(Counting(e)') /\ n <= c /\ n \in Nat /\ c \in Nat
  BY FS_Subset, FS_CardinalityType DEF Shown
<1>2. GetSummary(e) \in Nat /\ row[e] \in Nat /\ GetSummary(e)' \in Nat /\ row'[e] \in Nat
  BY SummaryType, SummaryTypeNext
<1>3. GetSummary(e) + c <= row[e] /\ (~ ShownLate(e) => GetSummary(e) + c = row[e])
  BY DEF Shown
<1>4. UNCHANGED <<GetSummary(e), row[e], Counting(e)>> =>
          GetSummary(e)' = GetSummary(e) /\ row'[e] = row[e] /\ n = c
  OBVIOUS
<1>5. GetSummary(e)' + n <= row'[e] /\ (~ ShownLate(e)' => GetSummary(e)' + n = row'[e])
  <2> HIDE DEF c, n
  <2> QED BY <1>1, <1>2, <1>3, <1>4
<1> QED BY <1>1, <1>5 DEF Shown

LEMMA ShownStep ==
    ASSUME TypeOK, Shape, [Next]_vars, NEW e \in Events, Shown(e)
    PROVE  Shown(e)'
<1>0. ShownLate(e) => ShownLate(e)'
  BY Remembered DEF ShownLate
<1>t. TypeOK' /\ Shape'
  BY TypeStep
<1>n. /\ GetSummary(e) \in Nat /\ row[e] \in Nat /\ GetSummary(e)' \in Nat /\ row'[e] \in Nat
      /\ Cardinality(Counting(e)) \in Nat
  BY <1>t, SummaryType, SummaryTypeNext, FS_CardinalityType DEF Shown
<1> USE ConstantsAssumption DEF stores, aux, At, Goto, EventOf, Actors
<1>u. ASSUME UNCHANGED <<row, hash>>, Counting(e)' = Counting(e) PROVE Shown(e)'
  BY <1>0, <1>u DEF Shown, GetSummary
<1>1. ASSUME NEW f \in Events, Emit(f) \/ Publish(f) \/ PublishFails(f) \/ KeyLost(f) PROVE Shown(e)'
  BY <1>u, <1>1 DEF TypeOK, Shape, Counting, Emit, Publish, PublishFails, KeyLost
<1>2. ASSUME NEW w \in Workers, Deliver(w) PROVE Shown(e)'
  BY <1>u, <1>2 DEF TypeOK, Shape, Counting, Deliver
<1>3. ASSUME NEW a \in Actors, Dedup(a) \/ DedupFails(a) PROVE Shown(e)'
  BY <1>u, <1>3 DEF TypeOK, Shape, Counting, Dedup, DedupFails
<1>4. ASSUME NEW a \in Actors, UndoDedup(a) PROVE Shown(e)'
  BY <1>u, <1>4 DEF TypeOK, Shape, Counting, UndoDedup
<1>5. ASSUME NEW a \in Actors, Settle(a) PROVE Shown(e)'
  BY <1>u, <1>5 DEF TypeOK, Shape, Counting, Settle
<1>6. ASSUME NEW a \in Actors, UpsertDailyRow(a) PROVE Shown(e)'
  <2>1. CASE EventOf(a) # e
    <3>1. row'[e] = row[e] /\ GetSummary(e)' = GetSummary(e)
      BY <1>6, <2>1 DEF TypeOK, UpsertDailyRow, Counted, GetSummary
    <3>2. Counting(e)' = Counting(e)
      BY <1>6, <2>1 DEF TypeOK, Shape, Counting, UpsertDailyRow
    <3> QED BY <1>0, <3>1, <3>2 DEF Shown
  <2>2. CASE EventOf(a) = e
    <3>1. row'[e] = row[e] + 1 /\ GetSummary(e)' = GetSummary(e)
      BY <1>6, <2>2 DEF TypeOK, UpsertDailyRow, Counted, GetSummary
    <3>2. a \notin Counting(e) /\ Counting(e)' = Counting(e) \cup {a}
      BY <1>6, <2>2 DEF TypeOK, Shape, Counting, UpsertDailyRow
    <3>3. IsFiniteSet(Counting(e)') /\ Cardinality(Counting(e)') = Cardinality(Counting(e)) + 1
      BY <3>2, FS_AddElement DEF Shown
    <3>4. GetSummary(e)' + Cardinality(Counting(e)') = (GetSummary(e) + Cardinality(Counting(e))) + 1
      BY <1>n, <3>1, <3>3
    <3> QED BY <1>0, <1>n, <3>1, <3>3, <3>4 DEF Shown
  <2> QED BY <2>1, <2>2
<1>7. ASSUME NEW a \in Actors, UpsertFails(a) PROVE Shown(e)'
  <2>1. Counting(e)' = Counting(e) /\ GetSummary(e)' = GetSummary(e) /\ row'[e] >= row[e]
    BY <1>7, <1>n DEF TypeOK, Shape, Counting, UpsertFails, GetSummary, Counted
  <2>2. row'[e] = row[e] \/ ShownLate(e)'
    BY <1>7 DEF TypeOK, UpsertFails, Counted, ShownLate, Excused, Mishap
  <2> QED BY <1>0, <1>n, <1>t, <2>1, <2>2, ShownLess
<1>8. ASSUME NEW a \in Actors, CountInRedis(a) PROVE Shown(e)'
  <2> DEFINE f == EventOf(a)
             d == DayOf[f]
             before == IF hash[d] = Null THEN [g \in Events |-> 0] ELSE hash[d]
  <2>1. f \in Events /\ d \in Days /\ DayOf[e] \in Days
    BY <1>8, HasEvent DEF CountInRedis, Days
  <2>2. before \in [Events -> Nat] /\ (DayOf[e] = d => GetSummary(e) = before[e])
    BY <2>1 DEF TypeOK, GetSummary
  <2>3. Counted(before, f) \in [Events -> Nat] /\ Counted(before, f) # Null
    BY <2>1, <2>2 DEF Counted
  <2>4. row'[e] = row[e]
    BY <1>8 DEF CountInRedis
  <2>5. /\ a \in Actors /\ pc[a] = "count" /\ Counting(e)' = Counting(e) \ {a}
        /\ f # e => a \notin Counting(e)
        /\ f = e => a \in Counting(e)
    BY <1>8 DEF TypeOK, Shape, Counting, CountInRedis
  <2>6. CASE hash' = [hash EXCEPT ![d] = Counted(before, f)]
    <3>1. GetSummary(e)' = IF f = e THEN GetSummary(e) + 1 ELSE GetSummary(e)
      <4>1. CASE DayOf[e] = d
        <5>1. hash'[DayOf[e]] = Counted(before, f)
          BY <2>1, <2>6, <4>1 DEF Shape
        <5>2. GetSummary(e)' = Counted(before, f)[e]
          BY <2>3, <5>1 DEF GetSummary
        <5>3. Counted(before, f)[e] = IF f = e THEN before[e] + 1 ELSE before[e]
          BY <2>1, <2>2 DEF Counted
        <5> QED BY <2>2, <4>1, <5>2, <5>3
      <4>2. CASE DayOf[e] # d
        BY <2>1, <2>6, <4>2 DEF Shape, GetSummary
      <4> QED BY <4>1, <4>2
    <3>2. CASE f # e
      <4>1. Counting(e)' = Counting(e)
        BY <2>5, <3>2
      <4> QED BY <1>0, <2>4, <3>1, <3>2, <4>1 DEF Shown
    <3>3. CASE f = e
      <4>1. IsFiniteSet(Counting(e)') /\ Cardinality(Counting(e)') = Cardinality(Counting(e)) - 1
        BY <2>5, <3>3, FS_RemoveElement DEF Shown
      <4>2. Cardinality(Counting(e)') \in Nat
        BY <4>1, FS_CardinalityType
      <4>3. GetSummary(e)' + Cardinality(Counting(e)') = GetSummary(e) + Cardinality(Counting(e))
        BY <1>n, <3>1, <3>3, <4>1, <4>2
      <4> QED BY <1>0, <2>4, <4>1, <4>3 DEF Shown
    <3> QED BY <3>2, <3>3
  <2>7. CASE UNCHANGED hash /\ Mishap("redis", {f})
    <3>1. GetSummary(e)' = GetSummary(e)
      BY <2>7 DEF GetSummary
    <3>2. CASE f # e
      <4>1. Counting(e)' = Counting(e)
        BY <2>5, <3>2
      <4> QED BY <1>0, <2>4, <3>1, <4>1 DEF Shown
    <3>3. CASE f = e
      <4>1. ShownLate(e)'
        BY <2>7, <3>3 DEF TypeOK, ShownLate, Excused, Mishap
      <4> QED BY <1>n, <1>t, <2>4, <2>5, <3>1, <4>1, ShownLess
    <3> QED BY <3>2, <3>3
  <2> QED BY <1>8, <2>6, <2>7 DEF CountInRedis
<1>9. ASSUME NEW a \in Actors, Stop(a) PROVE Shown(e)'
  <2>1. UNCHANGED <<row, hash>> /\ Counting(e)' \subseteq Counting(e)
    BY <1>9 DEF TypeOK, Shape, Counting, Stop
  <2>2. Counting(e)' = Counting(e) \/ ShownLate(e)'
    <3>1. CASE EventOf(a) = e
      BY <1>9, <3>1 DEF TypeOK, Stop, ShownLate, Excused, Mishap
    <3>2. CASE EventOf(a) # e
      BY <1>9, <3>2 DEF TypeOK, Shape, Counting, Stop
    <3> QED BY <3>1, <3>2
  <2>3. row'[e] = row[e] /\ GetSummary(e)' = GetSummary(e)
    BY <2>1 DEF GetSummary
  <2> QED BY <1>0, <1>n, <1>t, <2>1, <2>2, <2>3, ShownLess
<1>10. ASSUME NEW d \in Days, DayLost(d) PROVE Shown(e)'
  <2>1. UNCHANGED row /\ Counting(e)' = Counting(e)
    BY <1>10 DEF DayLost, Counting
  <2>2. GetSummary(e)' <= GetSummary(e) /\ (GetSummary(e)' = GetSummary(e) \/ ShownLate(e)')
    <3>1. CASE DayOf[e] = d
      <4>1. GetSummary(e)' = 0
        BY <1>10, <3>1 DEF Shape, DayLost, GetSummary
      <4>2. ShownLate(e)'
        BY <1>10, <3>1 DEF TypeOK, DayLost, ShownLate, Excused, Mishap
      <4> QED BY <1>n, <4>1, <4>2
    <3>2. CASE DayOf[e] # d
      <4>1. GetSummary(e)' = GetSummary(e)
        BY <1>10, <3>2 DEF Shape, DayLost, GetSummary, Days
      <4> QED BY <1>n, <4>1
    <3> QED BY <3>1, <3>2
  <2> QED BY <1>0, <1>n, <1>t, <2>1, <2>2, ShownLess
<1>11. CASE UNCHANGED vars
  BY <1>u, <1>11 DEF vars, Counting
<1> QED BY <1>1, <1>2, <1>3, <1>4, <1>5, <1>6, <1>7, <1>8, <1>9, <1>10, <1>11
        DEF Next, Mishaps, Apply

-----------------------------------------------------------------------------
(* The inductive invariant. *)
IInv == TypeOK /\ Shape /\ \A e \in Events : Locked(e) /\ Kept(e) /\ Shown(e)

LEMMA Invariant == Spec => []IInv
<1>1. Init => IInv
  <2> SUFFICES ASSUME Init PROVE IInv
    OBVIOUS
  <2>1. TypeOK /\ Shape
    BY ConstantsAssumption DEF Init, TypeOK, Shape, Actors, Steps
  <2>2. ASSUME NEW e \in Events PROVE Locked(e) /\ Kept(e)
    BY ConstantsAssumption DEF Init, Locked, Kept, Going, BusyWith, Busy, Actors, At
  <2>3. ASSUME NEW e \in Events PROVE Shown(e)
    <3>1. Counting(e) = {} /\ GetSummary(e) = 0 /\ row[e] = 0
      BY DEF Init, Counting, GetSummary, Days, Actors
    <3> QED BY <3>1, FS_EmptySet DEF Shown
  <2> QED BY <2>1, <2>2, <2>3 DEF IInv
<1>2. IInv /\ [Next]_vars => IInv'
  <2> SUFFICES ASSUME IInv, [Next]_vars PROVE IInv'
    OBVIOUS
  <2>1. TypeOK' /\ Shape'
    BY TypeStep DEF IInv
  <2>2. ASSUME NEW e \in Events PROVE (Locked(e) /\ Kept(e) /\ Shown(e))'
    BY LockStep, KeptStep, ShownStep DEF IInv
  <2> QED BY <2>1, <2>2 DEF IInv
<1> QED BY <1>1, <1>2, PTL DEF Spec

(* Types hold in every reachable state. *)
THEOREM TypeCorrect == Spec => []TypeOK
<1>1. IInv => TypeOK
  BY DEF IInv
<1> QED BY <1>1, Invariant, PTL

(* No event is counted twice, unless Redis or MySQL misled ApplyEvent. *)
THEOREM NeverTwice == Spec => []CountedOnce
<1>1. IInv => CountedOnce
  <2> SUFFICES ASSUME IInv, NEW e \in Events, row[e] > 1 PROVE Misled(e)
    BY DEF CountedOnce, Misled
  <2>1. row[e] \in Nat /\ Locked(e)
    BY DEF IInv, TypeOK
  <2> QED BY <2>1 DEF Locked
<1> QED BY <1>1, Invariant, PTL

(* An event at rest has been counted, or a mishap took it. *)
THEOREM NeverForgotten == Spec => []CountedAtRest
<1>1. IInv => CountedAtRest
  <2> SUFFICES ASSUME IInv, NEW e \in Events, ~ UnderWay(e), row[e] = 0 PROVE LostFor(e)
    BY DEF CountedAtRest, LostFor
  <2>1. ~ Going(e)
    BY DEF IInv, TypeOK, UnderWay, Going, Busy, Actors, EventOf
  <2> QED BY <2>1 DEF IInv, Kept
<1> QED BY <1>1, Invariant, PTL

(* The user sees what MySQL has, late and never more. *)
THEOREM NeverMoreShown == Spec => []SummaryTruthful
<1>1. IInv => SummaryTruthful
  <2> SUFFICES ASSUME IInv, NEW e \in Events
               PROVE  /\ GetSummary(e) <= row[e]
                      /\ ~ UnderWay(e) /\ GetSummary(e) # row[e] => ShownLate(e)
    BY DEF SummaryTruthful, ShownLate
  <2>1. GetSummary(e) \in Nat /\ row[e] \in Nat /\ Shown(e)
    BY SummaryType DEF IInv
  <2>2. Cardinality(Counting(e)) \in Nat
    BY <2>1, FS_CardinalityType DEF Shown
  <2>3. GetSummary(e) <= row[e]
    BY <2>1, <2>2 DEF Shown
  <2>4. ~ UnderWay(e) => Counting(e) = {}
    BY DEF UnderWay, Counting, IInv, TypeOK, Actors, EventOf
  <2>5. Counting(e) = {} => Cardinality(Counting(e)) = 0
    BY FS_EmptySet
  <2> QED BY <2>1, <2>3, <2>4, <2>5 DEF Shown
<1> QED BY <1>1, Invariant, PTL

=============================================================================

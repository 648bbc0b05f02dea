------------------------------ MODULE Activity ------------------------------
(***************************************************************************)
(* Activity events (activity/event.go), the statistics they add up to      *)
(* (activity/aggregate.go) and the workers that read the queue             *)
(* (worker/activity_worker.go).                                            *)
(*                                                                         *)
(* An event is emitted once, by the handler or service of what the user    *)
(* did: it is published or, when that fails, applied on the spot.  Workers *)
(* apply what the queue delivers.  pc[a] is the next call of a, an event's *)
(* emitter or a worker.  The columns of one row move together, so a row of *)
(* user_activity_daily, and the Redis hash of a day, is the number of      *)
(* times each event has been added to it.                                  *)
(***************************************************************************)
EXTENDS Integers, FiniteSets

CONSTANTS
    Events,        \* events of one user
    Workers,       \* activity workers
    DayOf,         \* the day an event occurred
    Faults,        \* what goes wrong: a subset of FaultNames
    MaxMishaps,    \* how often it does
    Null

(* publish: PublishActivity fails.  maybe: it fails although the broker has  *)
(* the message.  unconfirmed: the broker loses a message it was given.       *)
(* sql: the upsert fails.  sql_maybe: it fails although it was committed.    *)
(* redis: a Redis call fails.  day_lost: the hash of a day runs out after    *)
(* its 14 days, or Redis loses it.  key_lost: the same for a dedup key.      *)
(* stop: the API or a worker dies.                                           *)
FaultNames == {"publish", "maybe", "unconfirmed", "sql", "sql_maybe", "redis",
               "day_lost", "key_lost", "stop"}

ASSUME ConstantsAssumption ==
    /\ Events \cap Workers = {}
    /\ Null \notin Events \cup Workers
    /\ Null \notin [Events -> Nat]
    /\ Faults \subseteq FaultNames
    /\ MaxMishaps \in Nat
    /\ DOMAIN DayOf = Events

Days == {DayOf[e] : e \in Events}
Actors == Events \cup Workers
Steps == {"new", "idle", "publish", "dedup", "upsert", "undo", "count", "settle", "done"}

VARIABLES
    queue,      \* events in activity.queue
    dedup,      \* events whose key activity:event:dedup:<id> exists
    row,        \* how often an event is in its row of user_activity_daily
    hash,       \* how often it is in the Redis hash of a day; Null: no hash
    pc,         \* next call of an emitter or worker
    held,       \* the unacknowledged event of a worker, or Null
    mine,       \* actors whose SETNX set the key: dedupSet
    mishaps,    \* what has gone wrong with an event; no part of the program
    left        \* how often something may still go wrong

stores == <<dedup, row, hash>>
aux    == <<mishaps, left>>
vars   == <<queue, stores, pc, held, mine, aux>>

TypeOK ==
    /\ queue \subseteq Events
    /\ dedup \subseteq Events
    /\ row \in [Events -> Nat]
    /\ \A d \in Days : hash[d] = Null \/ hash[d] \in [Events -> Nat]
    /\ pc \in [Actors -> Steps]
    /\ held \in [Workers -> Events \cup {Null}]
    /\ mine \subseteq Actors
    /\ mishaps \in [Events -> SUBSET FaultNames]
    /\ left \in 0 .. MaxMishaps

Init ==
    /\ queue = {}
    /\ dedup = {}
    /\ row = [e \in Events |-> 0]
    /\ hash = [d \in Days |-> Null]
    /\ pc = [a \in Actors |-> IF a \in Events THEN "new" ELSE "idle"]
    /\ held = [w \in Workers |-> Null]
    /\ mine = {}
    /\ mishaps = [e \in Events |-> {}]
    /\ left = MaxMishaps

-----------------------------------------------------------------------------
At(a, step) == pc[a] = step
Goto(a, step) == pc' = [pc EXCEPT ![a] = step]
EventOf(a) == IF a \in Events THEN a ELSE held[a]

Mishap(fault, events) ==
    /\ fault \in Faults
    /\ left > 0
    /\ left' = left - 1
    /\ mishaps' = [e \in Events |-> mishaps[e] \cup IF e \in events THEN {fault} ELSE {}]

-----------------------------------------------------------------------------
(* Emit, with a new event id. *)
Emit(e) ==
    /\ At(e, "new")
    /\ Goto(e, "publish")
    /\ UNCHANGED <<queue, stores, held, mine, aux>>

(* Publish: without publisher confirms the broker may still lose it. *)
Publish(e) ==
    /\ At(e, "publish")
    /\ Goto(e, "done")
    /\ \/ queue' = queue \cup {e} /\ UNCHANGED aux
       \/ Mishap("unconfirmed", {e}) /\ UNCHANGED queue
    /\ UNCHANGED <<stores, held, mine>>

(* A publish that fails: the event is applied here. *)
PublishFails(e) ==
    /\ At(e, "publish")
    /\ Goto(e, "dedup")
    /\ \/ Mishap("publish", {e}) /\ UNCHANGED queue
       \/ Mishap("maybe", {e}) /\ queue' = queue \cup {e}
    /\ UNCHANGED <<stores, held, mine>>

Deliver(w) == \E e \in queue :
    /\ At(w, "idle")
    /\ queue' = queue \ {e}
    /\ held' = [held EXCEPT ![w] = e]
    /\ Goto(w, "dedup")
    /\ UNCHANGED <<stores, mine, aux>>

-----------------------------------------------------------------------------
(* mutant: the answer of SETNX is not looked at *)
DedupIgnored(a) ==
    /\ At(a, "dedup")
    /\ Goto(a, "upsert")
    /\ dedup' = dedup \cup {EventOf(a)}
    /\ mine' = mine \cup {a}
    /\ UNCHANGED <<queue, row, hash, held, aux>>

(* mutant: a duplicate is counted in Redis all the same *)
DedupCountsAgain(a) ==
    LET e == EventOf(a)
    IN /\ At(a, "dedup")
       /\ Goto(a, IF e \in dedup THEN "count" ELSE "upsert")
       /\ dedup' = dedup \cup {e}
       /\ mine' = IF e \in dedup THEN mine ELSE mine \cup {a}
       /\ UNCHANGED <<queue, row, hash, held, aux>>

(* ApplyEvent: SETNX of the dedup key.  An event that has one is dropped; if *)
(* Redis does not answer, the event is applied without.                      *)
Dedup(a) ==
    LET e == EventOf(a)
    IN /\ At(a, "dedup")
       /\ Goto(a, IF e \in dedup THEN "settle" ELSE "upsert")
       /\ dedup' = dedup \cup {e}
       /\ mine' = IF e \in dedup THEN mine ELSE mine \cup {a}
       /\ UNCHANGED <<queue, row, hash, held, aux>>

DedupFails(a) ==
    /\ At(a, "dedup")
    /\ Mishap("redis", {EventOf(a)})
    /\ Goto(a, "upsert")
    /\ UNCHANGED <<queue, stores, held, mine>>

Counted(counts, e) == [counts EXCEPT ![e] = @ + 1]

(* upsertDailyRow: one statement inserts the row or adds to it. *)
UpsertDailyRow(a) ==
    /\ At(a, "upsert")
    /\ row' = Counted(row, EventOf(a))
    /\ Goto(a, "count")
    /\ UNCHANGED <<queue, dedup, hash, held, mine, aux>>

UpsertFails(a) ==
    /\ At(a, "upsert")
    /\ \/ Mishap("sql", {EventOf(a)}) /\ UNCHANGED row
       \/ Mishap("sql_maybe", {EventOf(a)}) /\ row' = Counted(row, EventOf(a))
    /\ Goto(a, "undo")
    /\ UNCHANGED <<queue, dedup, hash, held, mine>>

(* mutant: the key stays after an error *)
UndoKeepsKey(a) ==
    /\ At(a, "undo")
    /\ mine' = mine \ {a}
    /\ IF a \in Workers
         THEN /\ queue' = queue \cup {held[a]}
              /\ held' = [held EXCEPT ![a] = Null]
              /\ Goto(a, "idle")
         ELSE Goto(a, "done") /\ UNCHANGED <<queue, held>>
    /\ UNCHANGED <<stores, aux>>

(* mutant: the worker acknowledges an event it could not apply *)
UndoAcks(a) ==
    /\ At(a, "undo")
    /\ dedup' = IF a \in mine THEN dedup \ {EventOf(a)} ELSE dedup
    /\ mine' = mine \ {a}
    /\ IF a \in Workers
         THEN held' = [held EXCEPT ![a] = Null] /\ Goto(a, "idle")
         ELSE Goto(a, "done") /\ UNCHANGED held
    /\ UNCHANGED <<queue, row, hash, aux>>

(* mutant: the message is requeued after the worker has let go of it *)
UndoRequeuesLate(a) ==
    /\ At(a, "undo")
    /\ mine' = mine \ {a}
    /\ IF a \in Workers
         THEN /\ held' = [held EXCEPT ![a] = Null]
              /\ queue' = queue \cup {held'[a]}
              /\ Goto(a, "idle")
         ELSE Goto(a, "done") /\ UNCHANGED <<queue, held>>
    /\ UNCHANGED <<stores, aux>>

(* After an error the key is given up, if it was set here, for the retry.  A *)
(* worker has the message requeued; Emit's callers ignore the error.         *)
UndoDedup(a) ==
    /\ At(a, "undo")
    /\ \/ dedup' = (IF a \in mine THEN dedup \ {EventOf(a)} ELSE dedup) /\ UNCHANGED aux
       \/ a \in mine /\ Mishap("redis", {EventOf(a)}) /\ UNCHANGED dedup
    /\ mine' = mine \ {a}
    /\ IF a \in Workers
         THEN /\ queue' = queue \cup {held[a]}
              /\ held' = [held EXCEPT ![a] = Null]
              /\ Goto(a, "idle")
         ELSE Goto(a, "done") /\ UNCHANGED <<queue, held>>
    /\ UNCHANGED <<row, hash>>

(* The transaction of HINCRBYs; its error is ignored. *)
CountInRedis(a) ==
    LET e == EventOf(a)
        d == DayOf[e]
        before == IF hash[d] = Null THEN [f \in Events |-> 0] ELSE hash[d]
    IN /\ At(a, "count")
       /\ \/ hash' = [hash EXCEPT ![d] = Counted(before, e)] /\ UNCHANGED aux
          \/ Mishap("redis", {e}) /\ UNCHANGED hash
       /\ Goto(a, "settle")
       /\ UNCHANGED <<queue, dedup, row, held, mine>>

(* nil: a worker acknowledges. *)
Settle(a) ==
    /\ At(a, "settle")
    /\ IF a \in Workers
         THEN held' = [held EXCEPT ![a] = Null] /\ Goto(a, "idle")
         ELSE Goto(a, "done") /\ UNCHANGED held
    /\ mine' = mine \ {a}
    /\ UNCHANGED <<queue, stores, aux>>

-----------------------------------------------------------------------------
(* An emitter dies with its request, a worker's message is delivered again. *)
Stop(a) ==
    /\ pc[a] \notin {"new", "idle", "done"}
    /\ Mishap("stop", {EventOf(a)})
    /\ IF a \in Workers
         THEN /\ queue' = queue \cup {held[a]}
              /\ held' = [held EXCEPT ![a] = Null]
              /\ Goto(a, "idle")
         ELSE Goto(a, "done") /\ UNCHANGED <<queue, held>>
    /\ mine' = mine \ {a}
    /\ UNCHANGED stores

DayLost(d) ==
    /\ hash[d] # Null
    /\ Mishap("day_lost", {e \in Events : DayOf[e] = d})
    /\ hash' = [hash EXCEPT ![d] = Null]
    /\ UNCHANGED <<queue, dedup, row, pc, held, mine>>

KeyLost(e) ==
    /\ e \in dedup
    /\ Mishap("key_lost", {e})
    /\ dedup' = dedup \ {e}
    /\ UNCHANGED <<queue, row, hash, pc, held, mine>>

Apply(a) ==
    Dedup(a) \/ UpsertDailyRow(a) \/ UndoDedup(a) \/ CountInRedis(a) \/ Settle(a)

Mishaps ==
    \/ \E e \in Events : PublishFails(e) \/ KeyLost(e)
    \/ \E a \in Actors : DedupFails(a) \/ UpsertFails(a) \/ Stop(a)
    \/ \E d \in Days : DayLost(d)

Next ==
    \/ \E e \in Events : Emit(e) \/ Publish(e)
    \/ \E w \in Workers : Deliver(w)
    \/ \E a \in Actors : Apply(a)
    \/ Mishaps

(* Handlers and workers go on, and a message in the queue is delivered. *)
Fairness ==
    /\ \A e \in Events : WF_vars(Publish(e))
    /\ \A a \in Actors : WF_vars(Apply(a))
    /\ \A w \in Workers : WF_vars(Deliver(w))

Spec == Init /\ [][Next]_vars /\ Fairness

-----------------------------------------------------------------------------
(* GetSummary takes a day from Redis when there is a hash.  Otherwise the   *)
(* row is looked up by the day's text, which is never there: with           *)
(* parseTime=True (config.go) a DATE column is read back as                 *)
(* 2006-01-02T00:00:00+08:00.                                               *)
GetSummary(e) == IF hash[DayOf[e]] = Null THEN 0 ELSE hash[DayOf[e]][e]

UnderWay(e) ==
    \/ e \in queue
    \/ pc[e] # "done"
    \/ \E w \in Workers : held[w] = e

Excused(e, faults) == mishaps[e] \cap faults # {}

(* Properties. *)

(* No event is counted twice, however often it is delivered and whoever      *)
(* applies it, unless Redis or MySQL misled ApplyEvent about its key or its   *)
(* row (aggregate.go:67).                                                     *)
CountedOnce == \A e \in Events :
    row[e] > 1 => Excused(e, {"redis", "sql_maybe", "key_lost"})

(* An event nobody works on any more has been counted, unless a process died  *)
(* with it, the broker or a Redis call lost it, or the upsert of the fall-back *)
(* failed, whose error Emit's callers drop (event.go:47, aggregate.go:79).    *)
CountedAtRest == \A e \in Events :
    ~ UnderWay(e) /\ row[e] = 0 =>
        \/ Excused(e, {"stop", "unconfirmed", "redis"})
        \/ Excused(e, {"publish", "maybe"}) /\ Excused(e, {"sql"})

(* The user sees what MySQL has, never more and, when nobody works on the      *)
(* event, never less, unless Redis failed or forgot the day, a process died    *)
(* between the two counts, or MySQL counted behind an error: the rows can not  *)
(* make up for a hash (aggregate.go:126).                                      *)
SummaryTruthful == \A e \in Events :
    /\ GetSummary(e) <= row[e]
    /\ ~ UnderWay(e) /\ GetSummary(e) # row[e] =>
           Excused(e, {"redis", "day_lost", "stop", "sql_maybe"})

(* A queued event is counted or was lost by a mishap for good: a failed upsert *)
(* alone is repaired by the retry (worker/activity_worker.go:69).              *)
QueuedIsCounted == \A e \in Events :
    e \in queue ~> \/ row[e] > 0
                   \/ Excused(e, {"stop", "redis"})
                   \/ Excused(e, {"maybe"}) /\ Excused(e, {"sql"})

=============================================================================

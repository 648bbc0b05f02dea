---------------------------- MODULE DownloadTasks ----------------------------
(***************************************************************************)
(* Offline downloads: the API inserts a download_task row and publishes a   *)
(* message, workers take messages from RabbitMQ, claim the task, fetch the *)
(* URL into MinIO, insert the file_object and user_file rows and complete  *)
(* the task, or schedule a retry through the delayed queue, or fail it     *)
(* (internal/task/download_task.go, internal/worker/download_worker.go,    *)
(* internal/mq/rabbitmq.go).                                               *)
(*                                                                         *)
(* A worker is one goroutine handling one unacknowledged delivery; each of *)
(* its steps is one SQL statement, fetch or publish.                       *)
(***************************************************************************)
EXTENDS Naturals, FiniteSets

CONSTANTS
    Tasks,         \* download_task rows that will be created
    Workers,       \* goroutines of the worker processes
    MaxRetry,      \* DOWNLOAD_RETRY_MAX
    Faults,        \* what goes wrong: a subset of FaultNames
    MaxMishaps,    \* bound on the faults of a behaviour, HTTP failures excepted
    Null

(* http:    the source answers an error or breaks off;                     *)
(* timeout: DOWNLOAD_HTTP_TIMEOUT runs out during the fetch;               *)
(* db:      an SQL statement fails, other than                             *)
(* status:  the one that reads, claims or completes the task;              *)
(* publish: a publish fails;                                               *)
(* api:     the API process dies between the insert and the publish;       *)
(* stop:    a worker process stops, by signal or crash.                    *)
FaultNames == {"http", "timeout", "db", "status", "publish", "api", "stop"}

ASSUME TaskAssumption ==
    /\ MaxRetry \in Nat
    /\ Faults \subseteq FaultNames
    /\ MaxMishaps \in Nat
    /\ Null \notin Tasks \X (0 .. MaxRetry)

(* DownloadMessage: task and attempt. *)
Messages == Tasks \X (0 .. MaxRetry)

VARIABLES
    status,     \* download_task.status, "none" before the row exists
    api,        \* the CreateDownloadTask call of each task
    tasksQ,     \* messages ready in the task queue, with their number
    retryQ,     \* messages waiting in the retry queue
    dlq,        \* messages in the dead letter queue, by task
    msg,        \* the delivery a worker handles
    pc,         \* the worker's next call
    fresh,      \* the worker inserted the file_object row (createdNewObject)
    stored,     \* the bytes are in MinIO
    row,        \* the file_object row exists (ref_count 1)
    cached,     \* tasks whose file_object may still be in Redis
    files,      \* user_file rows that point at it
    mishaps     \* faults so far

queueVars == <<tasksQ, retryQ, dlq>>
workVars  == <<msg, pc, fresh>>
fileVars  == <<stored, row, cached, files>>
vars == <<status, api, queueVars, workVars, fileVars, mishaps>>

Statuses == {"none", "pending", "running", "retrying", "completed", "failed"}
Steps == {"idle", "read", "claim", "download", "object", "entry", "undo", "undo_row", "finish",
          "retry", "publish", "fail", "dlq", "ack"}

TypeOK ==
    /\ status \in [Tasks -> Statuses]
    /\ api \in [Tasks -> {"idle", "publish", "done"}]
    /\ tasksQ \in [Messages -> Nat]
    /\ retryQ \in [Messages -> Nat]
    /\ dlq \in [Tasks -> Nat]
    /\ msg \in [Workers -> Messages \cup {Null}]
    /\ pc \in [Workers -> Steps]
    /\ \A w \in Workers : pc[w] = "idle" <=> msg[w] = Null
    /\ fresh \in [Workers -> BOOLEAN]
    /\ stored \in [Tasks -> BOOLEAN]
    /\ row \in [Tasks -> BOOLEAN]
    /\ cached \subseteq Tasks
    /\ files \in [Tasks -> Nat]
    /\ mishaps \in Nat

Init ==
    /\ status = [t \in Tasks |-> "none"]
    /\ api = [t \in Tasks |-> "idle"]
    /\ tasksQ = [m \in Messages |-> 0]
    /\ retryQ = [m \in Messages |-> 0]
    /\ dlq = [t \in Tasks |-> 0]
    /\ msg = [w \in Workers |-> Null]
    /\ pc = [w \in Workers |-> "idle"]
    /\ fresh = [w \in Workers |-> FALSE]
    /\ stored = [t \in Tasks |-> FALSE]
    /\ row = [t \in Tasks |-> FALSE]
    /\ cached = {}
    /\ files = [t \in Tasks |-> 0]
    /\ mishaps = 0

-----------------------------------------------------------------------------
Task(w)    == msg[w][1]
Attempt(w) == msg[w][2]

At(w, step)   == pc[w] = step
Jump(w, step) == pc' = [pc EXCEPT ![w] = step]
Goto(w, step) == Jump(w, step) /\ UNCHANGED <<msg, fresh>>

Put(q, m)  == [q EXCEPT ![m] = @ + 1]
Take(q, m) == [q EXCEPT ![m] = @ - 1]

SetStatus(t, s) == status' = [status EXCEPT ![t] = s]

Mishap(kind) ==
    /\ kind \in Faults
    /\ mishaps < MaxMishaps
    /\ mishaps' = mishaps + 1

(* The goroutine is done with its delivery. *)
Release(w) ==
    /\ Jump(w, "idle")
    /\ msg' = [msg EXCEPT ![w] = Null]
    /\ UNCHANGED fresh

(* Nack with requeue, or the broker's own requeue when the channel is gone. *)
Requeue(w) ==
    /\ Release(w)
    /\ tasksQ' = Put(tasksQ, msg[w])
    /\ UNCHANGED <<retryQ, dlq>>

-----------------------------------------------------------------------------
(* CreateDownloadTask, served by the API. *)
CreateTask(t) ==
    /\ status[t] = "none"
    /\ SetStatus(t, "pending")
    /\ api' = [api EXCEPT ![t] = "publish"]
    /\ UNCHANGED <<queueVars, workVars, fileVars, mishaps>>

PublishTask(t) ==
    /\ api[t] = "publish"
    /\ tasksQ' = Put(tasksQ, <<t, 0>>)
    /\ api' = [api EXCEPT ![t] = "done"]
    /\ UNCHANGED <<status, retryQ, dlq, workVars, fileVars, mishaps>>

(* markDownloadTaskFailed, which ignores that its UPDATE fails. *)
PublishTaskFails(t) ==
    /\ api[t] = "publish"
    /\ Mishap("publish")
    /\ \/ SetStatus(t, "failed")
       \/ "db" \in Faults /\ UNCHANGED status
    /\ api' = [api EXCEPT ![t] = "done"]
    /\ UNCHANGED <<queueVars, workVars, fileVars>>

ApiDies(t) ==
    /\ api[t] = "publish"
    /\ Mishap("api")
    /\ api' = [api EXCEPT ![t] = "done"]
    /\ UNCHANGED <<status, queueVars, workVars, fileVars>>

-----------------------------------------------------------------------------
(* RabbitMQ. *)
Deliver(w) ==
    /\ At(w, "idle")
    /\ \E m \in Messages :
        /\ tasksQ[m] > 0
        /\ tasksQ' = Take(tasksQ, m)
        /\ msg' = [msg EXCEPT ![w] = m]
    /\ Jump(w, "read")
    /\ UNCHANGED <<status, api, retryQ, dlq, fresh, fileVars, mishaps>>

(* The delay is over: the retry queue dead-letters into the task queue. *)
RetryDue(m) ==
    /\ retryQ[m] > 0
    /\ retryQ' = Take(retryQ, m)
    /\ tasksQ' = Put(tasksQ, m)
    /\ UNCHANGED <<status, api, dlq, workVars, fileVars, mishaps>>

-----------------------------------------------------------------------------
(* ProcessDownloadTask. *)
ReadTask(w) ==
    /\ At(w, "read")
    /\ Goto(w, IF status[Task(w)] = "completed" THEN "ack" ELSE "claim")
    /\ UNCHANGED <<status, api, queueVars, fileVars, mishaps>>

(* mutant: the claim does not check the status *)
ClaimAny(w) ==
    /\ At(w, "claim")
    /\ SetStatus(Task(w), "running")
    /\ Goto(w, "download")
    /\ UNCHANGED <<api, queueVars, fileVars, mishaps>>

(* mutant: a failed task may be claimed again *)
ClaimFailed(w) ==
    /\ At(w, "claim")
    /\ status[Task(w)] \in {"pending", "retrying", "failed"}
    /\ SetStatus(Task(w), "running")
    /\ Goto(w, "download")
    /\ UNCHANGED <<api, queueVars, fileVars, mishaps>>

(* UPDATE ... SET status = 'running' WHERE status IN ('pending', 'retrying'). *)
Claim(w) ==
    /\ At(w, "claim")
    /\ status[Task(w)] \in {"pending", "retrying"}
    /\ SetStatus(Task(w), "running")
    /\ Goto(w, "download")
    /\ UNCHANGED <<api, queueVars, fileVars, mishaps>>

(* No row updated: the message is dropped as done. *)
ClaimLost(w) ==
    /\ At(w, "claim")
    /\ status[Task(w)] \notin {"pending", "retrying"}
    /\ Goto(w, "ack")
    /\ UNCHANGED <<status, api, queueVars, fileVars, mishaps>>

(* DownloadByHTTP puts the body under the task's own name. *)
Download(w) ==
    /\ At(w, "download")
    /\ stored' = [stored EXCEPT ![Task(w)] = TRUE]
    /\ Goto(w, "object")
    /\ UNCHANGED <<status, api, queueVars, row, cached, files, mishaps>>

(* shouldRetry: 408, 429, 5xx and transport errors are retried, other answers not. *)
DownloadFails(w) ==
    /\ At(w, "download")
    /\ "http" \in Faults
    /\ \/ Goto(w, "retry")
       \/ Goto(w, "fail")
    /\ UNCHANGED <<status, api, queueVars, fileVars, mishaps>>

(* The client's timeout is a DeadlineExceeded: Nack, the status stays. *)
DownloadTimesOut(w) ==
    /\ At(w, "download")
    /\ Mishap("timeout")
    /\ Requeue(w)
    /\ UNCHANGED <<status, api, fileVars>>

(* CreateFilesObject; its unique hash refuses a second row, the first is used. *)
CreateObject(w) ==
    /\ At(w, "object")
    /\ row' = [row EXCEPT ![Task(w)] = TRUE]
    /\ cached' = cached \cup {Task(w)}
    /\ fresh' = [fresh EXCEPT ![w] = ~ row[Task(w)]]
    /\ Jump(w, "entry")
    /\ UNCHANGED <<status, api, queueVars, msg, stored, files, mishaps>>

(* The insert and the lookup by hash fail: the bytes are removed. *)
CreateObjectFails(w) ==
    /\ At(w, "object")
    /\ Mishap("db")
    /\ stored' = [stored EXCEPT ![Task(w)] = FALSE]
    /\ Goto(w, "retry")
    /\ UNCHANGED <<status, api, queueVars, row, cached, files>>

(* The insert fails and the lookup finds in Redis a row that was rolled back. *)
CreateObjectFindsGhost(w) ==
    /\ At(w, "object")
    /\ Mishap("db")
    /\ Task(w) \in cached
    /\ fresh' = [fresh EXCEPT ![w] = FALSE]
    /\ Jump(w, "entry")
    /\ UNCHANGED <<status, api, queueVars, msg, fileVars>>

CreateUserFileEntry(w) ==
    /\ At(w, "entry")
    /\ row[Task(w)]
    /\ files' = [files EXCEPT ![Task(w)] = @ + 1]
    /\ Goto(w, "finish")
    /\ UNCHANGED <<status, api, queueVars, stored, row, cached, mishaps>>

(* The insert fails, or its foreign key: a new object is rolled back. *)
CreateUserFileEntryFails(w) ==
    /\ At(w, "entry")
    /\ \/ ~ row[Task(w)] /\ UNCHANGED mishaps
       \/ Mishap("db")
    /\ Goto(w, IF fresh[w] THEN "undo" ELSE "retry")
    /\ UNCHANGED <<status, api, queueVars, fileVars>>

(* cleanupObject, then DELETE of the row, refused while an entry points at  *)
(* it; the errors of both are ignored, the Redis copy of the row stays.     *)
RollbackObject(w) ==
    /\ At(w, "undo")
    /\ stored' = [stored EXCEPT ![Task(w)] = FALSE]
    /\ Goto(w, "undo_row")
    /\ UNCHANGED <<status, api, queueVars, row, cached, files, mishaps>>

RollbackRow(w) ==
    /\ At(w, "undo_row")
    /\ \/ /\ row' = IF files[Task(w)] = 0 THEN [row EXCEPT ![Task(w)] = FALSE] ELSE row
          /\ UNCHANGED mishaps
       \/ Mishap("db") /\ UNCHANGED row
    /\ Goto(w, "retry")
    /\ UNCHANGED <<status, api, queueVars, stored, cached, files>>

Complete(w) ==
    /\ At(w, "finish")
    /\ SetStatus(Task(w), "completed")
    /\ Goto(w, "ack")
    /\ UNCHANGED <<api, queueVars, fileVars, mishaps>>

(* FindUserNameById fails, before or after the fetch. *)
UserNotRead(w) ==
    /\ pc[w] \in {"download", "object"}
    /\ Mishap("db")
    /\ Goto(w, "retry")
    /\ UNCHANGED <<status, api, queueVars, fileVars>>

(* A statement about the task fails: an error like that of the fetch, even  *)
(* when another worker has the task or the file is listed already.          *)
StatusFails(w) ==
    /\ pc[w] \in {"read", "claim", "finish"}
    /\ Mishap("status")
    /\ Goto(w, "retry")
    /\ UNCHANGED <<status, api, queueVars, fileVars>>

-----------------------------------------------------------------------------
(* scheduleRetry and markFailed. *)
(* mutant: the message is acknowledged before the retry is published *)
RetryUnpublished(w) ==
    /\ At(w, "retry")
    /\ Attempt(w) < MaxRetry
    /\ SetStatus(Task(w), "retrying")
    /\ Goto(w, "ack")
    /\ UNCHANGED <<api, queueVars, fileVars, mishaps>>

ScheduleRetry(w) ==
    /\ At(w, "retry")
    /\ Attempt(w) < MaxRetry
    /\ SetStatus(Task(w), "retrying")
    /\ Goto(w, "publish")
    /\ UNCHANGED <<api, queueVars, fileVars, mishaps>>

RetriesExhausted(w) ==
    /\ At(w, "retry")
    /\ Attempt(w) >= MaxRetry
    /\ Goto(w, "fail")
    /\ UNCHANGED <<status, api, queueVars, fileVars, mishaps>>

(* mutant: the attempt is not carried on *)
PublishSameAttempt(w) ==
    /\ At(w, "publish")
    /\ retryQ' = Put(retryQ, msg[w])
    /\ Goto(w, "ack")
    /\ UNCHANGED <<status, api, tasksQ, dlq, fileVars, mishaps>>

(* mutant: the retry is published to the task queue as well *)
PublishTwice(w) ==
    /\ At(w, "publish")
    /\ retryQ' = Put(retryQ, <<Task(w), Attempt(w) + 1>>)
    /\ tasksQ' = Put(tasksQ, <<Task(w), Attempt(w) + 1>>)
    /\ Goto(w, "ack")
    /\ UNCHANGED <<status, api, dlq, fileVars, mishaps>>

PublishRetry(w) ==
    /\ At(w, "publish")
    /\ retryQ' = Put(retryQ, <<Task(w), Attempt(w) + 1>>)
    /\ Goto(w, "ack")
    /\ UNCHANGED <<status, api, tasksQ, dlq, fileVars, mishaps>>

MarkFailed(w) ==
    /\ At(w, "fail")
    /\ SetStatus(Task(w), "failed")
    /\ Goto(w, "dlq")
    /\ UNCHANGED <<api, queueVars, fileVars, mishaps>>

(* A failed publish to the dead letter queue is only logged. *)
PublishDLQ(w) ==
    /\ At(w, "dlq")
    /\ \/ dlq' = [dlq EXCEPT ![Task(w)] = @ + 1] /\ UNCHANGED mishaps
       \/ Mishap("publish") /\ UNCHANGED dlq
    /\ Goto(w, "ack")
    /\ UNCHANGED <<status, api, tasksQ, retryQ, fileVars>>

(* The status update or the retry's publish fails: Nack with requeue. *)
ScheduleFails(w) ==
    /\ \/ At(w, "retry") /\ Attempt(w) < MaxRetry /\ Mishap("db")
       \/ At(w, "fail") /\ Mishap("db")
       \/ At(w, "publish") /\ Mishap("publish")
    /\ Requeue(w)
    /\ UNCHANGED <<status, api, fileVars>>

(* mutant: Ack by the broker's count only, the slot keeps its delivery *)
AckKeeps(w) ==
    /\ At(w, "ack")
    /\ Jump(w, "idle")
    /\ UNCHANGED <<msg, fresh, status, api, queueVars, fileVars, mishaps>>

Ack(w) ==
    /\ At(w, "ack")
    /\ Release(w)
    /\ UNCHANGED <<status, api, queueVars, fileVars, mishaps>>

(* The process ends: waiting goroutines Nack, the broker requeues the rest. *)
Stop(w) ==
    /\ ~ At(w, "idle")
    /\ Mishap("stop")
    /\ Requeue(w)
    /\ UNCHANGED <<status, api, fileVars>>

-----------------------------------------------------------------------------
Handle(w) ==
    \/ ReadTask(w) \/ Claim(w) \/ ClaimLost(w) \/ Download(w) \/ DownloadFails(w)
    \/ CreateObject(w) \/ CreateUserFileEntry(w) \/ RollbackObject(w) \/ RollbackRow(w)
    \/ Complete(w)
    \/ ScheduleRetry(w) \/ RetriesExhausted(w) \/ PublishRetry(w) \/ MarkFailed(w)
    \/ PublishDLQ(w) \/ Ack(w) \/ CreateUserFileEntryFails(w)

Fault(w) == DownloadTimesOut(w) \/ CreateObjectFails(w) \/ CreateObjectFindsGhost(w)
            \/ UserNotRead(w) \/ StatusFails(w) \/ ScheduleFails(w) \/ Stop(w)

Create(t) == CreateTask(t) \/ PublishTask(t) \/ PublishTaskFails(t) \/ ApiDies(t)

Next ==
    \/ \E t \in Tasks : Create(t)
    \/ \E w \in Workers : Deliver(w) \/ Handle(w) \/ Fault(w)
    \/ \E m \in Messages : RetryDue(m)

(* The API finishes its calls, workers are resident and go on with what they *)
(* hold, the broker delivers and expires what is queued.                     *)
Fairness ==
    /\ \A t \in Tasks : WF_vars(PublishTask(t))
    /\ \A w \in Workers : WF_vars(Handle(w)) /\ WF_vars(Deliver(w))
    /\ \A m \in Messages : WF_vars(RetryDue(m))

Spec == Init /\ [][Next]_vars
FairSpec == Spec /\ Fairness

-----------------------------------------------------------------------------
(* Properties. *)

Fetching == {"download", "object", "entry", "undo", "undo_row"}
Decided  == {"completed", "failed"}

(* Two deliveries of one task, redelivered or retried, are never worked on   *)
(* together: the conditional UPDATE of ProcessDownloadTask lets one fetch.   *)
OneRunner ==
    \A v, w \in Workers :
        pc[v] \in Fetching /\ pc[w] \in Fetching /\ Task(v) = Task(w) => v = w

(* A task lists at most one file, whose row and bytes are there; it is       *)
(* completed only with its file and failed only without it.                  *)
FileOnce ==
    \A t \in Tasks :
        /\ files[t] <= 1
        /\ files[t] = 1 => row[t] /\ stored[t]
        /\ status[t] = "completed" => files[t] = 1
        /\ status[t] = "failed" => files[t] = 0

(* A message of the task that somebody still acts on. *)
Queued(t)  == \E a \in 0 .. MaxRetry : tasksQ[<<t, a>>] > 0 \/ retryQ[<<t, a>>] > 0
Carried(t) == \E w \in Workers : pc[w] \notin {"idle", "ack", "dlq"} /\ Task(w) = t

(* A task that says it will be retried has a message that will retry it:     *)
(* scheduleRetry publishes after its UPDATE, and a worker that dies or fails *)
(* in between gives its own message back.                                    *)
RetryNotLost ==
    \A t \in Tasks : status[t] = "retrying" => Queued(t) \/ Carried(t)

(* As long as publishes alone fail there is exactly one message, publisher or *)
(* worker that acts on an undecided task, and none on a decided one.         *)
Acting(t) ==
    {<<"task", m>> : m \in {m \in Messages : m[1] = t /\ tasksQ[m] > 0}}
      \cup {<<"retry", m>> : m \in {m \in Messages : m[1] = t /\ retryQ[m] > 0}}
      \cup {<<"work", w>> : w \in {w \in Workers : pc[w] \notin {"idle", "ack", "dlq"} /\ Task(w) = t}}
      \cup {<<"api", u>> : u \in {u \in {t} : api[u] = "publish"}}

OneActor ==
    \A t \in Tasks : Cardinality(Acting(t))
        = IF status[t] \in {"pending", "running", "retrying"} THEN 1 ELSE 0

(* Every task the API accepted is decided in the end: a failed fetch is      *)
(* retried until it succeeds or DOWNLOAD_RETRY_MAX is reached.               *)
EventuallyDecided == \A t \in Tasks : status[t] = "pending" ~> status[t] \in Decided

(* Queues, workers, redeliveries and rollbacks are hidden: only the status   *)
(* and the file are seen, and they move as TaskLifecycle says.               *)
L == INSTANCE TaskLifecycle WITH state <- status, saved <- files

FollowsLifecycle == L!Spec

=============================================================================

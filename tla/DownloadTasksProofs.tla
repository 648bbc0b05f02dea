------------------------- MODULE DownloadTasksProofs -------------------------
(* Theorems about DownloadTasks, for every number of tasks, workers and      *)
(* attempts; those that need StatusHolds for every fault but a failing       *)
(* statement about the status.                                               *)
EXTENDS DownloadTasks, FiniteSetTheorems, TLAPS

(* Such a failure leads to a retry of a task that another worker has, or     *)
(* that is completed, whose file is then listed once more.                   *)
StatusHolds == "status" \notin Faults

(* From the claim to the statement that gives the status up. *)
Working == {"download", "object", "entry", "undo", "undo_row", "finish", "retry", "fail"}

Alone(w) == \A v \in Workers : pc[v] \in Working /\ Task(v) = Task(w) => v = w

(* The status "running" is a lock: whoever works on the task holds it alone. *)
Owned == \A w \in Workers : pc[w] \in Working => status[Task(w)] = "running" /\ Alone(w)

(* What the worker has made of the file so far. *)
Progress ==
    \A w \in Workers :
        /\ pc[w] \in Working => files[Task(w)] = IF pc[w] = "finish" THEN 1 ELSE 0
        /\ pc[w] \in {"object", "entry"} => stored[Task(w)]

Settled ==
    \A t \in Tasks :
        /\ files[t] \in {0, 1}
        /\ files[t] = 1 => row[t] /\ stored[t]
        /\ status[t] = "completed" => files[t] = 1
        /\ status[t] \notin {"running", "completed"} => files[t] = 0

(* Nobody knows of a task before its first message is published. *)
Unsent ==
    \A t \in Tasks :
        /\ status[t] = "none" => api[t] = "idle"
        /\ api[t] = "idle" => status[t] = "none"
        /\ api[t] = "publish" => status[t] = "pending"
        /\ api[t] # "done" =>
            /\ \A a \in 0 .. MaxRetry : tasksQ[<<t, a>>] = 0 /\ retryQ[<<t, a>>] = 0
            /\ \A w \in Workers : pc[w] # "idle" => Task(w) # t

(* A retry is published only when an attempt is left. *)
AttemptLeft == \A w \in Workers : pc[w] = "publish" => Attempt(w) < MaxRetry

IInv == TypeOK /\ AttemptLeft /\ Owned /\ Progress /\ Settled /\ Unsent

-----------------------------------------------------------------------------
(* A delivery names a task and an attempt. *)
LEMMA BusyTask ==
    ASSUME TypeOK, NEW w \in Workers, pc[w] # "idle"
    PROVE  /\ msg[w] \in Messages /\ msg[w] = <<Task(w), Attempt(w)>>
           /\ Task(w) \in Tasks /\ Attempt(w) \in 0 .. MaxRetry
  BY DEF TypeOK, Messages, Task, Attempt

(* Every step keeps the types. *)
LEMMA TypeStep ==
    ASSUME TypeOK, AttemptLeft, [Next]_vars
    PROVE  TypeOK' /\ AttemptLeft'
<1> USE TaskAssumption DEF queueVars, workVars, fileVars, At, Goto, Jump, SetStatus, Mishap,
        Release, Requeue, Put, Take, Statuses, Steps, AttemptLeft, Attempt
<1>1. ASSUME NEW t \in Tasks, Create(t) PROVE TypeOK' /\ AttemptLeft'
  <2>1. <<t, 0>> \in Messages
    BY DEF Messages
  <2>3. CASE CreateTask(t)
    BY <2>1, <2>3 DEF CreateTask, TypeOK
  <2>4. CASE PublishTask(t)
    BY <2>1, <2>4 DEF PublishTask, TypeOK
  <2>5. CASE PublishTaskFails(t)
    BY <2>1, <2>5 DEF PublishTaskFails, TypeOK
  <2>6. CASE ApiDies(t)
    BY <2>1, <2>6 DEF ApiDies, TypeOK
  <2> QED BY <1>1, <2>3, <2>4, <2>5, <2>6 DEF Create
<1>2. ASSUME NEW m \in Messages, RetryDue(m) PROVE TypeOK' /\ AttemptLeft'
  BY <1>2 DEF RetryDue, TypeOK
<1>3. ASSUME NEW w \in Workers, Deliver(w) PROVE TypeOK' /\ AttemptLeft'
  BY <1>3 DEF Deliver, TypeOK, Messages
<1>4. ASSUME NEW w \in Workers, Handle(w) PROVE TypeOK' /\ AttemptLeft'
  <2>1. pc[w] # "idle"
    BY <1>4 DEF Handle, ReadTask, Claim, ClaimLost, Download, DownloadFails, CreateObject, CreateUserFileEntry, CreateUserFileEntryFails, RollbackObject, RollbackRow, Complete, ScheduleRetry, RetriesExhausted, PublishRetry, MarkFailed, PublishDLQ, Ack
  <2>2. msg[w] \in Messages /\ Task(w) \in Tasks /\ Attempt(w) \in 0 .. MaxRetry
    BY <2>1, BusyTask
  <2>3. CASE ReadTask(w)
    BY <2>2, <2>3 DEF ReadTask, TypeOK
  <2>4. CASE Claim(w)
    BY <2>2, <2>4 DEF Claim, TypeOK
  <2>5. CASE ClaimLost(w)
    BY <2>2, <2>5 DEF ClaimLost, TypeOK
  <2>6. CASE Download(w)
    BY <2>2, <2>6 DEF Download, TypeOK
  <2>7. CASE DownloadFails(w)
    BY <2>2, <2>7 DEF DownloadFails, TypeOK
  <2>8. CASE CreateObject(w)
    BY <2>2, <2>8 DEF CreateObject, TypeOK
  <2>9. CASE CreateUserFileEntry(w)
    BY <2>2, <2>9 DEF CreateUserFileEntry, TypeOK
  <2>10. CASE CreateUserFileEntryFails(w)
    BY <2>2, <2>10 DEF CreateUserFileEntryFails, TypeOK
  <2>11. CASE RollbackObject(w)
    BY <2>2, <2>11 DEF RollbackObject, TypeOK
  <2>12. CASE RollbackRow(w)
    <3>1. row' \in [Tasks -> BOOLEAN]
      BY <2>2, <2>12 DEF RollbackRow, TypeOK
    <3>2. mishaps' \in Nat
      BY <2>12 DEF RollbackRow, TypeOK
    <3>3. pc' = [pc EXCEPT ![w] = "retry"] /\ UNCHANGED <<msg, fresh, status, api, queueVars, stored, cached, files>>
      BY <2>12 DEF RollbackRow, Goto
    <3> QED BY <2>1, <3>1, <3>2, <3>3 DEF TypeOK
  <2>13. CASE Complete(w)
    BY <2>2, <2>13 DEF Complete, TypeOK
  <2>14. CASE ScheduleRetry(w)
    BY <2>2, <2>14 DEF ScheduleRetry, TypeOK
  <2>15. CASE RetriesExhausted(w)
    BY <2>2, <2>15 DEF RetriesExhausted, TypeOK
  <2>16. CASE PublishRetry(w)
    <3>1. <<Task(w), Attempt(w) + 1>> \in Messages
      BY <2>2, <2>16 DEF PublishRetry, Messages
    <3> QED BY <2>2, <2>16, <3>1 DEF PublishRetry, TypeOK
  <2>17. CASE MarkFailed(w)
    BY <2>2, <2>17 DEF MarkFailed, TypeOK
  <2>18. CASE PublishDLQ(w)
    BY <2>2, <2>18 DEF PublishDLQ, TypeOK
  <2>19. CASE Ack(w)
    BY <2>2, <2>19 DEF Ack, TypeOK
  <2> QED BY <1>4, <2>3, <2>4, <2>5, <2>6, <2>7, <2>8, <2>9, <2>10, <2>11, <2>12, <2>13, <2>14, <2>15, <2>16, <2>17, <2>18, <2>19 DEF Handle
<1>5. ASSUME NEW w \in Workers, Fault(w) PROVE TypeOK' /\ AttemptLeft'
  <2>1. pc[w] # "idle"
    BY <1>5 DEF Fault, DownloadTimesOut, CreateObjectFails, CreateObjectFindsGhost, UserNotRead,
       StatusFails, ScheduleFails, Stop
  <2>2. msg[w] \in Messages /\ Task(w) \in Tasks
    BY <2>1, BusyTask
  <2>3. CASE DownloadTimesOut(w)
    BY <2>2, <2>3 DEF DownloadTimesOut, TypeOK
  <2>4. CASE CreateObjectFails(w)
    BY <2>2, <2>4 DEF CreateObjectFails, TypeOK
  <2>5. CASE CreateObjectFindsGhost(w)
    BY <2>2, <2>5 DEF CreateObjectFindsGhost, TypeOK
  <2>6. CASE UserNotRead(w) \/ StatusFails(w)
    BY <2>2, <2>6 DEF UserNotRead, StatusFails, TypeOK
  <2>7. CASE ScheduleFails(w)
    BY <2>2, <2>7 DEF ScheduleFails, TypeOK
  <2>8. CASE Stop(w)
    BY <2>2, <2>8 DEF Stop, TypeOK
  <2> QED BY <1>5, <2>3, <2>4, <2>5, <2>6, <2>7, <2>8 DEF Fault
<1>6. CASE UNCHANGED vars
  BY <1>6 DEF vars, TypeOK
<1> QED
  BY <1>1, <1>2, <1>3, <1>4, <1>5, <1>6 DEF Next

(* A message carries an attempt within DOWNLOAD_RETRY_MAX, a worker without  *)
(* a delivery is idle, and nothing else is ever in the columns and queues.   *)
THEOREM TypeCorrect == Spec => []TypeOK
<1>1. Init => TypeOK /\ AttemptLeft
  BY TaskAssumption DEF Init, TypeOK, AttemptLeft, Statuses, Steps, Messages
<1>2. TypeOK /\ AttemptLeft /\ [Next]_vars => (TypeOK /\ AttemptLeft)'
  BY TypeStep
<1> QED
  BY <1>1, <1>2, PTL DEF Spec

-----------------------------------------------------------------------------
(* The status is a lock and a journal. *)

(* Every request but that of worker w stands still. *)
OthersKeep(w) == \A v \in Workers \ {w} : pc'[v] = pc[v] /\ msg'[v] = msg[v]

(* A worker's step is its own. *)
LEMMA StepIsLocal ==
    ASSUME TypeOK, NEW w \in Workers, Deliver(w) \/ Handle(w) \/ Fault(w)
    PROVE  OthersKeep(w)
  BY DEF TypeOK, OthersKeep, Jump, Goto, Release, Requeue, Deliver, Handle, ReadTask, Claim,
     ClaimLost, Download, DownloadFails, CreateObject, CreateUserFileEntry,
     CreateUserFileEntryFails, RollbackObject, RollbackRow, Complete, ScheduleRetry,
     RetriesExhausted, PublishRetry, MarkFailed, PublishDLQ, Ack, Fault, DownloadTimesOut,
     CreateObjectFails, CreateObjectFindsGhost, UserNotRead, StatusFails, ScheduleFails,
     Stop, workVars

(* A worker that holds the task and goes on with it, and is not about to     *)
(* list the file.                                                            *)
LEMMA WorkGoesOn ==
    ASSUME IInv, TypeOK', NEW w \in Workers, OthersKeep(w),
           pc[w] \in Working \ {"finish"}, pc'[w] \in Working \ {"finish"},
           pc'[w] \in {"object", "entry"} => stored'[Task(w)],
           \A t \in Tasks \ {Task(w)} : stored'[t] = stored[t] /\ row'[t] = row[t],
           UNCHANGED <<status, api, queueVars, msg, files>>
    PROVE  (Owned /\ Progress /\ Settled /\ Unsent)'
<1> USE DEF IInv, Working
<1>1. Task(w) \in Tasks /\ files[Task(w)] = 0
  BY BusyTask DEF Progress
<1>2. Owned'
  BY DEF Owned, Alone, Task, OthersKeep
<1>3. Progress'
  <2>1. ASSUME NEW v \in Workers, v # w, pc[v] \in {"object", "entry"} PROVE Task(v) \in Tasks /\ Task(v) # Task(w)
    BY <2>1, BusyTask DEF Owned, Alone
  <2> QED
    BY <1>1, <2>1 DEF Progress, OthersKeep, Task
<1>4. Settled'
  BY <1>1 DEF Settled
<1>5. Unsent'
  BY DEF Unsent, OthersKeep, Task, queueVars
<1> QED
  BY <1>2, <1>3, <1>4, <1>5

(* A worker that drops the task, with or without a verdict. *)
LEMMA WorkStops ==
    ASSUME IInv, TypeOK', NEW w \in Workers, OthersKeep(w),
           pc[w] # "idle", pc'[w] \notin Working, pc'[w] = "idle" \/ msg'[w] = msg[w],
           UNCHANGED <<api, stored, row, files>>,
           \/ UNCHANGED status
           \/ /\ pc[w] \in Working
              /\ \E verdict \in {"retrying", "completed", "failed"} :
                    /\ SetStatus(Task(w), verdict)
                    /\ verdict = "completed" <=> pc[w] = "finish",
           \A t \in Tasks \ {Task(w)} : \A a \in 0 .. MaxRetry :
               tasksQ'[<<t, a>>] = tasksQ[<<t, a>>] /\ retryQ'[<<t, a>>] = retryQ[<<t, a>>]
    PROVE  (Owned /\ Progress /\ Settled /\ Unsent)'
<1> USE DEF IInv
<1>1. Task(w) \in Tasks /\ api[Task(w)] = "done" /\ status[Task(w)] # "none"
  BY BusyTask DEF Unsent, TypeOK
<1>2. \A t \in Tasks \ {Task(w)} : status'[t] = status[t]
  BY DEF SetStatus, TypeOK
<1>3. ASSUME NEW v \in Workers, v # w
      PROVE  /\ pc'[v] = pc[v] /\ Task(v)' = Task(v)
             /\ pc[v] # "idle" => Task(v) \in Tasks
             /\ pc[v] \in Working => Task(v) \in Tasks /\ status'[Task(v)] = status[Task(v)]
  <2>1. pc[v] \in Working => Task(v) \in Tasks
    BY BusyTask DEF Working
  <2>2. pc[v] \in Working /\ pc[w] \in Working => Task(v) # Task(w)
    BY <1>3 DEF Owned, Alone
  <2> QED
    BY <1>2, <1>3, <2>1, <2>2, BusyTask DEF OthersKeep, Task
<1>4. Owned'
  BY <1>3 DEF Owned, Alone
<1>5. Progress'
  <2>1. pc'[w] \notin {"object", "entry"}
    BY DEF Working
  <2> QED
    BY <1>3, <2>1 DEF Progress
<1>6. Settled'
  <2>1. CASE UNCHANGED status
    BY <2>1 DEF Settled
  <2>2. CASE pc[w] \in Working /\ ~ UNCHANGED status
    <3>1. PICK verdict \in {"retrying", "completed", "failed"} :
            SetStatus(Task(w), verdict) /\ (verdict = "completed" <=> pc[w] = "finish")
      BY <2>2
    <3>2. status'[Task(w)] = verdict /\ files[Task(w)] = IF pc[w] = "finish" THEN 1 ELSE 0
      BY <1>1, <2>2, <3>1 DEF SetStatus, TypeOK, Progress
    <3> QED
      BY <1>1, <1>2, <3>1, <3>2 DEF Settled
  <2> QED BY <2>1, <2>2
<1>7. Unsent'
  <2>1. status'[Task(w)] # "none"
    BY <1>1 DEF SetStatus, TypeOK
  <2> QED
    BY <1>1, <1>2, <1>3, <2>1 DEF Unsent, Task
<1> QED
  BY <1>4, <1>5, <1>6, <1>7

(* The claim makes the worker the owner: nobody works on a task whose status *)
(* is pending or retrying.                                                   *)
LEMMA ClaimStep ==
    ASSUME IInv, TypeOK', NEW w \in Workers, OthersKeep(w), Claim(w)
    PROVE  (Owned /\ Progress /\ Settled /\ Unsent)'
<1> USE DEF IInv
<1>1. /\ Task(w) \in Tasks /\ pc[w] = "claim" /\ status[Task(w)] \in {"pending", "retrying"}
      /\ pc'[w] = "download" /\ status'[Task(w)] = "running"
      /\ \A t \in Tasks \ {Task(w)} : status'[t] = status[t]
      /\ UNCHANGED <<msg, api, queueVars, fileVars>>
  BY BusyTask DEF Claim, At, Goto, Jump, SetStatus, TypeOK
<1>2. ASSUME NEW v \in Workers, v # w, pc[v] \in Working
      PROVE  Task(v) \in Tasks /\ Task(v) # Task(w)
  BY <1>1, <1>2, BusyTask DEF Owned, Working
<1>3. Owned'
  BY <1>1, <1>2 DEF Owned, Alone, Task, OthersKeep
<1>4. files[Task(w)] = 0
  BY <1>1 DEF Settled
<1>5. Progress'
  BY <1>1, <1>2, <1>4 DEF Progress, Task, OthersKeep, fileVars
<1>6. Settled'
  BY <1>1, <1>4 DEF Settled, fileVars
<1>7. Unsent'
  BY <1>1 DEF Unsent, Task, OthersKeep, queueVars, fileVars
<1> QED
  BY <1>3, <1>5, <1>6, <1>7

(* The owner lists the file, once. *)
LEMMA ListStep ==
    ASSUME IInv, TypeOK', NEW w \in Workers, OthersKeep(w), CreateUserFileEntry(w)
    PROVE  (Owned /\ Progress /\ Settled /\ Unsent)'
<1> USE DEF IInv
<1>1. /\ Task(w) \in Tasks /\ pc[w] = "entry" /\ pc'[w] = "finish"
      /\ row[Task(w)] /\ stored[Task(w)] /\ files[Task(w)] = 0 /\ files'[Task(w)] = 1
      /\ \A t \in Tasks \ {Task(w)} : files'[t] = files[t]
      /\ status[Task(w)] = "running"
      /\ UNCHANGED <<status, msg, api, queueVars, stored, row>>
  BY BusyTask DEF CreateUserFileEntry, At, Goto, Jump, TypeOK, Progress, Owned, Working
<1>2. ASSUME NEW v \in Workers, v # w, pc[v] \in Working
      PROVE  Task(v) \in Tasks /\ Task(v) # Task(w)
  BY <1>1, <1>2, BusyTask DEF Owned, Alone, Working
<1>3. Owned'
  BY <1>1, <1>2 DEF Owned, Alone, Task, OthersKeep, Working
<1>5. Progress'
  BY <1>1, <1>2 DEF Progress, Task, OthersKeep
<1>6. Settled'
  BY <1>1 DEF Settled
<1>7. Unsent'
  BY <1>1 DEF Unsent, Task, OthersKeep, queueVars
<1> QED
  BY <1>3, <1>5, <1>6, <1>7

(* The API's part: it creates the task, publishes its message or gives up. *)
LEMMA CreateStep ==
    ASSUME IInv, TypeOK', NEW t \in Tasks, Create(t)
    PROVE  (Owned /\ Progress /\ Settled /\ Unsent)'
<1> USE DEF IInv
<1>1. UNCHANGED <<msg, pc, stored, row, files, retryQ>>
  BY DEF Create, CreateTask, PublishTask, PublishTaskFails, ApiDies, queueVars, workVars, fileVars
<1>2. /\ api[t] # "done" /\ status[t] \in {"none", "pending"}
      /\ \A w \in Workers : pc[w] # "idle" => Task(w) # t
  BY DEF Create, CreateTask, PublishTask, PublishTaskFails, ApiDies, Unsent
<1>3. /\ status'[t] \in {"pending", "failed"}
      /\ \A u \in Tasks \ {t} : status'[u] = status[u] /\ api'[u] = api[u]
  BY DEF Create, CreateTask, PublishTask, PublishTaskFails, ApiDies, SetStatus, Unsent, TypeOK
<1>4. files[t] = 0
  BY <1>2 DEF Settled
<1>5. Owned' /\ Progress'
  <2>1. ASSUME NEW w \in Workers, pc[w] # "idle" PROVE status'[Task(w)] = status[Task(w)]
    BY <1>2, <1>3, <2>1, BusyTask
  <2> QED BY <1>1, <2>1 DEF Owned, Progress, Alone, Task, Working
<1>6. Settled'
  BY <1>1, <1>3, <1>4 DEF Settled
<1>7. Unsent'
  <2>1. CASE CreateTask(t)
    <3>1. api'[t] = "publish" /\ status'[t] = "pending" /\ UNCHANGED <<tasksQ, retryQ>>
      BY <2>1 DEF CreateTask, SetStatus, TypeOK, queueVars
    <3> QED BY <1>1, <1>2, <1>3, <3>1 DEF Unsent, Task
  <2>2. CASE PublishTask(t)
    <3>1. /\ api'[t] = "done"
          /\ \A u \in Tasks \ {t} : \A a \in 0 .. MaxRetry : tasksQ'[<<u, a>>] = tasksQ[<<u, a>>]
      BY <2>2 DEF PublishTask, Put, TypeOK, Messages
    <3> QED BY <1>1, <1>2, <1>3, <3>1 DEF Unsent, Task
  <2>3. CASE PublishTaskFails(t) \/ ApiDies(t)
    <3>1. api'[t] = "done" /\ UNCHANGED <<tasksQ, retryQ>>
      BY <2>3 DEF PublishTaskFails, ApiDies, TypeOK, queueVars
    <3> QED BY <1>1, <1>2, <1>3, <3>1 DEF Unsent, Task
  <2> QED BY <2>1, <2>2, <2>3 DEF Create
<1> QED BY <1>5, <1>6, <1>7

(* The broker's part: a message moves from the retry queue to the task queue. *)
LEMMA DueStep ==
    ASSUME IInv, TypeOK', NEW m \in Messages, RetryDue(m)
    PROVE  (Owned /\ Progress /\ Settled /\ Unsent)'
<1> USE DEF IInv
<1>1. UNCHANGED <<status, api, msg, pc, stored, row, files>>
  BY DEF RetryDue, workVars, fileVars
<1>2. Owned' /\ Progress' /\ Settled'
  BY <1>1 DEF Owned, Progress, Settled, Alone, Task
<1>3. \A t \in Tasks : api[t] # "done" => \A a \in 0 .. MaxRetry : <<t, a>> # m
  BY DEF RetryDue, Unsent
<1>4. \A n \in Messages \ {m} : tasksQ'[n] = tasksQ[n] /\ retryQ'[n] = retryQ[n]
  BY DEF RetryDue, Put, Take, TypeOK
<1>5. Unsent'
  BY <1>1, <1>3, <1>4 DEF Unsent, Task, Messages
<1> QED BY <1>2, <1>5

(* A worker takes a message: its task is one the API is done with. *)
LEMMA DeliverStep ==
    ASSUME IInv, TypeOK', NEW w \in Workers, OthersKeep(w), Deliver(w)
    PROVE  (Owned /\ Progress /\ Settled /\ Unsent)'
<1> USE DEF IInv
<1>1. PICK m \in Messages :
        /\ tasksQ[m] > 0 /\ tasksQ' = Take(tasksQ, m) /\ msg' = [msg EXCEPT ![w] = m]
  BY DEF Deliver
<1>2. /\ pc'[w] = "read" /\ msg'[w] = m /\ UNCHANGED <<status, api, retryQ, fileVars>>
  BY <1>1 DEF Deliver, Jump, TypeOK
<1>3. m[1] \in Tasks /\ m[2] \in 0 .. MaxRetry /\ m = <<m[1], m[2]>>
  BY DEF Messages
<1>4. api[m[1]] = "done"
  BY <1>1, <1>3 DEF Unsent
<1>5. Owned' /\ Progress' /\ Settled'
  BY <1>2 DEF Owned, Progress, Settled, Alone, Task, OthersKeep, Working, fileVars
<1>6. \A n \in Messages \ {m} : tasksQ'[n] = tasksQ[n]
  BY <1>1 DEF Take, TypeOK
<1>7. Unsent'
  <2>1. ASSUME NEW t \in Tasks, api[t] # "done"
        PROVE  /\ \A a \in 0 .. MaxRetry : tasksQ'[<<t, a>>] = 0
               /\ \A v \in Workers : pc'[v] # "idle" => Task(v)' # t
    <3>1. \A a \in 0 .. MaxRetry : <<t, a>> \in Messages \ {m}
      BY <1>3, <1>4, <2>1 DEF Messages
    <3> QED BY <1>2, <1>4, <1>6, <2>1, <3>1 DEF Unsent, Task, OthersKeep
  <2> QED BY <1>2, <2>1 DEF Unsent
<1> QED
  BY <1>5, <1>7

(* Every other step of a worker keeps its task or drops it. *)
LEMMA HandleStep ==
    ASSUME IInv, TypeOK', StatusHolds, NEW w \in Workers, OthersKeep(w), Handle(w) \/ Fault(w)
    PROVE  (Owned /\ Progress /\ Settled /\ Unsent)'
<1> USE DEF IInv
<1>1. CASE Claim(w)
  BY <1>1, ClaimStep
<1>2. CASE CreateUserFileEntry(w)
  BY <1>2, ListStep
<1>3. CASE Download(w) \/ DownloadFails(w) \/ CreateObject(w) \/ CreateUserFileEntryFails(w)
           \/ RollbackObject(w) \/ RollbackRow(w) \/ RetriesExhausted(w)
           \/ CreateObjectFails(w) \/ CreateObjectFindsGhost(w) \/ UserNotRead(w)
  <2>1. /\ pc[w] \in Working \ {"finish"} /\ pc'[w] \in Working \ {"finish"}
        /\ UNCHANGED <<status, api, queueVars, msg, files>>
    BY <1>3 DEF Download, DownloadFails, CreateObject, CreateUserFileEntryFails, RollbackObject,
       RollbackRow, RetriesExhausted, CreateObjectFails, CreateObjectFindsGhost, UserNotRead,
       At, Goto, Jump, TypeOK, Working, fileVars
  <2>2. Task(w) \in Tasks
    BY <2>1, BusyTask DEF Working
  <2>3. pc'[w] \in {"object", "entry"} => stored'[Task(w)]
    BY <1>3, <2>2 DEF Download, DownloadFails, CreateObject, CreateUserFileEntryFails, RollbackObject,
       RollbackRow, RetriesExhausted, CreateObjectFails, CreateObjectFindsGhost, UserNotRead,
       At, Goto, Jump, TypeOK, Progress, fileVars
  <2>4. \A t \in Tasks \ {Task(w)} : stored'[t] = stored[t] /\ row'[t] = row[t]
    BY <1>3, <2>2 DEF Download, DownloadFails, CreateObject, CreateUserFileEntryFails, RollbackObject,
       RollbackRow, RetriesExhausted, CreateObjectFails, CreateObjectFindsGhost, UserNotRead,
       TypeOK, fileVars
  <2> QED
    BY <2>1, <2>3, <2>4, WorkGoesOn
<1>4. CASE ReadTask(w) \/ ClaimLost(w) \/ Ack(w) \/ PublishDLQ(w)
  <2>1. /\ pc[w] # "idle" /\ pc'[w] \notin Working /\ (pc'[w] = "idle" \/ msg'[w] = msg[w])
        /\ UNCHANGED <<status, api, stored, row, files, tasksQ, retryQ>>
    BY <1>4 DEF ReadTask, ClaimLost, Ack, PublishDLQ, At, Goto, Jump, Release, TypeOK, Working,
       fileVars, queueVars
  <2> QED
    BY <2>1, WorkStops
<1>5. CASE PublishRetry(w)
  <2>1. /\ pc[w] # "idle" /\ pc'[w] \notin Working /\ msg'[w] = msg[w]
        /\ UNCHANGED <<status, api, stored, row, files, tasksQ>>
    BY <1>5 DEF PublishRetry, At, Goto, Jump, TypeOK, Working, fileVars
  <2>2. \A t \in Tasks \ {Task(w)} : \A a \in 0 .. MaxRetry : retryQ'[<<t, a>>] = retryQ[<<t, a>>]
    BY <1>5 DEF PublishRetry, Put, TypeOK, Messages
  <2> QED
    BY <2>1, <2>2, WorkStops
<1>6. CASE Complete(w) \/ ScheduleRetry(w) \/ MarkFailed(w)
  <2>1. /\ pc[w] \in Working /\ pc[w] # "idle" /\ pc'[w] \notin Working /\ msg'[w] = msg[w]
        /\ UNCHANGED <<api, stored, row, files, tasksQ, retryQ>>
    BY <1>6 DEF Complete, ScheduleRetry, MarkFailed, At, Goto, Jump, TypeOK, Working, fileVars, queueVars
  <2>2. \E verdict \in {"retrying", "completed", "failed"} :
          SetStatus(Task(w), verdict) /\ (verdict = "completed" <=> pc[w] = "finish")
    BY <1>6 DEF Complete, ScheduleRetry, MarkFailed, At
  <2> QED
    BY <2>1, <2>2, WorkStops
<1>7. CASE DownloadTimesOut(w) \/ ScheduleFails(w) \/ Stop(w)
  <2>1. /\ pc[w] # "idle" /\ pc'[w] = "idle" /\ tasksQ' = Put(tasksQ, msg[w])
        /\ UNCHANGED <<status, api, stored, row, files, retryQ>>
    BY <1>7 DEF DownloadTimesOut, ScheduleFails, Stop, Requeue, Release, At, Jump, TypeOK, fileVars
  <2>2. pc'[w] \notin Working
    BY <2>1 DEF Working
  <2>3. msg[w] = <<Task(w), Attempt(w)>>
    BY <2>1, BusyTask
  <2>4. \A t \in Tasks \ {Task(w)} : \A a \in 0 .. MaxRetry : tasksQ'[<<t, a>>] = tasksQ[<<t, a>>]
    BY <2>1, <2>3 DEF Put, TypeOK, Messages
  <2> QED
    BY <2>1, <2>2, <2>4, WorkStops
<1>8. ~ StatusFails(w)
  BY DEF StatusFails, Mishap, StatusHolds
<1> QED
  BY <1>1, <1>2, <1>3, <1>4, <1>5, <1>6, <1>7, <1>8 DEF Handle, Fault

(* The invariant holds at the start ... *)
LEMMA IInvInit == Init => IInv
<1> SUFFICES ASSUME Init PROVE IInv
  OBVIOUS
<1>1. TypeOK /\ AttemptLeft
  BY TaskAssumption DEF Init, TypeOK, AttemptLeft, Statuses, Steps, Messages
<1>2. /\ \A w \in Workers : pc[w] = "idle"
      /\ \A t \in Tasks : /\ files[t] = 0 /\ status[t] = "none" /\ api[t] = "idle"
                         /\ \A a \in 0 .. MaxRetry : tasksQ[<<t, a>>] = 0 /\ retryQ[<<t, a>>] = 0
  BY DEF Init, Messages
<1>3. Owned /\ Progress
  BY <1>2 DEF Owned, Progress, Working
<1>4. Settled /\ Unsent
  BY <1>2 DEF Settled, Unsent
<1> QED
  BY <1>1, <1>3, <1>4 DEF IInv

(* ... and every step keeps it. *)
LEMMA IInvStep ==
    ASSUME IInv, StatusHolds, [Next]_vars
    PROVE  IInv'
<1>1. TypeOK' /\ AttemptLeft'
  BY TypeStep DEF IInv
<1>2. ASSUME NEW w \in Workers, Deliver(w) \/ Handle(w) \/ Fault(w)
      PROVE  (Owned /\ Progress /\ Settled /\ Unsent)'
  <2>1. OthersKeep(w)
    BY <1>2, StepIsLocal DEF IInv
  <2> QED
    BY <1>1, <1>2, <2>1, DeliverStep, HandleStep
<1>3. ASSUME NEW t \in Tasks, Create(t)
      PROVE  (Owned /\ Progress /\ Settled /\ Unsent)'
  BY <1>1, <1>3, CreateStep
<1>4. ASSUME NEW m \in Messages, RetryDue(m)
      PROVE  (Owned /\ Progress /\ Settled /\ Unsent)'
  BY <1>1, <1>4, DueStep
<1>5. CASE UNCHANGED vars
  <2>1. UNCHANGED <<status, api, tasksQ, retryQ, msg, pc, stored, row, files>>
    BY <1>5 DEF vars, queueVars, workVars, fileVars
  <2>2. Owned'
    BY <2>1 DEF IInv, Owned, Alone, Task
  <2>3. Progress'
    BY <2>1 DEF IInv, Progress, Task
  <2>4. Settled' /\ Unsent'
    BY <2>1 DEF IInv, Settled, Unsent, Task
  <2> QED BY <1>1, <2>2, <2>3, <2>4 DEF IInv
<1> QED
  BY <1>1, <1>2, <1>3, <1>4, <1>5 DEF IInv, Next

-----------------------------------------------------------------------------
(* Two deliveries of one task are never fetched, inserted or rolled back     *)
(* together: as long as its statements succeed, status = 'running' belongs   *)
(* to one worker, whatever stops, times out or is redelivered.               *)
THEOREM ClaimExcludes == StatusHolds => (Spec => []OneRunner)
<1> SUFFICES ASSUME StatusHolds PROVE Spec => []OneRunner
  OBVIOUS
<1>1. IInv => OneRunner
  BY DEF IInv, Owned, Alone, OneRunner, Fetching, Working
<1> QED
  BY <1>1, IInvInit, IInvStep, PTL DEF Spec

(* A task lists at most one file, with its row and bytes, exactly when it    *)
(* says so: retries and redeliveries never list a file a second time.        *)
THEOREM ListedOnce == StatusHolds => (Spec => []FileOnce)
<1> SUFFICES ASSUME StatusHolds PROVE Spec => []FileOnce
  OBVIOUS
<1>1. IInv => FileOnce
  BY DEF IInv, Settled, FileOnce
<1> QED
  BY <1>1, IInvInit, IInvStep, PTL DEF Spec

(* The whole of the offline download, with its queues, workers, redeliveries *)
(* and rollbacks, does only what TaskLifecycle says: a task is claimed,      *)
(* listed and decided in that order, and a decision is final.                *)
THEOREM LifecycleImplemented == StatusHolds => (Spec => FollowsLifecycle)
<1> SUFFICES ASSUME StatusHolds PROVE Spec => FollowsLifecycle
  OBVIOUS
<1>1. Init => L!Init
  BY DEF Init, L!Init
<1>2. IInv /\ [Next]_vars => [L!Next]_<<status, files>>
  <2> SUFFICES ASSUME IInv, Next PROVE L!Next \/ UNCHANGED <<status, files>>
    BY DEF vars, fileVars
  <2> USE DEF IInv, SetStatus, fileVars
  <2>1. ASSUME NEW t \in Tasks, Create(t) PROVE L!Next \/ UNCHANGED <<status, files>>
    <3>1. CASE CreateTask(t)
      <4>1. L!Submit(t)
        BY <3>1 DEF CreateTask, L!Submit, L!Move
      <4> QED BY <4>1 DEF L!Next
    <3>2. CASE PublishTaskFails(t)
      <4>1. status[t] = "pending"
        BY <3>2 DEF PublishTaskFails, Unsent
      <4>2. CASE status' # status
        <5>1. L!Reject(t)
          BY <3>2, <4>1, <4>2 DEF PublishTaskFails, L!Reject, L!Move
        <5> QED BY <5>1 DEF L!Next
      <4> QED BY <3>2, <4>2 DEF PublishTaskFails
    <3>3. CASE PublishTask(t) \/ ApiDies(t)
      BY <3>3 DEF PublishTask, ApiDies
    <3> QED BY <2>1, <3>1, <3>2, <3>3 DEF Create
  <2>2. ASSUME NEW w \in Workers, Handle(w) PROVE L!Next \/ UNCHANGED <<status, files>>
    <3>1. CASE Claim(w)
      <4>1. Task(w) \in Tasks /\ L!Start(Task(w))
        BY <3>1, BusyTask DEF Claim, At, L!Start, L!Move
      <4> QED BY <4>1 DEF L!Next
    <3>2. CASE CreateUserFileEntry(w)
      <4>1. Task(w) \in Tasks /\ status[Task(w)] = "running" /\ files[Task(w)] = 0
        BY <3>2, BusyTask DEF CreateUserFileEntry, At, Owned, Progress, Working
      <4>2. L!Save(Task(w))
        BY <3>2, <4>1 DEF CreateUserFileEntry, L!Save
      <4> QED BY <4>1, <4>2 DEF L!Next
    <3>3. CASE Complete(w)
      <4>1. Task(w) \in Tasks /\ status[Task(w)] = "running" /\ files[Task(w)] = 1
        BY <3>3, BusyTask DEF Complete, At, Owned, Progress, Working
      <4>2. L!Finish(Task(w))
        BY <3>3, <4>1 DEF Complete, L!Finish, L!Move
      <4> QED BY <4>1, <4>2 DEF L!Next
    <3>4. CASE ScheduleRetry(w) \/ MarkFailed(w)
      <4>1. Task(w) \in Tasks /\ status[Task(w)] = "running" /\ files[Task(w)] = 0
        BY <3>4, BusyTask DEF ScheduleRetry, MarkFailed, At, Owned, Progress, Working
      <4>2. L!Retry(Task(w)) \/ L!Fail(Task(w))
        BY <3>4, <4>1 DEF ScheduleRetry, MarkFailed, L!Retry, L!Fail, L!Move
      <4> QED BY <4>1, <4>2 DEF L!Next
    <3>5. CASE \/ ReadTask(w) \/ ClaimLost(w) \/ Download(w) \/ DownloadFails(w) \/ CreateObject(w)
               \/ CreateUserFileEntryFails(w) \/ RollbackObject(w) \/ RollbackRow(w)
               \/ RetriesExhausted(w) \/ PublishRetry(w) \/ PublishDLQ(w) \/ Ack(w)
      BY <3>5 DEF ReadTask, ClaimLost, Download, DownloadFails, CreateObject,
         CreateUserFileEntryFails, RollbackObject, RollbackRow, RetriesExhausted, PublishRetry,
         PublishDLQ, Ack
    <3> QED BY <2>2, <3>1, <3>2, <3>3, <3>4, <3>5 DEF Handle
  <2>3. ASSUME NEW w \in Workers, Deliver(w) \/ Fault(w) PROVE UNCHANGED <<status, files>>
    BY <2>3 DEF Deliver, Fault, DownloadTimesOut, CreateObjectFails, CreateObjectFindsGhost,
       UserNotRead, StatusFails, ScheduleFails, Stop
  <2>4. ASSUME NEW m \in Messages, RetryDue(m) PROVE UNCHANGED <<status, files>>
    BY <2>4 DEF RetryDue
  <2> QED
    BY <2>1, <2>2, <2>3, <2>4 DEF Next
<1> QED
  BY <1>1, <1>2, IInvInit, IInvStep, PTL DEF Spec, FollowsLifecycle, L!Spec

-----------------------------------------------------------------------------
(* Every retry has its message, whatever fails: this needs no more of the    *)
(* model than its types.                                                     *)
Acts(w) == pc[w] \notin {"idle", "ack", "dlq"}

(* No message is taken away. *)
QueuesGrow == \A m \in Messages : /\ tasksQ[m] > 0 => tasksQ'[m] > 0
                                  /\ retryQ[m] > 0 => retryQ'[m] > 0

LEMMA QueuedStays ==
    ASSUME QueuesGrow, NEW t \in Tasks, Queued(t) PROVE Queued(t)'
  BY DEF QueuesGrow, Queued, Messages

(* A worker with a delivery goes on with it, gives it back or on, or has     *)
(* nothing to do with the retry.                                             *)
LEMMA RetryFrame ==
    ASSUME TypeOK, RetryNotLost, NEW w \in Workers, OthersKeep(w), NEW u \in Tasks, u = Task(w), QueuesGrow,
           \A t \in Tasks \ {u} : status'[t] = status[t],
           \/ status'[u] # "retrying"
           \/ Queued(u)'
           \/ Acts(w)' /\ msg'[w] = msg[w]
           \/ ~ Acts(w) /\ UNCHANGED status
    PROVE  RetryNotLost'
<1> SUFFICES ASSUME NEW t \in Tasks, status'[t] = "retrying" PROVE (Queued(t) \/ Carried(t))'
  BY DEF RetryNotLost
<1>1. ASSUME NEW v \in Workers \ {w}, Acts(v), Task(v) = t PROVE Carried(t)'
  BY <1>1 DEF OthersKeep, Carried, Acts, Task
<1>2. CASE t # u
  <2>1. Queued(t) \/ \E v \in Workers \ {w} : Acts(v) /\ Task(v) = t
    BY <1>2 DEF RetryNotLost, Carried, Acts
  <2> QED BY <1>1, <2>1, QueuedStays
<1>3. CASE t = u /\ ~ Acts(w) /\ UNCHANGED status
  <2>1. Queued(t) \/ \E v \in Workers \ {w} : Acts(v) /\ Task(v) = t
    BY <1>3 DEF RetryNotLost, Carried, Acts
  <2> QED BY <1>1, <2>1, QueuedStays
<1>4. CASE t = u /\ Acts(w)' /\ msg'[w] = msg[w]
  BY <1>4 DEF Carried, Acts, Task
<1>5. CASE Queued(u)' /\ t = u
  BY <1>5
<1> QED BY <1>2, <1>3, <1>4, <1>5

(* The message that is delivered is carried, the others stay. *)
LEMMA RetryDelivered ==
    ASSUME TypeOK, RetryNotLost, NEW w \in Workers, OthersKeep(w), Deliver(w)
    PROVE  RetryNotLost'
<1> SUFFICES ASSUME NEW t \in Tasks, status[t] = "retrying" PROVE (Queued(t) \/ Carried(t))'
  BY DEF RetryNotLost, Deliver
<1>1. PICK m \in Messages : tasksQ' = Take(tasksQ, m) /\ msg' = [msg EXCEPT ![w] = m]
  BY DEF Deliver
<1>2. pc[w] = "idle" /\ pc'[w] = "read" /\ msg'[w] = m /\ retryQ' = retryQ
  BY <1>1 DEF Deliver, At, Jump, TypeOK
<1>3. CASE m[1] = t
  BY <1>2, <1>3 DEF Carried, Task
<1>4. CASE m[1] # t
  <2>1. \A a \in 0 .. MaxRetry : tasksQ'[<<t, a>>] = tasksQ[<<t, a>>]
    BY <1>1, <1>4 DEF Take, TypeOK, Messages
  <2>2. ASSUME NEW v \in Workers, pc[v] \notin {"idle", "ack", "dlq"}, Task(v) = t PROVE Carried(t)'
    BY <1>2, <2>2 DEF OthersKeep, Carried, Task
  <2> QED BY <1>2, <2>1, <2>2 DEF RetryNotLost, Queued, Carried
<1> QED BY <1>3, <1>4

LEMMA RetryHandled ==
    ASSUME TypeOK, AttemptLeft, RetryNotLost, NEW w \in Workers, OthersKeep(w), Handle(w) \/ Fault(w)
    PROVE  RetryNotLost'
<1>1. pc[w] # "idle"
  BY DEF Handle, ReadTask, Claim, ClaimLost, Download, DownloadFails, CreateObject, CreateUserFileEntry,
     CreateUserFileEntryFails, RollbackObject, RollbackRow, Complete, ScheduleRetry, RetriesExhausted,
     PublishRetry, MarkFailed, PublishDLQ, Ack, Fault, DownloadTimesOut, CreateObjectFails,
     CreateObjectFindsGhost, UserNotRead, StatusFails, ScheduleFails, Stop, At
<1> PICK u : u = Task(w)
  OBVIOUS
<1>2. /\ u \in Tasks /\ u = Task(w) /\ msg[w] = <<u, Attempt(w)>> /\ Attempt(w) \in 0 .. MaxRetry
      /\ msg[w] \in Messages
  BY <1>1, BusyTask
<1>3. \A t \in Tasks \ {u} : status'[t] = status[t]
  BY <1>2 DEF Handle, ReadTask, Claim, ClaimLost, Download, DownloadFails, CreateObject, CreateUserFileEntry,
     CreateUserFileEntryFails, RollbackObject, RollbackRow, Complete, ScheduleRetry, RetriesExhausted,
     PublishRetry, MarkFailed, PublishDLQ, Ack, Fault, DownloadTimesOut, CreateObjectFails,
     CreateObjectFindsGhost, UserNotRead, StatusFails, ScheduleFails, Stop, SetStatus, TypeOK
<1>4. CASE DownloadTimesOut(w) \/ ScheduleFails(w) \/ Stop(w)
  <2>1. tasksQ' = Put(tasksQ, msg[w]) /\ retryQ' = retryQ
    BY <1>4 DEF DownloadTimesOut, ScheduleFails, Stop, Requeue
  <2>2. tasksQ'[msg[w]] > 0 /\ QueuesGrow
    BY <1>2, <2>1 DEF Put, QueuesGrow, TypeOK
  <2>3. Queued(u)'
    BY <1>2, <2>2 DEF Queued
  <2> QED BY <1>2, <1>3, <2>2, <2>3, RetryFrame
<1>5. CASE PublishRetry(w)
  <2> DEFINE m == <<u, Attempt(w) + 1>>
  <2>1. retryQ' = Put(retryQ, m) /\ tasksQ' = tasksQ
    BY <1>2, <1>5 DEF PublishRetry
  <2>2. Attempt(w) < MaxRetry
    BY <1>5 DEF PublishRetry, At, AttemptLeft
  <2>3. m \in Messages /\ Attempt(w) + 1 \in 0 .. MaxRetry
    BY <1>2, <2>2, TaskAssumption DEF Messages
  <2> HIDE DEF m
  <2>4. retryQ'[m] > 0 /\ QueuesGrow
    BY <2>1, <2>3 DEF Put, QueuesGrow, TypeOK
  <2>5. Queued(u)'
    BY <2>3, <2>4 DEF Queued, m
  <2> QED BY <1>2, <1>3, <2>4, <2>5, RetryFrame
<1>6. CASE ReadTask(w) \/ ClaimLost(w) \/ Complete(w) \/ MarkFailed(w) \/ PublishDLQ(w) \/ Ack(w)
  <2>1. tasksQ' = tasksQ /\ retryQ' = retryQ
    BY <1>6 DEF ReadTask, ClaimLost, Complete, MarkFailed, PublishDLQ, Ack, queueVars
  <2>2. \/ status'[u] # "retrying"
        \/ Acts(w)' /\ msg'[w] = msg[w]
        \/ ~ Acts(w) /\ UNCHANGED status
    BY <1>2, <1>6 DEF ReadTask, ClaimLost, Complete, MarkFailed, PublishDLQ, Ack, At, Goto, Jump, SetStatus,
       Acts, TypeOK
  <2>3. QueuesGrow
    BY <2>1 DEF QueuesGrow
  <2> QED BY <1>2, <1>3, <2>2, <2>3, RetryFrame
<1>7. CASE \/ Claim(w) \/ Download(w) \/ DownloadFails(w) \/ CreateObject(w) \/ CreateUserFileEntry(w)
           \/ CreateUserFileEntryFails(w) \/ RollbackObject(w) \/ RollbackRow(w) \/ ScheduleRetry(w)
           \/ RetriesExhausted(w) \/ CreateObjectFails(w) \/ CreateObjectFindsGhost(w) \/ UserNotRead(w)
           \/ StatusFails(w)
  <2>1. tasksQ' = tasksQ /\ retryQ' = retryQ /\ msg' = msg
    BY <1>7 DEF Claim, Download, DownloadFails, CreateObject, CreateUserFileEntry, CreateUserFileEntryFails,
       RollbackObject, RollbackRow, ScheduleRetry, RetriesExhausted, CreateObjectFails, CreateObjectFindsGhost,
       UserNotRead, StatusFails, Goto, queueVars
  <2>2. \E step \in {"download", "object", "entry", "undo", "undo_row", "finish", "retry", "publish", "fail"} :
           Jump(w, step)
    BY <1>7 DEF Claim, Download, DownloadFails, CreateObject, CreateUserFileEntry, CreateUserFileEntryFails,
       RollbackObject, RollbackRow, ScheduleRetry, RetriesExhausted, CreateObjectFails, CreateObjectFindsGhost,
       UserNotRead, StatusFails, Goto
  <2>3. Acts(w)' /\ QueuesGrow
    BY <2>1, <2>2 DEF Jump, Acts, TypeOK, QueuesGrow
  <2> QED BY <1>2, <1>3, <2>1, <2>3, RetryFrame
<1> QED BY <1>4, <1>5, <1>6, <1>7 DEF Handle, Fault

(* A task that says it will be retried has a message that will retry it or a *)
(* worker that acts on one, whatever stops, fails or is redelivered          *)
(* (scheduleRetry, the Nack of HandleDelivery).                              *)
THEOREM RetryKept == Spec => []RetryNotLost
<1> DEFINE RInv == TypeOK /\ AttemptLeft /\ RetryNotLost
<1>1. Init => RInv
  BY TaskAssumption DEF Init, TypeOK, AttemptLeft, Statuses, Steps, Messages, RetryNotLost
<1>2. RInv /\ [Next]_vars => RInv'
  <2> SUFFICES ASSUME RInv, [Next]_vars PROVE RetryNotLost'
    BY TypeStep
  <2>1. ASSUME NEW w \in Workers, Deliver(w) \/ Handle(w) \/ Fault(w) PROVE RetryNotLost'
    BY <2>1, StepIsLocal, RetryDelivered, RetryHandled
  <2>2. ASSUME NEW t \in Tasks, Create(t) PROVE RetryNotLost'
    <3>1. /\ UNCHANGED <<msg, pc, retryQ>>
          /\ \A u \in Tasks : status'[u] = "retrying" => status[u] = "retrying"
      BY <2>2 DEF Create, CreateTask, PublishTask, PublishTaskFails, ApiDies, SetStatus, TypeOK, queueVars, workVars
    <3>2. QueuesGrow
      <4>1. <<t, 0>> \in Messages
        BY TaskAssumption DEF Messages
      <4> QED BY <2>2, <3>1, <4>1 DEF Create, CreateTask, PublishTask, PublishTaskFails, ApiDies, Put, TypeOK,
                 queueVars, QueuesGrow
    <3>3. \A u \in Tasks : (Queued(u) => Queued(u)') /\ (Carried(u) => Carried(u)')
      BY <3>1, <3>2, QueuedStays DEF Carried, Task
    <3> QED BY <3>1, <3>3 DEF RetryNotLost
  <2>3. ASSUME NEW m \in Messages, RetryDue(m) PROVE RetryNotLost'
    <3>1. UNCHANGED <<msg, pc, status>> /\ tasksQ' = Put(tasksQ, m) /\ retryQ' = Take(retryQ, m)
      BY <2>3 DEF RetryDue, workVars
    <3>2. \A n \in Messages : tasksQ[n] > 0 \/ retryQ[n] > 0 => tasksQ'[n] > 0 \/ retryQ'[n] > 0
      BY <3>1 DEF Put, Take, TypeOK
    <3>3. \A u \in Tasks : (Queued(u) => Queued(u)') /\ (Carried(u) => Carried(u)')
      BY <3>1, <3>2 DEF Queued, Carried, Task, Messages
    <3> QED BY <3>1, <3>3 DEF RetryNotLost
  <2>4. CASE UNCHANGED vars
    BY <2>4 DEF vars, queueVars, workVars, RetryNotLost, Queued, Carried, Task
  <2> QED BY <2>1, <2>2, <2>3, <2>4 DEF Next
<1> QED
  BY <1>1, <1>2, PTL DEF Spec

-----------------------------------------------------------------------------
(* One actor for each undecided task, as long as nobody stops, times out or  *)
(* gives up in between.                                                      *)
OnlyPublishesFail == Faults \cap {"timeout", "db", "api", "stop"} = {}

Undecided == {"pending", "running", "retrying"}

(* What the step of a task's worker says of the status. *)
Suits(step, s) ==
    /\ s \in Undecided
    /\ step \in {"read", "claim"} => s \in {"pending", "retrying"}
    /\ step \in Fetching \cup {"finish"} => s = "running"
    /\ step = "publish" => s = "retrying"

(* The four kinds of actor, alone. *)
Idle(t) ==
    /\ api[t] # "publish"
    /\ \A m \in Messages : m[1] = t => tasksQ[m] = 0 /\ retryQ[m] = 0
    /\ \A w \in Workers : Acts(w) => Task(w) # t

ByApi(t) ==
    /\ api[t] = "publish" /\ status[t] = "pending"
    /\ \A m \in Messages : m[1] = t => tasksQ[m] = 0 /\ retryQ[m] = 0
    /\ \A w \in Workers : Acts(w) => Task(w) # t

ByTask(t, m) ==
    /\ m \in Messages /\ m[1] = t /\ tasksQ[m] = 1 /\ status[t] \in {"pending", "retrying"}
    /\ api[t] # "publish"
    /\ \A n \in Messages : n[1] = t => (tasksQ[n] = 0 \/ n = m) /\ retryQ[n] = 0
    /\ \A w \in Workers : Acts(w) => Task(w) # t

ByRetry(t, m) ==
    /\ m \in Messages /\ m[1] = t /\ retryQ[m] = 1 /\ status[t] \in {"pending", "retrying"}
    /\ api[t] # "publish"
    /\ \A n \in Messages : n[1] = t => tasksQ[n] = 0 /\ (retryQ[n] = 0 \/ n = m)
    /\ \A w \in Workers : Acts(w) => Task(w) # t

ByWorker(t, w) ==
    /\ w \in Workers /\ Acts(w) /\ Task(w) = t /\ Suits(pc[w], status[t])
    /\ api[t] # "publish"
    /\ \A m \in Messages : m[1] = t => tasksQ[m] = 0 /\ retryQ[m] = 0
    /\ \A v \in Workers : Acts(v) /\ Task(v) = t => v = w

Sole(t) ==
    \/ status[t] \notin Undecided /\ Idle(t)
    \/ ByApi(t)
    \/ \E m \in Messages : ByTask(t, m) \/ ByRetry(t, m)
    \/ \E w \in Workers : ByWorker(t, w)

LEMMA SoleCounts ==
    ASSUME TypeOK, NEW t \in Tasks, Sole(t)
    PROVE  Cardinality(Acting(t)) = IF status[t] \in Undecided THEN 1 ELSE 0
<1> USE DEF Acting, Acts
<1>1. CASE status[t] \notin Undecided /\ Idle(t)
  <2>1. Acting(t) = {}
    BY <1>1 DEF Idle, TypeOK
  <2> QED BY <1>1, <2>1, FS_EmptySet
<1>2. CASE ByApi(t)
  <2>1. Acting(t) = {<<"api", t>>}
    BY <1>2 DEF ByApi, TypeOK
  <2> QED BY <1>2, <2>1, FS_Singleton DEF ByApi, Undecided
<1>3. ASSUME NEW m \in Messages, ByTask(t, m) PROVE Cardinality(Acting(t)) = 1 /\ status[t] \in Undecided
  <2>1. Acting(t) = {<<"task", m>>}
    BY <1>3 DEF ByTask, TypeOK
  <2> QED BY <1>3, <2>1, FS_Singleton DEF ByTask, Undecided
<1>4. ASSUME NEW m \in Messages, ByRetry(t, m) PROVE Cardinality(Acting(t)) = 1 /\ status[t] \in Undecided
  <2>1. Acting(t) = {<<"retry", m>>}
    BY <1>4 DEF ByRetry, TypeOK
  <2> QED BY <1>4, <2>1, FS_Singleton DEF ByRetry, Undecided
<1>5. ASSUME NEW w \in Workers, ByWorker(t, w) PROVE Cardinality(Acting(t)) = 1 /\ status[t] \in Undecided
  <2>1. Acting(t) = {<<"work", w>>}
    BY <1>5 DEF ByWorker, TypeOK
  <2> QED BY <1>5, <2>1, FS_Singleton DEF ByWorker, Suits
<1> QED BY <1>1, <1>2, <1>3, <1>4, <1>5 DEF Sole, ByApi, Undecided

(* Who is found acting is the only one. *)
LEMMA WorkerIsSole ==
    ASSUME TypeOK, NEW w \in Workers, Acts(w), Sole(Task(w))
    PROVE  ByWorker(Task(w), w)
BY DEF Sole, Idle, ByApi, ByTask, ByRetry, ByWorker

LEMMA MessageIsSole ==
    ASSUME TypeOK, NEW m \in Messages, Sole(m[1])
    PROVE  (tasksQ[m] > 0 => ByTask(m[1], m)) /\ (retryQ[m] > 0 => ByRetry(m[1], m))
BY DEF Sole, Idle, ByApi, ByTask, ByRetry, ByWorker, TypeOK

LEMMA ApiIsSole ==
    ASSUME TypeOK, NEW t \in Tasks, Sole(t)
    PROVE  (api[t] = "publish" => ByApi(t)) /\ (status[t] = "none" => Idle(t))
BY DEF Sole, Idle, ByApi, ByTask, ByRetry, ByWorker, Suits, Undecided

(* A step about one task leaves the actors of the others alone. *)
LEMMA SoleElsewhere ==
    ASSUME NEW t \in Tasks, NEW u \in Tasks, u # t, Sole(u),
           status'[u] = status[u], api'[u] = api[u],
           \A m \in Messages : m[1] # t => tasksQ'[m] = tasksQ[m] /\ retryQ'[m] = retryQ[m],
           \A w \in Workers :
               \/ pc'[w] = pc[w] /\ msg'[w] = msg[w]
               \/ (Acts(w) => Task(w) = t) /\ (Acts(w)' => Task(w)' = t)
    PROVE  Sole(u)'
<1>1. \A m \in Messages : m[1] = u => tasksQ'[m] = tasksQ[m] /\ retryQ'[m] = retryQ[m]
  OBVIOUS
<1>2. \A w \in Workers : (Acts(w) /\ Task(w) = u <=> Acts(w)' /\ Task(w)' = u) /\ (Acts(w) /\ Task(w) = u => pc'[w] = pc[w])
  BY DEF Acts, Task
<1>3. (\A w \in Workers : Acts(w) => Task(w) # u) => \A w \in Workers : Acts(w)' => Task(w)' # u
  BY <1>2
<1>4. Idle(u) => Idle(u)'
  BY <1>1, <1>3 DEF Idle
<1>5. ByApi(u) => ByApi(u)'
  BY <1>1, <1>3 DEF ByApi
<1>6. \A m \in Messages : (ByTask(u, m) => ByTask(u, m)') /\ (ByRetry(u, m) => ByRetry(u, m)')
  BY <1>1, <1>3 DEF ByTask, ByRetry
<1>7. \A w \in Workers : ByWorker(u, w) => ByWorker(u, w)'
  BY <1>1, <1>2 DEF ByWorker
<1> QED BY <1>4, <1>5, <1>6, <1>7 DEF Sole

AllSole == \A t \in Tasks : Sole(t)

(* What worker w makes of its task t, and the others of theirs. *)
LEMMA SoleWork ==
    ASSUME TypeOK, AllSole, NEW w \in Workers, OthersKeep(w), NEW t \in Tasks, Sole(t)',
           pc[w] # "idle" => Task(w) = t, Acts(w)' => Task(w)' = t,
           \A u \in Tasks \ {t} : status'[u] = status[u], api' = api,
           \A m \in Messages : m[1] # t => tasksQ'[m] = tasksQ[m] /\ retryQ'[m] = retryQ[m]
    PROVE  AllSole'
<1>1. \A v \in Workers : \/ pc'[v] = pc[v] /\ msg'[v] = msg[v]
                         \/ (Acts(v) => Task(v) = t) /\ (Acts(v)' => Task(v)' = t)
  BY DEF OthersKeep, Acts
<1> QED BY <1>1, SoleElsewhere DEF AllSole

LEMMA SoleCreate ==
    ASSUME TypeOK, AllSole, OnlyPublishesFail, NEW t \in Tasks, Create(t)
    PROVE  AllSole'
<1>1. /\ UNCHANGED <<msg, pc, retryQ>>
      /\ \A u \in Tasks \ {t} : status'[u] = status[u] /\ api'[u] = api[u]
      /\ \A m \in Messages : m[1] # t => tasksQ'[m] = tasksQ[m]
  BY DEF Create, CreateTask, PublishTask, PublishTaskFails, ApiDies, SetStatus, Put, TypeOK, queueVars, workVars
<1>2. Sole(t)'
  <2>1. CASE CreateTask(t)
    <3>1. Idle(t) /\ api'[t] = "publish" /\ status'[t] = "pending" /\ tasksQ' = tasksQ
      BY <2>1, ApiIsSole DEF CreateTask, AllSole, SetStatus, TypeOK, queueVars
    <3>2. ByApi(t)'
      BY <1>1, <3>1 DEF Idle, ByApi, Acts, Task
    <3> QED BY <3>2 DEF Sole
  <2>2. CASE PublishTask(t)
    <3>1. ByApi(t) /\ api'[t] = "done" /\ status' = status
      BY <2>2, ApiIsSole DEF PublishTask, AllSole, TypeOK
    <3>0. <<t, 0>> \in Messages
      BY TaskAssumption DEF Messages
    <3>2. PICK m \in Messages : m = <<t, 0>> /\ m[1] = t
      BY <3>0
    <3>3. tasksQ'[m] = 1 /\ \A n \in Messages \ {m} : tasksQ'[n] = tasksQ[n]
      BY <2>2, <3>1, <3>2 DEF PublishTask, Put, TypeOK, ByApi
    <3>4. ByTask(t, m)'
      BY <1>1, <3>1, <3>2, <3>3 DEF ByApi, ByTask, Acts, Task
    <3> QED BY <3>4 DEF Sole
  <2>3. CASE PublishTaskFails(t)
    <3>1. ByApi(t) /\ api'[t] = "done" /\ status'[t] = "failed" /\ tasksQ' = tasksQ
      BY <2>3, ApiIsSole DEF PublishTaskFails, AllSole, TypeOK, OnlyPublishesFail, SetStatus, queueVars
    <3>2. Idle(t)'
      BY <1>1, <3>1 DEF ByApi, Idle, Acts, Task
    <3> QED BY <3>1, <3>2 DEF Sole, Undecided
  <2>4. ~ ApiDies(t)
    BY DEF ApiDies, Mishap, OnlyPublishesFail
  <2> QED BY <2>1, <2>2, <2>3, <2>4 DEF Create
<1> QED BY <1>1, <1>2, SoleElsewhere DEF AllSole

LEMMA SoleDue ==
    ASSUME TypeOK, AllSole, NEW m \in Messages, RetryDue(m)
    PROVE  AllSole'
<1>1. PICK t \in Tasks : t = m[1]
  BY DEF Messages
<1>2. ByRetry(t, m)
  BY <1>1, MessageIsSole DEF RetryDue, AllSole
<1>3. /\ UNCHANGED <<msg, pc, status, api>>
      /\ tasksQ'[m] = tasksQ[m] + 1 /\ retryQ'[m] = retryQ[m] - 1
      /\ \A n \in Messages \ {m} : tasksQ'[n] = tasksQ[n] /\ retryQ'[n] = retryQ[n]
  BY DEF RetryDue, Put, Take, TypeOK, workVars
<1>4. ByTask(t, m)'
  BY <1>1, <1>2, <1>3 DEF ByRetry, ByTask, Acts, Task
<1>5. Sole(t)'
  BY <1>4 DEF Sole
<1> QED BY <1>1, <1>3, <1>5, SoleElsewhere DEF AllSole

LEMMA SoleDeliver ==
    ASSUME TypeOK, AllSole, NEW w \in Workers, OthersKeep(w), Deliver(w)
    PROVE  AllSole'
<1>1. PICK m \in Messages : tasksQ[m] > 0 /\ tasksQ' = Take(tasksQ, m) /\ msg' = [msg EXCEPT ![w] = m]
  BY DEF Deliver
<1>2. PICK t \in Tasks : t = m[1]
  BY DEF Messages
<1>3. ByTask(t, m)
  BY <1>1, <1>2, MessageIsSole DEF AllSole
<1>4. /\ pc[w] = "idle" /\ pc'[w] = "read" /\ msg'[w] = m /\ UNCHANGED <<status, api, retryQ>>
      /\ tasksQ'[m] = tasksQ[m] - 1 /\ \A n \in Messages \ {m} : tasksQ'[n] = tasksQ[n]
  BY <1>1 DEF Deliver, At, Jump, Take, TypeOK
<1>5. \A v \in Workers \ {w} : (Acts(v)' <=> Acts(v)) /\ Task(v)' = Task(v)
  BY DEF OthersKeep, Acts, Task
<1>6. Acts(w)' /\ Task(w)' = t
  BY <1>2, <1>4 DEF Acts, Task
<1>7. ByWorker(t, w)'
  <2>1. Suits(pc'[w], status'[t])
    BY <1>3, <1>4 DEF ByTask, Suits, Undecided, Fetching
  <2> QED BY <1>2, <1>3, <1>4, <1>5, <1>6, <2>1 DEF ByTask, ByWorker
<1>8. Sole(t)'
  BY <1>7 DEF Sole
<1>9. \A n \in Messages : n[1] # t => n # m
  BY <1>2
<1> QED BY <1>4, <1>6, <1>8, <1>9, SoleWork

(* A worker that has its message to give back, or none to act on. *)
LEMMA SoleHandle ==
    ASSUME TypeOK, AttemptLeft, AllSole, OnlyPublishesFail, NEW w \in Workers, OthersKeep(w), Handle(w) \/ Fault(w)
    PROVE  AllSole'
<1>1. pc[w] # "idle"
  BY DEF Handle, ReadTask, Claim, ClaimLost, Download, DownloadFails, CreateObject, CreateUserFileEntry,
     CreateUserFileEntryFails, RollbackObject, RollbackRow, Complete, ScheduleRetry, RetriesExhausted,
     PublishRetry, MarkFailed, PublishDLQ, Ack, Fault, DownloadTimesOut, CreateObjectFails,
     CreateObjectFindsGhost, UserNotRead, StatusFails, ScheduleFails, Stop, At
<1> PICK t : t = Task(w)
  OBVIOUS
<1>2. /\ t \in Tasks /\ t = Task(w) /\ msg[w] = <<t, Attempt(w)>>
      /\ msg[w] \in Messages /\ Attempt(w) \in 0 .. MaxRetry
  BY <1>1, BusyTask
<1>3. (\A u \in Tasks \ {t} : status'[u] = status[u]) /\ api' = api
  BY <1>2 DEF Handle, ReadTask, Claim, ClaimLost, Download, DownloadFails, CreateObject, CreateUserFileEntry,
     CreateUserFileEntryFails, RollbackObject, RollbackRow, Complete, ScheduleRetry, RetriesExhausted,
     PublishRetry, MarkFailed, PublishDLQ, Ack, Fault, DownloadTimesOut, CreateObjectFails,
     CreateObjectFindsGhost, UserNotRead, StatusFails, ScheduleFails, Stop, SetStatus, TypeOK
<1>v. \A v \in Workers \ {w} : (Acts(v)' <=> Acts(v)) /\ Task(v)' = Task(v) /\ pc'[v] = pc[v]
  BY DEF OthersKeep, Acts, Task
<1>s. Acts(w) => ByWorker(t, w)
  BY <1>2, WorkerIsSole DEF AllSole
<1>4. CASE PublishDLQ(w) \/ Ack(w)
  <2>1. UNCHANGED <<status, tasksQ, retryQ>> /\ ~ Acts(w) /\ ~ Acts(w)'
    BY <1>4 DEF PublishDLQ, Ack, Goto, Jump, Release, Acts, TypeOK, At, queueVars
  <2>2. \A v \in Workers : \/ pc'[v] = pc[v] /\ msg'[v] = msg[v]
                           \/ ~ Acts(v) /\ ~ Acts(v)'
    BY <2>1 DEF OthersKeep
  <2>3. ASSUME NEW u \in Tasks PROVE Sole(u)'
    <3>1. \A v \in Workers : (Acts(v) /\ Task(v) = u <=> Acts(v)' /\ Task(v)' = u) /\ (Acts(v) => pc'[v] = pc[v])
      BY <2>2 DEF Acts, Task
    <3>2. Idle(u) => Idle(u)'
      BY <1>3, <2>1, <3>1 DEF Idle
    <3>3. ByApi(u) => ByApi(u)'
      BY <1>3, <2>1, <3>1 DEF ByApi
    <3>4. \A m \in Messages : (ByTask(u, m) => ByTask(u, m)') /\ (ByRetry(u, m) => ByRetry(u, m)')
      BY <1>3, <2>1, <3>1 DEF ByTask, ByRetry
    <3>5. \A v \in Workers : ByWorker(u, v) => ByWorker(u, v)'
      BY <1>3, <2>1, <3>1 DEF ByWorker
    <3> QED BY <2>1, <3>2, <3>3, <3>4, <3>5 DEF Sole, AllSole
  <2> QED BY <2>3 DEF AllSole
(* It goes on with the task. *)
<1>w. ASSUME Acts(w), Acts(w)', msg'[w] = msg[w], UNCHANGED <<tasksQ, retryQ>>, Suits(pc'[w], status'[t])
      PROVE  AllSole'
  <2>1. Task(w)' = t
    BY <1>2, <1>w DEF Task
  <2>2. ByWorker(t, w)'
    BY <1>2, <1>3, <1>s, <1>v, <1>w, <2>1 DEF ByWorker
  <2>3. Sole(t)'
    BY <2>2 DEF Sole
  <2> QED BY <1>2, <1>3, <1>w, <2>1, <2>3, SoleWork
<1>5. CASE \/ Download(w) \/ DownloadFails(w) \/ CreateObject(w) \/ CreateUserFileEntry(w)
           \/ CreateUserFileEntryFails(w) \/ RollbackObject(w) \/ RollbackRow(w)
           \/ RetriesExhausted(w) \/ StatusFails(w)
  <2>1. UNCHANGED <<status, tasksQ, retryQ, msg>>
    BY <1>5 DEF Download, DownloadFails, CreateObject, CreateUserFileEntry, CreateUserFileEntryFails,
       RollbackObject, RollbackRow, RetriesExhausted, StatusFails, Goto, queueVars
  <2>2. /\ \/ pc[w] \in Fetching /\ pc'[w] \in Fetching \cup {"finish"}
           \/ pc'[w] \in {"retry", "fail"}
        /\ Acts(w) /\ Acts(w)'
    BY <1>5 DEF Download, DownloadFails, CreateObject, CreateUserFileEntry, CreateUserFileEntryFails,
       RollbackObject, RollbackRow, RetriesExhausted, StatusFails, Goto, Jump, At, Acts, Fetching, TypeOK
  <2>3. Suits(pc'[w], status'[t])
    BY <1>s, <2>1, <2>2 DEF ByWorker, Suits, Fetching
  <2> QED BY <1>w, <2>1, <2>2, <2>3
<1>6. CASE Claim(w) \/ ScheduleRetry(w)
  <2>1. /\ UNCHANGED <<tasksQ, retryQ, msg>> /\ Acts(w) /\ Acts(w)'
        /\ \/ status'[t] = "running" /\ pc'[w] = "download"
           \/ status'[t] = "retrying" /\ pc'[w] = "publish"
    BY <1>2, <1>6 DEF Claim, ScheduleRetry, Goto, Jump, At, Acts, SetStatus, TypeOK, queueVars
  <2>2. Suits(pc'[w], status'[t])
    BY <2>1 DEF Suits, Fetching, Undecided
  <2> QED BY <1>w, <2>1, <2>2
<1>7. CASE ReadTask(w) \/ ClaimLost(w)
  <2>1. /\ UNCHANGED <<status, tasksQ, retryQ, msg>> /\ Acts(w) /\ pc[w] \in {"read", "claim"}
    BY <1>7 DEF ReadTask, ClaimLost, Goto, At, Acts, queueVars
  <2>2. status[t] \in {"pending", "retrying"}
    BY <1>s, <2>1 DEF ByWorker, Suits
  <2>3. pc'[w] = "claim"
    BY <1>2, <1>7, <2>2 DEF ReadTask, ClaimLost, Goto, Jump, TypeOK
  <2>4. Acts(w)' /\ Suits(pc'[w], status'[t])
    BY <2>1, <2>2, <2>3 DEF Acts, Suits, Undecided, Fetching
  <2> QED BY <1>w, <2>1, <2>4
(* It is done with it. *)
<1>8. CASE Complete(w) \/ MarkFailed(w)
  <2>1. /\ UNCHANGED <<tasksQ, retryQ, msg>> /\ Acts(w) /\ ~ Acts(w)'
        /\ status'[t] \in {"completed", "failed"}
    BY <1>2, <1>8 DEF Complete, MarkFailed, Goto, Jump, At, Acts, SetStatus, TypeOK, queueVars
  <2>2. Idle(t)'
    BY <1>3, <1>s, <1>v, <2>1 DEF ByWorker, Idle
  <2>3. Sole(t)'
    BY <2>1, <2>2 DEF Sole, Undecided
  <2> QED BY <1>2, <1>3, <2>1, <2>3, SoleWork
(* It passes it on. *)
<1>9. CASE PublishRetry(w)
  <2>2. Attempt(w) < MaxRetry
    BY <1>9 DEF PublishRetry, At, AttemptLeft
  <2>0. <<t, Attempt(w) + 1>> \in Messages
    BY <1>2, <2>2, TaskAssumption DEF Messages
  <2>3. PICK m \in Messages : m = <<t, Attempt(w) + 1>> /\ m[1] = t
    BY <2>0
  <2>1. /\ retryQ' = Put(retryQ, m) /\ UNCHANGED <<status, tasksQ, msg>>
        /\ Acts(w) /\ ~ Acts(w)' /\ pc[w] = "publish"
    BY <1>2, <1>9, <2>3 DEF PublishRetry, Goto, Jump, At, Acts, TypeOK
  <2>4. retryQ'[m] = 1 /\ \A n \in Messages \ {m} : retryQ'[n] = retryQ[n]
    BY <1>s, <2>1, <2>3 DEF Put, TypeOK, ByWorker
  <2>5. status[t] = "retrying"
    BY <1>s, <2>1 DEF ByWorker, Suits
  <2>6. ByRetry(t, m)'
    BY <1>3, <1>s, <1>v, <2>1, <2>3, <2>4, <2>5 DEF ByWorker, ByRetry
  <2>7. Sole(t)'
    BY <2>3, <2>6 DEF Sole
  <2>8. \A n \in Messages : n[1] # t => n # m
    BY <2>3
  <2> QED BY <1>2, <1>3, <2>1, <2>4, <2>7, <2>8, SoleWork
<1>10. CASE ScheduleFails(w)
  <2>1. /\ tasksQ' = Put(tasksQ, msg[w]) /\ UNCHANGED <<status, retryQ>> /\ pc[w] = "publish" /\ pc'[w] = "idle"
    BY <1>10 DEF ScheduleFails, Mishap, OnlyPublishesFail, At, Requeue, Release, Jump, TypeOK
  <2>2. PICK m \in Messages : m = msg[w] /\ m[1] = t
    BY <1>2
  <2>3. Acts(w) /\ ~ Acts(w)'
    BY <2>1 DEF Acts
  <2>4. tasksQ'[m] = 1 /\ \A n \in Messages \ {m} : tasksQ'[n] = tasksQ[n]
    BY <1>s, <2>1, <2>2, <2>3 DEF Put, TypeOK, ByWorker
  <2>5. status[t] = "retrying"
    BY <1>s, <2>1, <2>3 DEF ByWorker, Suits
  <2>6. ByTask(t, m)'
    BY <1>3, <1>s, <1>v, <2>1, <2>2, <2>3, <2>4, <2>5 DEF ByWorker, ByTask
  <2>7. Sole(t)'
    BY <2>2, <2>6 DEF Sole
  <2>8. \A n \in Messages : n[1] # t => n # m
    BY <2>2
  <2> QED BY <1>2, <1>3, <2>1, <2>3, <2>4, <2>7, <2>8, SoleWork
<1>11. ~ (DownloadTimesOut(w) \/ Stop(w) \/ UserNotRead(w) \/ CreateObjectFails(w) \/ CreateObjectFindsGhost(w))
  BY DEF DownloadTimesOut, Stop, UserNotRead, CreateObjectFails, CreateObjectFindsGhost, Mishap, OnlyPublishesFail
<1> QED BY <1>4, <1>5, <1>6, <1>7, <1>8, <1>9, <1>10, <1>11 DEF Handle, Fault

(* As long as nothing but fetches, publishes and statements about the status *)
(* fail, an undecided task has exactly one message, publisher or worker that *)
(* acts on it, and a decided one none: retries are neither lost nor doubled. *)
THEOREM ActorsCounted == OnlyPublishesFail => (Spec => []OneActor)
<1> SUFFICES ASSUME OnlyPublishesFail PROVE Spec => []OneActor
  OBVIOUS
<1> DEFINE AInv == TypeOK /\ AttemptLeft /\ AllSole
<1>1. Init => AInv
  <2> SUFFICES ASSUME Init PROVE AInv
    OBVIOUS
  <2>1. TypeOK /\ AttemptLeft
    BY TaskAssumption DEF Init, TypeOK, AttemptLeft, Statuses, Steps, Messages
  <2>2. ASSUME NEW t \in Tasks PROVE Idle(t) /\ status[t] \notin Undecided
    BY DEF Init, Idle, Acts, Undecided
  <2> QED BY <2>1, <2>2 DEF AllSole, Sole
<1>2. AInv /\ [Next]_vars => AInv'
  <2> SUFFICES ASSUME AInv, [Next]_vars PROVE AllSole'
    BY TypeStep
  <2>1. ASSUME NEW w \in Workers, Deliver(w) \/ Handle(w) \/ Fault(w) PROVE AllSole'
    BY <2>1, StepIsLocal, SoleDeliver, SoleHandle
  <2>2. CASE UNCHANGED vars
    <3>1. UNCHANGED <<status, api, tasksQ, retryQ, msg, pc>>
      BY <2>2 DEF vars, queueVars, workVars
    <3>2. ASSUME NEW t \in Tasks PROVE Sole(t)'
      BY <3>1 DEF AllSole, Sole, Idle, ByApi, ByTask, ByRetry, ByWorker, Acts, Task
    <3> QED BY <3>2 DEF AllSole
  <2> QED BY <2>1, <2>2, SoleCreate, SoleDue DEF Next
<1>3. AInv => OneActor
  BY SoleCounts DEF AllSole, OneActor, Undecided
<1> QED
  BY <1>1, <1>2, <1>3, PTL DEF Spec

=============================================================================

------------------------------- MODULE Shares -------------------------------
(***************************************************************************)
(* Share links: file_share rows, their keys share:<id> in Redis, visits    *)
(* and the listener for keys that run out (service/share_file.go,          *)
(* handler/share_file.go, service/share_access.go, repo/redis.go).         *)
(*                                                                         *)
(* present and live are the entries of user_file that have a row, and that *)
(* are not in the recycle bin: this module reads them and leaves them to   *)
(* others, a purge takes the shares of its file along (DropShares).        *)
(* pc[s] is the next call of a request, of the owner or of a visitor.      *)
(***************************************************************************)
EXTENDS Integers, FiniteSets

CONSTANTS
    Clients,       \* requests about shares that are served at a time
    Files,         \* entries that may be shared
    MaxShares,     \* bound on file_share ids
    MaxCalls,      \* bound on the requests of a behaviour
    CreateRaces,   \* two CreateShare requests may overlap
    Null

(* What is assumed of these constants (Views). *)
SharesConstants ==
    /\ MaxShares \in Nat
    /\ MaxCalls \in Nat
    /\ CreateRaces \in BOOLEAN
    /\ Null \notin Nat

Ids == 1 .. MaxShares

VARIABLES
    present, live,  \* entries with a user_file row, those with is_deleted = 0
    used,       \* the last autoincrement id of file_share
    rows,       \* ids whose file_share row exists
    open,       \* those with status = 0
    fileOf,     \* file_id
    timed,      \* ids created with an expire_at
    due,        \* the timed ids whose expire_at has passed
    keys,       \* ids whose key exists in Redis
    events,     \* expired events of Redis the listener has not handled
    log,        \* number of share_access_log rows of a share
    pc, req,    \* next call and local variables of each request
    calls       \* requests that may still be made

fileVars == <<present, live>>
rowVars  == <<used, rows, open, fileOf, timed, log>>
timeVars == <<due, keys, events>>
vars == <<fileVars, rowVars, timeVars, pc, req, calls>>

Creating == {"existing", "close", "insert", "setkey"}
Steps == Creating \cup {"idle", "get", "find", "expire", "file", "log"}

(* file, timed: of CreateShare; id: the share in hand; late: it had expired or *)
(* its file was purged when the visit began (no part of the program).          *)
NoArgs == [file |-> Null, timed |-> FALSE, id |-> Null, late |-> FALSE]

TypeOK ==
    /\ live \subseteq present /\ present \subseteq Files
    /\ used \in 0 .. MaxShares
    /\ rows \subseteq 1 .. used
    /\ open \subseteq rows
    /\ fileOf \in [Ids -> Files \cup {Null}]
    /\ \A id \in rows : fileOf[id] \in present
    /\ timed \subseteq 1 .. used
    /\ due \subseteq timed /\ events \subseteq due
    /\ keys \subseteq timed \ due
    /\ log \in [Ids -> Nat]
    /\ pc \in [Clients -> Steps]
    /\ req \in [Clients -> [file : Files \cup {Null}, timed : BOOLEAN,
                            id : Ids \cup {Null}, late : BOOLEAN]]
    /\ calls \in 0 .. MaxCalls

Init ==
    /\ used = 0
    /\ rows = {} /\ open = {} /\ timed = {}
    /\ fileOf = [id \in Ids |-> Null]
    /\ due = {} /\ keys = {} /\ events = {}
    /\ log = [id \in Ids |-> 0]
    /\ pc = [c \in Clients |-> "idle"]
    /\ req = [c \in Clients |-> NoArgs]
    /\ calls = MaxCalls

-----------------------------------------------------------------------------
At(c, step) == pc[c] = step
Goto(c, step, args) ==
    /\ pc' = [pc EXCEPT ![c] = step]
    /\ req' = [req EXCEPT ![c] = args]
Step(c, step) == Goto(c, step, req[c])
Return(c) == Goto(c, "idle", NoArgs)

Request(c) ==
    /\ At(c, "idle")
    /\ calls > 0
    /\ calls' = calls - 1

(* The newest open row of a file, and UPDATE status = 1. *)
Newest(f, id) ==
    /\ id \in open /\ fileOf[id] = f
    /\ \A other \in open : fileOf[other] = f => other <= id
Close(id) == open' = open \ {id}

-----------------------------------------------------------------------------
(* CreateShare: CheckFileOwner, then the newest open share of the file, which *)
(* must have expired; it is closed before the new one is inserted.            *)
CreateShare(c) == \E f \in live, t \in BOOLEAN :
    /\ Request(c)
    /\ CreateRaces \/ \A other \in Clients : pc[other] \notin Creating
    /\ Goto(c, "existing", [NoArgs EXCEPT !.file = f, !.timed = t])
    /\ UNCHANGED <<fileVars, rowVars, timeVars>>

(* mutant: any expiration makes way for a new share *)
FindAnyTimed(c) ==
    /\ At(c, "existing")
    /\ \/ /\ ~ \E id \in open : Newest(req[c].file, id)
          /\ Step(c, "insert")
       \/ \E id \in open :
             /\ Newest(req[c].file, id)
             /\ IF id \in timed THEN Step(c, "insert") ELSE Return(c)
    /\ UNCHANGED <<fileVars, rowVars, timeVars, calls>>

FindExisting(c) ==
    /\ At(c, "existing")
    /\ \/ /\ ~ \E id \in open : Newest(req[c].file, id)
          /\ Step(c, "insert")
       \/ \E id \in open :
             /\ Newest(req[c].file, id)
             /\ IF id \in due THEN Goto(c, "close", [req[c] EXCEPT !.id = id]) ELSE Return(c)
    /\ UNCHANGED <<fileVars, rowVars, timeVars, calls>>

CloseExisting(c) ==
    /\ At(c, "close")
    /\ Close(req[c].id)
    /\ Step(c, "insert")
    /\ UNCHANGED <<fileVars, used, rows, fileOf, timed, log, timeVars, calls>>

(* The foreign key refuses a share of a file that was purged meanwhile. *)
InsertShare(c) ==
    LET f == req[c].file
        id == used + 1
    IN /\ At(c, "insert")
       /\ IF f \in present /\ used < MaxShares
            THEN /\ used' = id
                 /\ rows' = rows \cup {id}
                 /\ open' = open \cup {id}
                 /\ fileOf' = [fileOf EXCEPT ![id] = f]
                 /\ timed' = IF req[c].timed THEN timed \cup {id} ELSE timed
                 /\ IF req[c].timed THEN Goto(c, "setkey", [req[c] EXCEPT !.id = id]) ELSE Return(c)
            ELSE Return(c) /\ UNCHANGED <<used, rows, open, fileOf, timed>>
       /\ UNCHANGED <<fileVars, log, timeVars, calls>>

(* A share that expires has a key with its time to live; the SET may fail. *)
SetKey(c) ==
    /\ At(c, "setkey")
    /\ keys' \in {keys, keys \cup {req[c].id}}
    /\ Return(c)
    /\ UNCHANGED <<fileVars, rowVars, due, events, calls>>

-----------------------------------------------------------------------------
(* ShareDownload with the right extract code (a wrong one ends the visit). *)
Visit(c) == \E id \in 1 .. used :
    /\ Request(c)
    /\ Goto(c, "get", [NoArgs EXCEPT !.id = id, !.late = id \in due \/ fileOf[id] \notin present])
    /\ UNCHANGED <<fileVars, rowVars, timeVars>>

(* CheckShare: Redis has the share, or no key; ... *)
GetKey(c) ==
    /\ At(c, "get")
    /\ Step(c, IF req[c].id \in keys THEN "file" ELSE "find")
    /\ UNCHANGED <<fileVars, rowVars, timeVars, calls>>

(* mutant: the row's expire_at is not looked at *)
FindUndated(c) ==
    /\ At(c, "find")
    /\ IF req[c].id \in open THEN Step(c, "file") ELSE Return(c)
    /\ UNCHANGED <<fileVars, rowVars, timeVars, calls>>

(* ... then the row is asked, which must be open and not have expired. *)
FindShare(c) ==
    /\ At(c, "find")
    /\ IF req[c].id \in open
         THEN Step(c, IF req[c].id \in due THEN "expire" ELSE "file")
         ELSE Return(c)
    /\ UNCHANGED <<fileVars, rowVars, timeVars, calls>>

CloseExpired(c) ==
    /\ At(c, "expire")
    /\ Close(req[c].id)
    /\ Return(c)
    /\ UNCHANGED <<fileVars, used, rows, fileOf, timed, log, timeVars, calls>>

(* GetUserFileById: the key of a share outlives its file. *)
OpenFile(c) ==
    /\ At(c, "file")
    /\ IF fileOf[req[c].id] \in live THEN Step(c, "log") ELSE Return(c)
    /\ UNCHANGED <<fileVars, rowVars, timeVars, calls>>

(* The bytes are sent and LogShareAccess inserts its row, or neither. *)
LogAccess(c) ==
    /\ At(c, "log")
    /\ log' \in {log, [log EXCEPT ![req[c].id] = @ + 1]}
    /\ Return(c)
    /\ UNCHANGED <<fileVars, used, rows, open, fileOf, timed, timeVars, calls>>

-----------------------------------------------------------------------------
(* expire_at passes; Redis answers no more for the key and tells subscribers, *)
(* if there are any.  It does not pass between the INSERT and the SET.        *)
FallDue(id) ==
    /\ id \in timed \ due
    /\ \A c \in Clients : At(c, "setkey") => req[c].id # id
    /\ due' = due \cup {id}
    /\ keys' = keys \ {id}
    /\ events' \in {events, events \cup ({id} \cap keys)}
    /\ UNCHANGED <<fileVars, rowVars, pc, req, calls>>

HandleShareExpired(id) ==
    /\ id \in events
    /\ events' = events \ {id}
    /\ Close(id)
    /\ UNCHANGED <<fileVars, used, rows, fileOf, timed, log, due, keys, pc, req, calls>>

(* ON DELETE CASCADE of file_share.file_id, when file f is purged. *)
DropShares(f) ==
    /\ rows' = {id \in rows : fileOf[id] # f}
    /\ open' = {id \in open : fileOf[id] # f}
    /\ UNCHANGED <<used, fileOf, timed, log, timeVars, pc, req, calls>>

Create(c) == CreateShare(c) \/ FindExisting(c) \/ CloseExisting(c) \/ InsertShare(c) \/ SetKey(c)
Serve(c) ==
    GetKey(c) \/ FindShare(c) \/ CloseExpired(c) \/ OpenFile(c) \/ LogAccess(c)

Next ==
    \/ \E c \in Clients : Create(c) \/ Visit(c) \/ Serve(c)
    \/ \E id \in Ids : FallDue(id) \/ HandleShareExpired(id)

-----------------------------------------------------------------------------
(* Properties. *)

(* Who comes after expire_at or after the purge of the file is not served,     *)
(* whether the key is gone, was never set or has outlived the row, and whether *)
(* the listener was there or the share was replaced meanwhile                  *)
(* (share_file.go:82, handler/share_file.go:60).                               *)
LateNotServed == \A c \in Clients : At(c, "log") => ~ req[c].late

(* As long as requests to create them do not overlap, a file has one share     *)
(* that is open and has not expired (share_file.go:31).                        *)
OneOpenShare == ~ CreateRaces =>
    \A a, b \in open \ due : fileOf[a] = fileOf[b] => a = b

=============================================================================

------------------------------ MODULE Accounts ------------------------------
(***************************************************************************)
(* Registration, activation by a link in a mail, and the profile with its  *)
(* cache (handler/register.go, service/user.go, service/user_profile.go).  *)
(*                                                                         *)
(* An account is a row of user_db, a name and an email.  pc[c] is the next *)
(* SQL statement or Redis call of a request.                               *)
(***************************************************************************)
EXTENDS Integers, FiniteSets

CONSTANTS
    Clients,       \* requests that are served at a time
    Names, Emails,
    Faults,        \* what goes wrong: a subset of FaultNames
    MaxTokens,     \* bound on activation links
    MaxRequests,   \* bound on the requests of a behaviour
    Null

(* stop: the API dies, or a Redis call of Activate fails, whose error it does *)
(* not look at; expired: a link, or the note that it was used, is 10 minutes  *)
(* old.                                                                       *)
FaultNames == {"stop", "expired"}

ASSUME AccountsAssumption ==
    /\ Faults \subseteq FaultNames
    /\ MaxTokens \in Nat
    /\ MaxRequests \in Nat
    /\ Null \notin Nat /\ Null \notin [name : Names, email : Emails]

Tokens == 1 .. MaxTokens
(* No link makes two accounts, so links bound the rows.  AccountOnce checks it. *)
Ids == 1 .. (MaxTokens + 1)
Data == [name : Names, email : Emails]

VARIABLES
    form,       \* what was registered under a token, or Null
    pending,    \* tokens with a key register:<token>
    spent,      \* tokens with a key register_used:<token>
    user,       \* the rows of user_db
    maker,      \* the token a row was made of; no part of the program
    cache,      \* user:info:<id>: a row as it was, or Null
    pc, req,    \* next call and local variables of each request
    told,       \* what the clicks on a link were answered
    excuse,     \* what has happened to a link; no part of the program
    doubts,     \* ids whose cached row was written behind a change; likewise
    left        \* requests that may still be made

linkVars == <<form, pending, spent>>
userVars == <<user, maker>>
auxVars  == <<told, excuse, doubts>>
vars == <<linkVars, userVars, cache, pc, req, auxVars, left>>

Activating == {"get", "used", "create", "seed", "del", "mark"}
Steps == Activating \cup {"idle", "name", "email", "token", "count", "update", "invalidate",
                          "read", "select", "fill"}

(* data: the form of a registration, the row read or the email wanted; *)
(* raced: the row was changed since (no part of the program).          *)
NoArgs == [token |-> Null, id |-> Null, data |-> Null, raced |-> FALSE]

TypeOK ==
    /\ \A t \in Tokens : form[t] \in Data \cup {Null}
    /\ pending \cup spent \subseteq {t \in Tokens : form[t] # Null}
    /\ \A i \in Ids : user[i] \in Data \cup {Null} /\ cache[i] \in Data \cup {Null}
    /\ maker \in [Ids -> Tokens \cup {Null}]
    /\ pc \in [Clients -> Steps]
    /\ req \in [Clients -> [token : Tokens \cup {Null}, id : Ids \cup {Null},
                            data : Data \cup {Null}, raced : BOOLEAN]]
    /\ told \in [Tokens -> SUBSET {"activated", "already", "invalid", "taken", "duplicate"}]
    /\ excuse \in [Tokens -> SUBSET {"overlap", "stop", "expired"}]
    /\ doubts \subseteq Ids
    /\ left \in 0 .. MaxRequests

Init ==
    /\ form = [t \in Tokens |-> Null]
    /\ pending = {} /\ spent = {}
    /\ user = [i \in Ids |-> Null]
    /\ maker = [i \in Ids |-> Null]
    /\ cache = [i \in Ids |-> Null]
    /\ pc = [c \in Clients |-> "idle"]
    /\ req = [c \in Clients |-> NoArgs]
    /\ told = [t \in Tokens |-> {}]
    /\ excuse = [t \in Tokens |-> {}]
    /\ doubts = {}
    /\ left = MaxRequests

-----------------------------------------------------------------------------
At(c, step) == pc[c] = step
Goto(c, step, args) ==
    /\ pc' = [pc EXCEPT ![c] = step]
    /\ req' = [req EXCEPT ![c] = args]
Step(c, step) == Goto(c, step, req[c])
Return(c) == Goto(c, "idle", NoArgs)
Proceed(c, ok, step) == IF ok THEN Step(c, step) ELSE Return(c)

Begin(c, step, args) ==
    /\ At(c, "idle")
    /\ left > 0
    /\ left' = left - 1
    /\ Goto(c, step, args)

Rows == {i \in Ids : user[i] # Null}
NextOf(S, i) == i \notin S /\ \A j \in 1 .. (i - 1) : j \in S

(* Answer the click and note what it was told. *)
Tell(c, answer) ==
    /\ Return(c)
    /\ told' = [told EXCEPT ![req[c].token] = @ \cup {answer}]

-----------------------------------------------------------------------------
(* Register: neither name nor email may be an account's; then the form is put *)
(* into Redis under a new token and the link is mailed.                       *)
Register(c) == \E d \in Data :
    /\ Begin(c, "name", [NoArgs EXCEPT !.data = d])
    /\ UNCHANGED <<linkVars, userVars, cache, auxVars>>

CheckName(c) ==
    /\ At(c, "name")
    /\ Proceed(c, \A i \in Rows : user[i].name # req[c].data.name, "email")
    /\ UNCHANGED <<linkVars, userVars, cache, auxVars, left>>

CheckEmail(c) ==
    /\ At(c, "email")
    /\ Proceed(c, \A i \in Rows : user[i].email # req[c].data.email, "token")
    /\ UNCHANGED <<linkVars, userVars, cache, auxVars, left>>

(* mutant: the form is stored under another token than the mailed one *)
SetOtherToken(c) ==
    /\ At(c, "token")
    /\ \E t \in Tokens : /\ NextOf({u \in Tokens : form[u] # Null}, t)
                         /\ form' = [form EXCEPT ![t] = req[c].data]
                         /\ pending' = pending \cup {t + 1}
    /\ Return(c)
    /\ UNCHANGED <<spent, userVars, cache, auxVars, left>>

SetToken(c) ==
    /\ At(c, "token")
    /\ \E t \in Tokens : /\ NextOf({u \in Tokens : form[u] # Null}, t)
                         /\ form' = [form EXCEPT ![t] = req[c].data]
                         /\ pending' = pending \cup {t}
    /\ Return(c)
    /\ UNCHANGED <<spent, userVars, cache, auxVars, left>>

-----------------------------------------------------------------------------
(* Activate. *)
Click(c) == \E t \in Tokens :
    LET others == {o \in Clients : pc[o] \in Activating /\ req[o].token = t}
    IN /\ form[t] # Null
       /\ Begin(c, "get", [NoArgs EXCEPT !.token = t])
       /\ excuse' = [excuse EXCEPT ![t] = @ \cup IF others # {} THEN {"overlap"} ELSE {}]
       /\ UNCHANGED <<linkVars, userVars, cache, told, doubts>>

GetToken(c) ==
    /\ At(c, "get")
    /\ Step(c, IF req[c].token \in pending THEN "create" ELSE "used")
    /\ UNCHANGED <<linkVars, userVars, cache, auxVars, left>>

CheckUsed(c) ==
    /\ At(c, "used")
    /\ Tell(c, IF req[c].token \in spent THEN "already" ELSE "invalid")
    /\ UNCHANGED <<linkVars, userVars, cache, excuse, doubts, left>>

(* mutant: user_name is not unique *)
ClashesByEmail(d, i) == user[i].email = d.email

(* The unique user_name and email of user_db. *)
Clashes(d, i) == user[i].name = d.name \/ user[i].email = d.email

CreateUser(c) ==
    LET t == req[c].token
        clashes == {i \in Rows : Clashes(form[t], i)}
    IN /\ At(c, "create")
       /\ \/ \E i \in Ids :
                /\ clashes = {}
                /\ NextOf(Rows, i)
                /\ user' = [user EXCEPT ![i] = form[t]]
                /\ maker' = [maker EXCEPT ![i] = t]
                /\ Goto(c, "seed", [req[c] EXCEPT !.id = i])
                /\ UNCHANGED told
          \/ /\ clashes # {}
             /\ Tell(c, IF \E i \in clashes : maker[i] = t THEN "duplicate" ELSE "taken")
             /\ UNCHANGED userVars
       /\ UNCHANGED <<linkVars, cache, excuse, doubts, left>>

(* SetUserInfoToCache, of id as d. *)
Cached(c, i, d) ==
    /\ cache' = [cache EXCEPT ![i] = d]
    /\ doubts' = IF req[c].raced THEN doubts \cup {i} ELSE doubts \ {i}

SeedCache(c) ==
    /\ At(c, "seed")
    /\ Cached(c, req[c].id, form[req[c].token])
    /\ Step(c, "del")
    /\ UNCHANGED <<linkVars, userVars, told, excuse, left>>

(* mutant: the link is only deleted, not noted as used *)
DelAndAnswer(c) ==
    /\ At(c, "del")
    /\ pending' = pending \ {req[c].token}
    /\ Tell(c, "activated")
    /\ UNCHANGED <<form, spent, userVars, cache, excuse, doubts, left>>

DelToken(c) ==
    /\ At(c, "del")
    /\ pending' = pending \ {req[c].token}
    /\ Step(c, "mark")
    /\ UNCHANGED <<form, spent, userVars, cache, auxVars, left>>

MarkUsed(c) ==
    /\ At(c, "mark")
    /\ spent' = spent \cup {req[c].token}
    /\ Tell(c, "activated")
    /\ UNCHANGED <<form, pending, userVars, cache, excuse, doubts, left>>

-----------------------------------------------------------------------------
(* UpdateUserProfile with a new email. *)
UpdateProfile(c) == \E i \in Rows, e \in Emails :
    /\ Begin(c, "count", [NoArgs EXCEPT !.id = i, !.data = [user[i] EXCEPT !.email = e]])
    /\ UNCHANGED <<linkVars, userVars, cache, auxVars>>

CountEmail(c) ==
    LET email == req[c].data.email
    IN /\ At(c, "count")
       /\ Proceed(c, \A i \in Rows \ {req[c].id} : user[i].email # email, "update")
       /\ UNCHANGED <<linkVars, userVars, cache, auxVars, left>>

(* A taken email is refused by the index, and one that is the same already    *)
(* affects no row: both end here.  Others that have read the row are told.    *)
UpdateUser(c) ==
    LET i == req[c].id
        email == req[c].data.email
    IN /\ At(c, "update")
       /\ \/ /\ \A j \in Rows : user[j].email # email
             /\ user' = [user EXCEPT ![i].email = email]
             /\ pc' = [pc EXCEPT ![c] = "invalidate"]
             /\ req' = [o \in Clients |->
                           IF o # c /\ req[o].id = i THEN [req[o] EXCEPT !.raced = TRUE] ELSE req[o]]
          \/ /\ \E j \in Rows : user[j].email = email
             /\ Return(c)
             /\ UNCHANGED user
       /\ UNCHANGED <<linkVars, maker, cache, auxVars, left>>

(* mutant: the cached profile is kept *)
KeepProfile(c) ==
    /\ At(c, "invalidate")
    /\ Step(c, "read")
    /\ UNCHANGED <<linkVars, userVars, cache, auxVars, left>>

Invalidate(c) ==
    /\ At(c, "invalidate")
    /\ cache' = [cache EXCEPT ![req[c].id] = Null]
    /\ doubts' = doubts \ {req[c].id}
    /\ Step(c, "read")
    /\ UNCHANGED <<linkVars, userVars, told, excuse, left>>

(* GetUserProfileByID, also the answer of an update. *)
GetProfile(c) == \E i \in Rows :
    /\ Begin(c, "read", [NoArgs EXCEPT !.id = i])
    /\ UNCHANGED <<linkVars, userVars, cache, auxVars>>

ReadCache(c) ==
    /\ At(c, "read")
    /\ Proceed(c, cache[req[c].id] = Null, "select")
    /\ UNCHANGED <<linkVars, userVars, cache, auxVars, left>>

SelectUser(c) ==
    /\ At(c, "select")
    /\ Goto(c, "fill", [req[c] EXCEPT !.data = user[req[c].id], !.raced = FALSE])
    /\ UNCHANGED <<linkVars, userVars, cache, auxVars, left>>

FillCache(c) ==
    /\ At(c, "fill")
    /\ Cached(c, req[c].id, req[c].data)
    /\ Return(c)
    /\ UNCHANGED <<linkVars, userVars, told, excuse, left>>

-----------------------------------------------------------------------------
(* An activation goes no further, or goes on without its Redis call. *)
Stop(c) ==
    /\ "stop" \in Faults
    /\ pc[c] \in {"create", "seed", "del", "mark"}
    /\ excuse' = [excuse EXCEPT ![req[c].token] = @ \cup {"stop"}]
    /\ \/ Return(c) /\ UNCHANGED told
       \/ At(c, "seed") /\ Step(c, "del") /\ UNCHANGED told
       \/ At(c, "del") /\ Step(c, "mark") /\ UNCHANGED told
       \/ At(c, "mark") /\ Tell(c, "activated")
    /\ UNCHANGED <<linkVars, userVars, cache, doubts, left>>

TokenExpires(t) ==
    /\ "expired" \in Faults
    /\ t \in pending \cup spent
    /\ pending' = pending \ {t}
    /\ spent' = IF t \in pending THEN spent ELSE spent \ {t}
    /\ excuse' = [excuse EXCEPT ![t] = @ \cup {"expired"}]
    /\ UNCHANGED <<form, userVars, cache, pc, req, told, doubts, left>>

ProfileExpires(i) ==
    /\ cache[i] # Null
    /\ cache' = [cache EXCEPT ![i] = Null]
    /\ doubts' = doubts \ {i}
    /\ UNCHANGED <<linkVars, userVars, pc, req, told, excuse, left>>

Registering(c) == Register(c) \/ CheckName(c) \/ CheckEmail(c) \/ SetToken(c)
Activation(c) ==
    Click(c) \/ GetToken(c) \/ CheckUsed(c) \/ CreateUser(c) \/ SeedCache(c)
    \/ DelToken(c) \/ MarkUsed(c)
Profile(c) ==
    UpdateProfile(c) \/ CountEmail(c) \/ UpdateUser(c) \/ Invalidate(c)
    \/ GetProfile(c) \/ ReadCache(c) \/ SelectUser(c) \/ FillCache(c)

Next ==
    \/ \E c \in Clients : Registering(c) \/ Activation(c) \/ Profile(c) \/ Stop(c)
    \/ \E t \in Tokens : TokenExpires(t)
    \/ \E i \in Ids : ProfileExpires(i)

Spec == Init /\ [][Next]_vars

-----------------------------------------------------------------------------
(* Properties. *)

(* A link makes one account at most, however often and by how many it is      *)
(* clicked, whatever becomes of its keys, and although the owner may change   *)
(* his email before the next click (handler/register.go:126).                 *)
AccountOnce == \A i, j \in Rows : maker[i] = maker[j] => i = j

(* A click is told that the link is invalid, or that the account exists, only *)
(* if the link is old, clicks overlapped or an activation broke off: whoever  *)
(* clicks twice, one after the other, is told twice that all is well          *)
(* (handler/register.go:133).                                                 *)
AnswersTrue == \A t \in Tokens :
    /\ "invalid" \in told[t] => excuse[t] # {}
    /\ "duplicate" \in told[t] => excuse[t] \cap {"overlap", "stop"} # {}

(* A cached profile that differs from the row is about to be invalidated, or  *)
(* was written by a request that had its row from before a change             *)
(* (user_profile.go:105, user.go:23).                                         *)
ProfileExplained == \A i \in Rows : cache[i] \notin {Null, user[i]} =>
    \/ \E c \in Clients : At(c, "invalidate") /\ req[c].id = i
    \/ i \in doubts

=============================================================================

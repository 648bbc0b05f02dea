--------------------------- MODULE AccountsProofs ---------------------------
(* Theorems about Accounts, for any number of clients, names, links and *)
(* requests.                                                            *)
EXTENDS Accounts, TLAPS

Args == [token : Tokens \cup {Null}, id : Ids \cup {Null}, data : Data \cup {Null}, raced : BOOLEAN]

(* What the step a client is at says of its local variables. *)
Fits(c) ==
    /\ pc[c] \in Activating => req[c].token \in Tokens /\ form[req[c].token] # Null
    /\ pc[c] \in {"name", "email", "token", "count", "update", "fill"} => req[c].data \in Data
    /\ pc[c] \in {"seed", "count", "update", "invalidate", "read", "select", "fill"} =>
           req[c].id \in Ids /\ user[req[c].id] # Null

(* A row was made from a form and kept its name; only rows are cached. *)
Made(i) ==
    /\ user[i] # Null => /\ maker[i] \in Tokens /\ form[maker[i]] # Null
                         /\ user[i].name = form[maker[i]].name
    /\ user[i] = Null => cache[i] = Null

Shape ==
    /\ form = [t \in Tokens |-> form[t]]
    /\ user = [i \in Ids |-> user[i]]
    /\ cache = [i \in Ids |-> cache[i]]
    /\ \A c \in Clients : Fits(c)
    /\ \A i \in Ids : Made(i)

(* Forms are never changed and rows never deleted. *)
Kept ==
    /\ \A t \in Tokens : form[t] # Null => form'[t] = form[t]
    /\ \A i \in Ids : user[i] # Null => user'[i] # Null

-----------------------------------------------------------------------------
LEMMA Nulls == Null \notin Tokens /\ Null \notin Ids /\ Null \notin Data
  BY AccountsAssumption DEF Tokens, Ids, Data

LEMMA NoArgsType == NoArgs \in Args
  BY DEF NoArgs, Args

(* A client that goes on leaves the others where they are. *)
LEMMA GotoFacts ==
    ASSUME TypeOK, NEW c \in Clients, NEW step \in Steps, NEW args \in Args, Goto(c, step, args)
    PROVE  /\ pc' \in [Clients -> Steps] /\ req' \in [Clients -> Args]
           /\ pc'[c] = step /\ req'[c] = args
           /\ \A o \in Clients \ {c} : pc'[o] = pc[o] /\ req'[o] = req[o]
  BY DEF TypeOK, Goto, Args

(* What a client relies on stays, whatever else changes. *)
LEMMA FitsKept ==
    ASSUME TypeOK, Kept, NEW c \in Clients, Fits(c), pc'[c] = pc[c],
           req'[c].token = req[c].token, req'[c].id = req[c].id, req'[c].data = req[c].data
    PROVE  Fits(c)'
  BY DEF Kept, Fits

LEMMA ReqType ==
    ASSUME TypeOK, NEW c \in Clients
    PROVE  /\ pc[c] \in Steps /\ req[c] \in Args
           /\ req[c].token \in Tokens \cup {Null} /\ req[c].id \in Ids \cup {Null}
           /\ req[c].data \in Data \cup {Null} /\ req[c].raced \in BOOLEAN
  BY DEF TypeOK, Args

(* The part of the invariant that a step of one client disturbs. *)
LEMMA ClientMoves ==
    ASSUME TypeOK, Shape, Kept, NEW c \in Clients, NEW step \in Steps, NEW args \in Args,
           Goto(c, step, args), Fits(c)'
    PROVE  /\ pc' \in [Clients -> Steps] /\ req' \in [Clients -> Args]
           /\ \A o \in Clients : Fits(o)'
<1>1. \A o \in Clients \ {c} : Fits(o)'
  BY GotoFacts, FitsKept DEF Shape
<1> QED BY <1>1, GotoFacts

LEMMA StayedKept ==
    ASSUME UNCHANGED <<form, user>>
    PROVE  Kept
  BY DEF Kept

(* A step of one client that changes neither keys nor rows. *)
LEMMA QuietStep ==
    ASSUME TypeOK, Shape, NEW c \in Clients, NEW step \in Steps, NEW args \in Args,
           Goto(c, step, args), Fits(c)', UNCHANGED <<linkVars, userVars, cache>>,
           told' \in [Tokens -> SUBSET {"activated", "already", "invalid", "taken", "duplicate"}],
           excuse' \in [Tokens -> SUBSET {"overlap", "stop", "expired"}],
           doubts' \subseteq Ids, left' \in 0 .. MaxRequests
    PROVE  TypeOK' /\ Shape'
<1>1. Kept
  BY StayedKept DEF linkVars, userVars
<1>2. pc' \in [Clients -> Steps] /\ req' \in [Clients -> Args] /\ \A o \in Clients : Fits(o)'
  BY <1>1, ClientMoves
<1>3. \A i \in Ids : Made(i)'
  BY DEF Shape, Made, linkVars, userVars
<1> QED BY <1>2, <1>3 DEF TypeOK, Shape, Args, linkVars, userVars

LEMMA ReturnFits ==
    ASSUME NEW c \in Clients, pc'[c] = "idle"
    PROVE  Fits(c)'
  BY DEF Fits, Activating

-----------------------------------------------------------------------------
Quiet(c) ==
    \/ Register(c) \/ CheckName(c) \/ CheckEmail(c) \/ Click(c) \/ GetToken(c) \/ CheckUsed(c)
    \/ UpdateProfile(c) \/ CountEmail(c) \/ GetProfile(c) \/ ReadCache(c) \/ SelectUser(c) \/ Stop(c)

(* The requests' steps that only look. *)
LEMMA QuietType ==
    ASSUME TypeOK, Shape, NEW c \in Clients, Quiet(c)
    PROVE  TypeOK' /\ Shape'
<1> USE DEF At, Step, Return, Proceed, Begin, Tell, auxVars
<1>f. Fits(c) /\ req[c] \in Args /\ NoArgs \in Args
  BY ReqType, NoArgsType DEF Shape
<1>l. left \in 0 .. MaxRequests /\ (left > 0 => left - 1 \in 0 .. MaxRequests)
  BY AccountsAssumption DEF TypeOK
<1>1. CASE Register(c)
  <2>1. PICK d \in Data : Goto(c, "name", [NoArgs EXCEPT !.data = d])
    BY <1>1 DEF Register
  <2>2. [NoArgs EXCEPT !.data = d] \in Args /\ [NoArgs EXCEPT !.data = d].data = d /\ "name" \in Steps
    BY DEF NoArgs, Args, Steps
  <2>3. Fits(c)'
    BY <2>1, <2>2, GotoFacts DEF Fits, Activating
  <2> QED BY <1>1, <1>l, <2>1, <2>2, <2>3, QuietStep DEF Register, TypeOK
<1>2. ASSUME NEW step \in {"idle", "email", "token", "update", "select", "used", "create"},
             Goto(c, step, IF step = "idle" THEN NoArgs ELSE req[c]),
             UNCHANGED <<linkVars, userVars, cache, excuse, doubts, left>>,
             told' \in [Tokens -> SUBSET {"activated", "already", "invalid", "taken", "duplicate"}],
             \/ step = "idle"
             \/ pc[c] \in {"name", "email"} /\ step \in {"email", "token"}
             \/ pc[c] = "get" /\ step \in {"used", "create"}
             \/ pc[c] = "count" /\ step = "update"
             \/ pc[c] = "read" /\ step = "select"
      PROVE  TypeOK' /\ Shape'
  <2> DEFINE args == IF step = "idle" THEN NoArgs ELSE req[c]
  <2>1. args \in Args /\ step \in Steps
    BY <1>f DEF Steps, Activating
  <2>2. pc'[c] = step /\ (step # "idle" => req'[c] = req[c])
    BY <1>2, <2>1, GotoFacts
  <2>3. UNCHANGED <<form, user>>
    BY <1>2 DEF linkVars, userVars
  <2>4. Fits(c)'
    BY <1>2, <1>f, <2>2, <2>3 DEF Fits, Activating
  <2> HIDE DEF args
  <2>5. Goto(c, step, args)
    BY <1>2 DEF args
  <2> QED BY <1>2, <2>1, <2>4, <2>5, QuietStep DEF TypeOK
<1>t. UNCHANGED told => told' \in [Tokens -> SUBSET {"activated", "already", "invalid", "taken", "duplicate"}]
  BY DEF TypeOK
<1>3. CASE CheckName(c)
  BY <1>2, <1>3, <1>t DEF CheckName
<1>4. CASE CheckEmail(c)
  BY <1>2, <1>4, <1>t DEF CheckEmail
<1>5. CASE GetToken(c)
  BY <1>2, <1>5, <1>t DEF GetToken
<1>6. CASE CheckUsed(c)
  BY <1>2, <1>6 DEF CheckUsed, TypeOK
<1>7. CASE CountEmail(c)
  BY <1>2, <1>7, <1>t DEF CountEmail
<1>8. CASE ReadCache(c)
  BY <1>2, <1>8, <1>t DEF ReadCache
<1>9. CASE Click(c)
  <2>1. PICK t \in Tokens : /\ form[t] # Null
                           /\ Goto(c, "get", [NoArgs EXCEPT !.token = t])
    BY <1>9 DEF Click
  <2>2. [NoArgs EXCEPT !.token = t] \in Args /\ [NoArgs EXCEPT !.token = t].token = t /\ "get" \in Steps
    BY DEF NoArgs, Args, Steps, Activating
  <2>u. UNCHANGED form
    BY <1>9 DEF Click, linkVars
  <2>v. /\ pc'[c] = "get" /\ req'[c] = [NoArgs EXCEPT !.token = t]
    BY <2>1, <2>2, GotoFacts
  <2>3. Fits(c)'
    BY <2>1, <2>2, <2>u, <2>v DEF Fits, Activating
  <2>4. excuse' \in [Tokens -> SUBSET {"overlap", "stop", "expired"}]
    BY <1>9 DEF Click, TypeOK
  <2> QED BY <1>9, <1>l, <2>1, <2>2, <2>3, <2>4, QuietStep DEF Click, TypeOK
<1>10. CASE UpdateProfile(c)
  <2>1. PICK i \in Rows, e \in Emails :
             Goto(c, "count", [NoArgs EXCEPT !.id = i, !.data = [user[i] EXCEPT !.email = e]])
    BY <1>10 DEF UpdateProfile
  <2> DEFINE d == [user[i] EXCEPT !.email = e]
             args == [NoArgs EXCEPT !.id = i, !.data = d]
  <2>2. i \in Ids /\ user[i] # Null /\ user[i] \in Data
    BY DEF Rows, TypeOK
  <2>3. d \in Data
    BY <2>2 DEF Data
  <2> HIDE DEF d
  <2>4. args \in Args /\ args.id = i /\ args.data = d /\ "count" \in Steps
    BY <2>2, <2>3 DEF NoArgs, Args, Steps
  <2> HIDE DEF args
  <2>5. Goto(c, "count", args)
    BY <2>1 DEF args, d
  <2>6. Fits(c)'
    BY <1>10, <2>2, <2>3, <2>4, <2>5, GotoFacts DEF Fits, Activating, UpdateProfile, userVars
  <2> QED BY <1>10, <1>l, <2>4, <2>5, <2>6, QuietStep DEF UpdateProfile, TypeOK
<1>11. CASE GetProfile(c)
  <2>1. PICK i \in Rows : Goto(c, "read", [NoArgs EXCEPT !.id = i])
    BY <1>11 DEF GetProfile
  <2>2. i \in Ids /\ user[i] # Null
    BY DEF Rows
  <2>3. [NoArgs EXCEPT !.id = i] \in Args /\ [NoArgs EXCEPT !.id = i].id = i /\ "read" \in Steps
    BY <2>2 DEF NoArgs, Args, Steps
  <2>4. Fits(c)'
    BY <1>11, <2>1, <2>2, <2>3, GotoFacts DEF Fits, Activating, GetProfile, userVars
  <2> QED BY <1>11, <1>l, <2>1, <2>3, <2>4, QuietStep DEF GetProfile, TypeOK
<1>12. CASE SelectUser(c)
  <2> DEFINE args == [req[c] EXCEPT !.data = user[req[c].id], !.raced = FALSE]
  <2>1. req[c].id \in Ids /\ user[req[c].id] \in Data
    BY <1>12, <1>f DEF Fits, SelectUser, TypeOK
  <2>2. args \in Args /\ args.id = req[c].id /\ args.data = user[req[c].id] /\ "fill" \in Steps
    BY <1>f, <2>1 DEF Args, Steps
  <2>3. Fits(c)'
    BY <1>12, <2>1, <2>2, GotoFacts, Nulls DEF Fits, Activating, SelectUser, userVars
  <2> QED BY <1>12, <2>2, <2>3, QuietStep DEF SelectUser, TypeOK
<1>13. CASE Stop(c)
  <2>1. PICK step \in {"idle", "del", "mark"} : Goto(c, step, IF step = "idle" THEN NoArgs ELSE req[c])
    BY <1>13 DEF Stop
  <2> DEFINE args == IF step = "idle" THEN NoArgs ELSE req[c]
  <2>2. args \in Args /\ step \in Steps
    BY <1>f DEF Steps, Activating
  <2>3. pc'[c] = step /\ (step # "idle" => req'[c] = req[c])
    BY <2>1, <2>2, GotoFacts
  <2>4. Fits(c)'
    BY <1>13, <1>f, <2>3 DEF Fits, Activating, Stop, linkVars, userVars
  <2>5. /\ told' \in [Tokens -> SUBSET {"activated", "already", "invalid", "taken", "duplicate"}]
        /\ excuse' \in [Tokens -> SUBSET {"overlap", "stop", "expired"}]
    <3>1. excuse' \in [Tokens -> SUBSET {"overlap", "stop", "expired"}]
      BY <1>13 DEF Stop, TypeOK
    <3>2. told' = told \/ told' = [told EXCEPT ![req[c].token] = @ \cup {"activated"}]
      BY <1>13 DEF Stop
    <3> QED BY <3>1, <3>2 DEF TypeOK
  <2> HIDE DEF args
  <2>6. Goto(c, step, args)
    BY <2>1 DEF args
  <2> QED BY <1>13, <2>2, <2>4, <2>5, <2>6, QuietStep DEF Stop, TypeOK
<1> QED BY <1>1, <1>3, <1>4, <1>5, <1>6, <1>7, <1>8, <1>9, <1>10, <1>11, <1>12, <1>13 DEF Quiet

-----------------------------------------------------------------------------
(* Every step keeps the types. *)
LEMMA TypeStep ==
    ASSUME TypeOK, Shape, [Next]_vars
    PROVE  TypeOK' /\ Shape'
<1> USE DEF At, Step, Return, Tell, auxVars, linkVars, userVars
<1>0. ASSUME NEW c \in Clients PROVE Fits(c) /\ req[c] \in Args /\ NoArgs \in Args
  BY <1>0, ReqType, NoArgsType DEF Shape
<1>1. ASSUME NEW c \in Clients, SetToken(c) PROVE TypeOK' /\ Shape'
  <2>1. PICK t \in Tokens : /\ form[t] = Null
                           /\ form' = [form EXCEPT ![t] = req[c].data]
                           /\ pending' = pending \cup {t}
    BY <1>1 DEF SetToken, NextOf
  <2>2. req[c].data \in Data
    BY <1>0, <1>1 DEF SetToken, Fits
  <2>3. Kept
    BY <1>1, <2>1 DEF SetToken, Kept, Shape
  <2>4. Goto(c, "idle", NoArgs) /\ "idle" \in Steps
    BY <1>1 DEF SetToken, Steps
  <2>5. Fits(c)'
    BY <1>0, <2>4, GotoFacts, ReturnFits
  <2>6. pc' \in [Clients -> Steps] /\ req' \in [Clients -> Args] /\ \A o \in Clients : Fits(o)'
    BY <1>0, <2>3, <2>4, <2>5, ClientMoves
  <2>7. /\ form' = [u \in Tokens |-> form'[u]]
        /\ \A u \in Tokens : form'[u] \in Data \cup {Null}
        /\ pending' \cup spent' \subseteq {u \in Tokens : form'[u] # Null}
    BY <1>1, <2>1, <2>2, Nulls DEF SetToken, TypeOK, Shape
  <2>8. \A i \in Ids : Made(i)'
    BY <1>1, <2>3 DEF SetToken, Shape, Made, Kept
  <2> QED BY <1>1, <2>6, <2>7, <2>8 DEF SetToken, TypeOK, Shape, Args
<1>2. ASSUME NEW c \in Clients, CreateUser(c) PROVE TypeOK' /\ Shape'
  <2> DEFINE t == req[c].token
  <2>1. t \in Tokens /\ form[t] \in Data
    BY <1>0, <1>2 DEF CreateUser, Fits, Activating, TypeOK
  <2>2. ASSUME NEW i \in Ids, NextOf(Rows, i), user' = [user EXCEPT ![i] = form[t]],
               maker' = [maker EXCEPT ![i] = t], Goto(c, "seed", [req[c] EXCEPT !.id = i]),
               UNCHANGED told
        PROVE  TypeOK' /\ Shape'
    <3> DEFINE args == [req[c] EXCEPT !.id = i]
    <3>1. user[i] = Null
      BY <2>2 DEF NextOf, Rows
    <3>2. Kept
      BY <1>2, <2>2, <3>1 DEF CreateUser, Kept, Shape
    <3>3. args \in Args /\ args.id = i /\ args.token = t /\ "seed" \in Steps
      BY <1>0, <2>1 DEF Args, Steps, Activating
    <3> HIDE DEF args
    <3>4. Goto(c, "seed", args)
      BY <2>2 DEF args
    <3>5. user'[i] # Null
      BY <2>1, <2>2, Nulls DEF Shape
    <3>6. Fits(c)'
      BY <1>0, <1>2, <2>1, <3>3, <3>4, <3>5, GotoFacts, Nulls DEF Fits, Activating, CreateUser
    <3>7. pc' \in [Clients -> Steps] /\ req' \in [Clients -> Args] /\ \A o \in Clients : Fits(o)'
      BY <3>2, <3>3, <3>4, <3>6, ClientMoves
    <3>8. /\ user' = [j \in Ids |-> user'[j]]
          /\ \A j \in Ids : user'[j] \in Data \cup {Null}
          /\ maker' \in [Ids -> Tokens \cup {Null}]
      BY <2>1, <2>2 DEF TypeOK, Shape
    <3>9. ASSUME NEW j \in Ids PROVE Made(j)'
      <4>1. CASE j = i
        BY <1>2, <2>1, <2>2, <3>5, <4>1, Nulls DEF CreateUser, TypeOK, Shape, Made
      <4>2. CASE j # i
        BY <1>2, <2>2, <4>2 DEF CreateUser, TypeOK, Shape, Made
      <4> QED BY <4>1, <4>2
    <3> QED BY <1>2, <2>2, <3>7, <3>8, <3>9 DEF CreateUser, TypeOK, Shape, Args
  <2>3. ASSUME NEW answer \in {"duplicate", "taken"}, Tell(c, answer), UNCHANGED userVars
        PROVE  TypeOK' /\ Shape'
    <3>1. Goto(c, "idle", NoArgs) /\ "idle" \in Steps
      BY <2>3 DEF Steps
    <3>2. Fits(c)'
      BY <1>0, <3>1, GotoFacts, ReturnFits
    <3>3. told' \in [Tokens -> SUBSET {"activated", "already", "invalid", "taken", "duplicate"}]
      BY <2>3 DEF TypeOK
    <3> QED BY <1>0, <1>2, <2>3, <3>1, <3>2, <3>3, QuietStep DEF CreateUser, TypeOK
  <2> QED BY <1>2, <2>2, <2>3 DEF CreateUser
<1>3. ASSUME NEW c \in Clients, NEW step \in {"idle", "del", "read"}, NEW i \in Ids,
             Goto(c, step, IF step = "idle" THEN NoArgs ELSE req[c]), pc[c] # "idle",
             step = "del" => pc[c] = "seed", step = "read" => pc[c] = "invalidate",
             \/ cache' = [cache EXCEPT ![i] = Null]
             \/ user[i] # Null /\ \E d \in Data : cache' = [cache EXCEPT ![i] = d],
             doubts' \subseteq Ids, UNCHANGED <<linkVars, userVars, told, excuse, left>>
      PROVE  TypeOK' /\ Shape'
  <2> DEFINE args == IF step = "idle" THEN NoArgs ELSE req[c]
  <2>1. args \in Args /\ step \in Steps
    BY <1>0 DEF Steps, Activating
  <2>2. pc'[c] = step /\ (step # "idle" => req'[c] = req[c])
    BY <1>3, <2>1, GotoFacts
  <2>3. Kept
    BY <1>3 DEF Kept
  <2>4. Fits(c)'
    BY <1>0, <1>3, <2>2 DEF Fits, Activating
  <2> HIDE DEF args
  <2>5. Goto(c, step, args)
    BY <1>3 DEF args
  <2>6. pc' \in [Clients -> Steps] /\ req' \in [Clients -> Args] /\ \A o \in Clients : Fits(o)'
    BY <2>1, <2>3, <2>4, <2>5, ClientMoves
  <2>7. /\ cache' = [j \in Ids |-> cache'[j]]
        /\ \A j \in Ids : cache'[j] \in Data \cup {Null} /\ Made(j)'
    BY <1>3 DEF TypeOK, Shape, Made
  <2> QED BY <1>3, <2>6, <2>7 DEF TypeOK, Shape, Args
<1>4. ASSUME NEW c \in Clients, SeedCache(c) \/ Invalidate(c) \/ FillCache(c) PROVE TypeOK' /\ Shape'
  <2>1. req[c].id \in Ids /\ user[req[c].id] # Null
    BY <1>0, <1>4 DEF SeedCache, Invalidate, FillCache, Fits
  <2>2. doubts' \subseteq Ids
    BY <1>4, <2>1 DEF SeedCache, Invalidate, FillCache, Cached, TypeOK
  <2>3. CASE SeedCache(c)
    <3>1. form[req[c].token] \in Data
      BY <1>0, <2>3 DEF SeedCache, Fits, Activating, TypeOK
    <3> QED BY <1>3, <2>1, <2>2, <2>3, <3>1 DEF SeedCache, Cached
  <2>4. CASE Invalidate(c)
    BY <1>3, <2>1, <2>2, <2>4 DEF Invalidate
  <2>5. CASE FillCache(c)
    <3>1. req[c].data \in Data
      BY <1>0, <2>5 DEF FillCache, Fits
    <3> QED BY <1>3, <2>1, <2>2, <2>5, <3>1 DEF FillCache, Cached
  <2> QED BY <1>4, <2>3, <2>4, <2>5
<1>5. ASSUME NEW c \in Clients, DelToken(c) PROVE TypeOK' /\ Shape'
  <2>1. Goto(c, "mark", req[c]) /\ "mark" \in Steps
    BY <1>5 DEF DelToken, Steps, Activating
  <2>2. Kept
    BY <1>5 DEF DelToken, Kept
  <2>3. Fits(c)'
    BY <1>0, <1>5, <2>1, GotoFacts DEF DelToken, Fits, Activating
  <2>4. pc' \in [Clients -> Steps] /\ req' \in [Clients -> Args] /\ \A o \in Clients : Fits(o)'
    BY <1>0, <2>1, <2>2, <2>3, ClientMoves
  <2>5. \A i \in Ids : Made(i)'
    BY <1>5 DEF DelToken, Shape, Made
  <2> QED BY <1>5, <2>4, <2>5 DEF DelToken, TypeOK, Shape, Args
<1>6. ASSUME NEW c \in Clients, MarkUsed(c) PROVE TypeOK' /\ Shape'
  <2>1. Goto(c, "idle", NoArgs) /\ "idle" \in Steps
    BY <1>6 DEF MarkUsed, Steps
  <2>2. Kept
    BY <1>6 DEF MarkUsed, Kept
  <2>3. Fits(c)'
    BY <1>0, <2>1, GotoFacts, ReturnFits
  <2>4. pc' \in [Clients -> Steps] /\ req' \in [Clients -> Args] /\ \A o \in Clients : Fits(o)'
    BY <1>0, <2>1, <2>2, <2>3, ClientMoves
  <2>5. \A i \in Ids : Made(i)'
    BY <1>6 DEF MarkUsed, Shape, Made
  <2>6. told' \in [Tokens -> SUBSET {"activated", "already", "invalid", "taken", "duplicate"}]
    BY <1>6 DEF MarkUsed, TypeOK
  <2>7. req[c].token \in Tokens /\ form[req[c].token] # Null
    BY <1>0, <1>6 DEF MarkUsed, Fits, Activating
  <2> QED BY <1>6, <2>4, <2>5, <2>6, <2>7 DEF MarkUsed, TypeOK, Shape, Args
<1>7. ASSUME NEW c \in Clients, UpdateUser(c) PROVE TypeOK' /\ Shape'
  <2> DEFINE i == req[c].id
             email == req[c].data.email
  <2>1. i \in Ids /\ user[i] \in Data /\ email \in Emails
    BY <1>0, <1>7 DEF UpdateUser, Fits, TypeOK, Data
  <2>2. CASE Goto(c, "idle", NoArgs) /\ UNCHANGED user
    <3>1. "idle" \in Steps
      BY DEF Steps
    <3>2. Fits(c)'
      BY <1>0, <2>2, <3>1, GotoFacts, ReturnFits
    <3> QED BY <1>0, <1>7, <2>2, <3>1, <3>2, QuietStep DEF UpdateUser, TypeOK
  <2>3. CASE /\ user' = [user EXCEPT ![i].email = email]
             /\ pc' = [pc EXCEPT ![c] = "invalidate"]
             /\ req' = [o \in Clients |->
                           IF o # c /\ req[o].id = i THEN [req[o] EXCEPT !.raced = TRUE] ELSE req[o]]
    <3> DEFINE d == [user[i] EXCEPT !.email = email]
    <3>1. d \in Data /\ d.name = user[i].name
      BY <2>1 DEF Data
    <3>2. user' = [user EXCEPT ![i] = d]
      BY <2>3
    <3> HIDE DEF d
    <3>3. Kept
      BY <1>7, <2>1, <3>1, <3>2, Nulls DEF UpdateUser, Kept, Shape
    <3>4. pc' \in [Clients -> Steps] /\ req' \in [Clients -> Args]
      BY <2>3, <1>0 DEF TypeOK, Steps, Args
    <3>5. ASSUME NEW o \in Clients PROVE Fits(o)'
      <4>0. req[o] \in Args /\ Fits(o)
        BY <1>0
      <4>1. /\ req'[o].token = req[o].token /\ req'[o].id = req[o].id /\ req'[o].data = req[o].data
        BY <2>3, <4>0 DEF Args
      <4>2. CASE o = c
        <5>1. pc'[o] = "invalidate" /\ req[o].id = i
          BY <2>3, <4>2 DEF TypeOK
        <5>2. user'[i] # Null
          BY <2>1, <3>3, Nulls DEF Kept
        <5> QED BY <2>1, <4>1, <5>1, <5>2 DEF Fits, Activating
      <4>3. CASE o # c
        BY <2>3, <3>3, <4>0, <4>1, <4>3, FitsKept DEF TypeOK
      <4> QED BY <4>2, <4>3
    <3>6. \A j \in Ids : user'[j] \in Data \cup {Null} /\ Made(j)'
      <4> TAKE j \in Ids
      <4>1. Made(j)
        BY DEF Shape
      <4>2. CASE j = i
        BY <1>7, <2>1, <3>1, <3>2, <4>1, <4>2, Nulls DEF UpdateUser, Shape, Made
      <4>3. CASE j # i
        BY <1>7, <2>1, <3>2, <4>1, <4>3 DEF UpdateUser, TypeOK, Shape, Made
      <4> QED BY <4>2, <4>3
    <3>7. user' = [j \in Ids |-> user'[j]]
      BY <3>2 DEF Shape
    <3> QED BY <1>7, <3>4, <3>5, <3>6, <3>7 DEF UpdateUser, TypeOK, Shape, Args
  <2> QED BY <1>7, <2>2, <2>3 DEF UpdateUser
<1>8. ASSUME NEW t \in Tokens, TokenExpires(t) PROVE TypeOK' /\ Shape'
  <2>1. /\ excuse' \in [Tokens -> SUBSET {"overlap", "stop", "expired"}]
        /\ pending' \subseteq pending /\ spent' \subseteq spent
    BY <1>8 DEF TokenExpires, TypeOK
  <2>2. (\A c \in Clients : Fits(c)') /\ (\A i \in Ids : Made(i)')
    BY <1>8 DEF TokenExpires, Shape, Fits, Made
  <2> QED BY <1>8, <2>1, <2>2 DEF TokenExpires, TypeOK, Shape
<1>9. ASSUME NEW i \in Ids, ProfileExpires(i) PROVE TypeOK' /\ Shape'
  <2>1. /\ cache' = [j \in Ids |-> cache'[j]]
        /\ \A j \in Ids : cache'[j] \in Data \cup {Null} /\ Made(j)'
    BY <1>9 DEF ProfileExpires, TypeOK, Shape, Made
  <2>2. (\A c \in Clients : Fits(c)')
    BY <1>9 DEF ProfileExpires, Shape, Fits
  <2> QED BY <1>9, <2>1, <2>2 DEF ProfileExpires, TypeOK, Shape
<1>10. CASE UNCHANGED vars
  BY <1>10 DEF vars, TypeOK, Shape, Fits, Made
<1>11. ASSUME NEW c \in Clients, Quiet(c) PROVE TypeOK' /\ Shape'
  BY <1>11, QuietType
<1> QED BY <1>1, <1>2, <1>4, <1>5, <1>6, <1>7, <1>8, <1>9, <1>10, <1>11
        DEF Next, Registering, Activation, Profile, Quiet

-----------------------------------------------------------------------------
LEMMA GotoOthers ==
    ASSUME TypeOK, NEW c \in Clients, NEW step, NEW args, Goto(c, step, args)
    PROVE  /\ pc'[c] = step /\ req'[c] = args
           /\ \A o \in Clients \ {c} : pc'[o] = pc[o] /\ req'[o] = req[o]
  BY DEF TypeOK, Goto

LEMMA KeptStep ==
    ASSUME TypeOK, Shape, [Next]_vars
    PROVE  Kept
<1> USE DEF auxVars, linkVars, userVars, Kept
<1>1. ASSUME NEW c \in Clients, SetToken(c) PROVE Kept
  BY <1>1 DEF SetToken, NextOf, Shape
<1>2. ASSUME NEW c \in Clients, CreateUser(c) PROVE Kept
  BY <1>2 DEF CreateUser, NextOf, Rows, Shape
<1>3. ASSUME NEW c \in Clients, UpdateUser(c) PROVE Kept
  <2>1. req[c].id \in Ids /\ user[req[c].id] # Null /\ req[c].data \in Data
    BY <1>3 DEF UpdateUser, At, Shape, Fits
  <2>2. user[req[c].id] \in Data
    BY <2>1 DEF TypeOK
  <2>3. [user[req[c].id] EXCEPT !.email = req[c].data.email] \in Data
    BY <2>1, <2>2 DEF Data
  <2> QED BY <1>3, <2>1, <2>3, Nulls DEF UpdateUser, Shape
<1>4. ASSUME UNCHANGED <<form, user>> PROVE Kept
  BY <1>4
<1> QED BY <1>1, <1>2, <1>3, <1>4
        DEF Next, Registering, Activation, Profile, Register, CheckName, CheckEmail, Click, GetToken,
            CheckUsed, SeedCache, DelToken, MarkUsed, UpdateProfile, CountEmail, Invalidate, GetProfile,
            ReadCache, SelectUser, FillCache, Stop, TokenExpires, ProfileExpires, vars

(* Two rows have two links: the second row of a link would have its name. *)
LEMMA OnceStep ==
    ASSUME TypeOK, Shape, [Next]_vars, AccountOnce
    PROVE  AccountOnce'
<1> USE DEF auxVars, linkVars, userVars
<1>1. ASSUME NEW c \in Clients, CreateUser(c) PROVE AccountOnce'
  <2> DEFINE t == req[c].token
  <2>1. t \in Tokens /\ form[t] \in Data
    BY <1>1 DEF CreateUser, At, Shape, Fits, Activating, TypeOK
  <2>2. ASSUME NEW i \in Ids, NextOf(Rows, i), {j \in Rows : Clashes(form[t], j)} = {},
               user' = [user EXCEPT ![i] = form[t]], maker' = [maker EXCEPT ![i] = t]
        PROVE  AccountOnce'
    <3>1. i \notin Rows /\ Rows' = Rows \cup {i}
      BY <2>1, <2>2, Nulls DEF NextOf, Rows, Shape
    <3>2. \A j \in Rows : maker[j] # t
      BY <2>2 DEF Shape, Made, Clashes, Rows
    <3>3. maker'[i] = t /\ \A j \in Rows : maker'[j] = maker[j]
      BY <2>2, <3>1 DEF TypeOK, Rows
    <3> QED BY <3>1, <3>2, <3>3 DEF AccountOnce
  <2> QED BY <1>1, <2>2 DEF CreateUser, AccountOnce, Rows
<1>2. ASSUME NEW c \in Clients, UpdateUser(c) PROVE AccountOnce'
  <2>1. \A i \in Ids : user[i] = Null => user'[i] = Null
    BY <1>2 DEF UpdateUser, At, Shape, Fits
  <2> QED BY <1>2, <2>1 DEF UpdateUser, AccountOnce, Rows
<1>3. ASSUME UNCHANGED <<user, maker>> PROVE AccountOnce'
  BY <1>3 DEF AccountOnce, Rows
<1> QED BY <1>1, <1>2, <1>3
        DEF Next, Registering, Activation, Profile, Register, CheckName, CheckEmail, SetToken, Click, GetToken,
            CheckUsed, SeedCache, DelToken, MarkUsed, UpdateProfile, CountEmail, Invalidate, GetProfile,
            ReadCache, SelectUser, FillCache, Stop, TokenExpires, ProfileExpires, vars

-----------------------------------------------------------------------------
(* A client about to cache a profile has the row, unless it was raced. *)
Current(c) ==
    /\ pc[c] = "seed" /\ ~ req[c].raced => user[req[c].id] = form[req[c].token]
    /\ pc[c] = "fill" /\ ~ req[c].raced => user[req[c].id] = req[c].data

LEMMA ProfileStep ==
    ASSUME TypeOK, Shape, [Next]_vars, ProfileExplained, \A c \in Clients : Current(c)
    PROVE  (ProfileExplained /\ \A c \in Clients : Current(c))'
<1> USE DEF auxVars, linkVars, userVars, Step, Return, Proceed, Begin, Tell, At
<1>k. Kept
  BY KeptStep
<1>f. ASSUME NEW c \in Clients PROVE Fits(c) /\ req[c] \in Args
  BY ReqType DEF Shape
<1>0. ASSUME NEW c \in Clients, UNCHANGED user,
             \A o \in Clients \ {c} : pc'[o] = pc[o] /\ req'[o] = req[o]
      PROVE  \A o \in Clients \ {c} : Current(o)'
  BY <1>0, <1>k, <1>f DEF Current, Kept, Fits, Activating
<1>1. ASSUME NEW c \in Clients, NEW step, NEW args, Goto(c, step, args), pc[c] # "invalidate",
             step \notin {"seed", "fill"}, UNCHANGED <<user, cache, doubts>>
      PROVE  (ProfileExplained /\ \A o \in Clients : Current(o))'
  <2>1. /\ pc'[c] = step
        /\ \A o \in Clients \ {c} : pc'[o] = pc[o] /\ req'[o] = req[o]
    BY <1>1, GotoOthers
  <2>2. \A o \in Clients : Current(o)'
    BY <1>0, <1>1, <2>1 DEF Current
  <2>3. ProfileExplained'
    BY <1>1, <2>1 DEF ProfileExplained, Rows
  <2> QED BY <2>2, <2>3
<1>2. ASSUME NEW c \in Clients, Register(c) \/ CheckName(c) \/ CheckEmail(c) \/ SetToken(c)
      PROVE  (ProfileExplained /\ \A o \in Clients : Current(o))'
  <2>1. CASE Register(c)
    BY <1>1, <2>1 DEF Register
  <2>2. CASE CheckName(c)
    BY <1>1, <2>2 DEF CheckName
  <2>3. CASE CheckEmail(c)
    BY <1>1, <2>3 DEF CheckEmail
  <2>4. CASE SetToken(c)
    BY <1>1, <2>4 DEF SetToken
  <2> QED BY <1>2, <2>1, <2>2, <2>3, <2>4
<1>3. ASSUME NEW c \in Clients, Click(c) \/ GetToken(c) \/ CheckUsed(c) \/ DelToken(c) \/ MarkUsed(c) \/ Stop(c)
      PROVE  (ProfileExplained /\ \A o \in Clients : Current(o))'
  <2>1. CASE Click(c)
    BY <1>1, <2>1 DEF Click
  <2>2. CASE GetToken(c)
    BY <1>1, <2>2 DEF GetToken
  <2>3. CASE CheckUsed(c)
    BY <1>1, <2>3 DEF CheckUsed
  <2>4. CASE DelToken(c)
    BY <1>1, <2>4 DEF DelToken
  <2>5. CASE MarkUsed(c)
    BY <1>1, <2>5 DEF MarkUsed
  <2>6. CASE Stop(c)
    BY <1>1, <2>6 DEF Stop
  <2> QED BY <1>3, <2>1, <2>2, <2>3, <2>4, <2>5, <2>6
<1>4. ASSUME NEW c \in Clients, UpdateProfile(c) \/ CountEmail(c) \/ GetProfile(c) \/ ReadCache(c)
      PROVE  (ProfileExplained /\ \A o \in Clients : Current(o))'
  <2>1. CASE UpdateProfile(c)
    BY <1>1, <2>1 DEF UpdateProfile
  <2>2. CASE CountEmail(c)
    BY <1>1, <2>2 DEF CountEmail
  <2>3. CASE GetProfile(c)
    BY <1>1, <2>3 DEF GetProfile
  <2>4. CASE ReadCache(c)
    BY <1>1, <2>4 DEF ReadCache
  <2> QED BY <1>4, <2>1, <2>2, <2>3, <2>4
<1>5. ASSUME NEW c \in Clients, SelectUser(c)
      PROVE  (ProfileExplained /\ \A o \in Clients : Current(o))'
  <2> DEFINE args == [req[c] EXCEPT !.data = user[req[c].id], !.raced = FALSE]
  <2>1. /\ pc'[c] = "fill" /\ req'[c] = args
        /\ \A o \in Clients \ {c} : pc'[o] = pc[o] /\ req'[o] = req[o]
    BY <1>5, GotoOthers DEF SelectUser
  <2>2. args.id = req[c].id /\ args.data = user[req[c].id]
    BY <1>f DEF Args
  <2>3. UNCHANGED <<user, cache, doubts>> /\ pc[c] = "select"
    BY <1>5 DEF SelectUser
  <2>4. Current(c)'
    BY <2>1, <2>2, <2>3 DEF Current
  <2>5. ProfileExplained'
    BY <2>1, <2>3 DEF ProfileExplained, Rows
  <2> QED BY <1>0, <2>1, <2>3, <2>4, <2>5
<1>6. ASSUME NEW c \in Clients, CreateUser(c)
      PROVE  (ProfileExplained /\ \A o \in Clients : Current(o))'
  <2> DEFINE t == req[c].token
  <2>1. t \in Tokens /\ form[t] \in Data
    BY <1>6, <1>f DEF CreateUser, Fits, Activating, TypeOK
  <2>2. ASSUME NEW i \in Ids, NextOf(Rows, i), user' = [user EXCEPT ![i] = form[t]],
               Goto(c, "seed", [req[c] EXCEPT !.id = i])
        PROVE  (ProfileExplained /\ \A o \in Clients : Current(o))'
    <3>1. /\ pc'[c] = "seed" /\ req'[c] = [req[c] EXCEPT !.id = i]
          /\ \A o \in Clients \ {c} : pc'[o] = pc[o] /\ req'[o] = req[o]
      BY <2>2, GotoOthers
    <3>2. req'[c].id = i /\ req'[c].token = t
      BY <3>1, <1>f DEF Args
    <3>3. user[i] = Null /\ user'[i] = form[t] /\ \A j \in Ids \ {i} : user'[j] = user[j]
      BY <2>2 DEF NextOf, Rows, Shape
    <3>4. Current(c)'
      BY <1>6, <3>1, <3>2, <3>3 DEF CreateUser, Current
    <3>5. \A o \in Clients \ {c} : Current(o)'
      BY <1>6, <1>f, <3>1, <3>3 DEF CreateUser, Current, Fits
    <3>6. cache'[i] = Null
      BY <1>6, <3>3 DEF CreateUser, Shape, Made
    <3>7. ProfileExplained'
      BY <1>6, <3>1, <3>3, <3>6 DEF CreateUser, ProfileExplained, Rows
    <3> QED BY <3>4, <3>5, <3>7
  <2>3. ASSUME Goto(c, "idle", NoArgs), UNCHANGED user
        PROVE  (ProfileExplained /\ \A o \in Clients : Current(o))'
    BY <1>1, <1>6, <2>3 DEF CreateUser
  <2> QED BY <1>6, <2>2, <2>3 DEF CreateUser
<1>7. ASSUME NEW c \in Clients, NEW step \in {"idle", "del"}, NEW args, NEW d, Goto(c, step, args),
             Cached(c, req[c].id, d), pc[c] # "invalidate", UNCHANGED user,
             req[c].id \in Ids, ~ req[c].raced => d = user[req[c].id]
      PROVE  (ProfileExplained /\ \A o \in Clients : Current(o))'
  <2> DEFINE i == req[c].id
  <2>1. /\ pc'[c] = step
        /\ \A o \in Clients \ {c} : pc'[o] = pc[o] /\ req'[o] = req[o]
    BY <1>7, GotoOthers
  <2>2. \A o \in Clients : Current(o)'
    BY <1>0, <1>7, <2>1 DEF Current
  <2>3. /\ \A j \in Ids \ {i} : cache'[j] = cache[j] /\ (j \in doubts => j \in doubts')
        /\ cache'[i] = d /\ (i \in doubts' \/ d = user[i])
    BY <1>7 DEF Cached, Shape
  <2>4. ProfileExplained'
    BY <1>7, <2>1, <2>3 DEF ProfileExplained, Rows
  <2> QED BY <2>2, <2>4
<1>8. ASSUME NEW c \in Clients, SeedCache(c) \/ FillCache(c)
      PROVE  (ProfileExplained /\ \A o \in Clients : Current(o))'
  <2>1. req[c].id \in Ids
    BY <1>8, <1>f DEF SeedCache, FillCache, Fits
  <2>2. CASE SeedCache(c)
    <3>1. ~ req[c].raced => form[req[c].token] = user[req[c].id]
      BY <2>2 DEF SeedCache, Current
    <3> QED BY <1>7, <2>1, <2>2, <3>1 DEF SeedCache
  <2>3. CASE FillCache(c)
    <3>1. ~ req[c].raced => req[c].data = user[req[c].id]
      BY <2>3 DEF FillCache, Current
    <3> QED BY <1>7, <2>1, <2>3, <3>1 DEF FillCache
  <2> QED BY <1>8, <2>2, <2>3
<1>9. ASSUME NEW c \in Clients, UpdateUser(c)
      PROVE  (ProfileExplained /\ \A o \in Clients : Current(o))'
  <2> DEFINE i == req[c].id
  <2>1. CASE Goto(c, "idle", NoArgs) /\ UNCHANGED user
    BY <1>1, <1>9, <2>1 DEF UpdateUser
  <2>2. CASE /\ user' = [user EXCEPT ![i].email = req[c].data.email]
             /\ pc' = [pc EXCEPT ![c] = "invalidate"]
             /\ req' = [o \in Clients |->
                           IF o # c /\ req[o].id = i THEN [req[o] EXCEPT !.raced = TRUE] ELSE req[o]]
    <3>1. pc'[c] = "invalidate" /\ req'[c] = req[c] /\ (\A o \in Clients \ {c} : pc'[o] = pc[o])
      BY <2>2 DEF TypeOK
    <3>2. \A j \in Ids \ {i} : user'[j] = user[j]
      BY <2>2 DEF Shape
    <3>3. ASSUME NEW o \in Clients PROVE Current(o)'
      <4>0. Fits(o) /\ req[o] \in Args
        BY <1>f
      <4>1. CASE o = c
        BY <3>1, <4>1 DEF Current
      <4>2. CASE o # c /\ req[o].id = i
        <5>1. req'[o].raced
          BY <2>2, <4>0, <4>2 DEF Args
        <5> QED BY <5>1 DEF Current
      <4>3. CASE o # c /\ req[o].id # i
        <5>1. req'[o] = req[o]
          BY <2>2, <4>3
        <5> QED BY <1>9, <3>1, <3>2, <4>0, <4>3, <5>1 DEF Current, Fits, UpdateUser
      <4> QED BY <4>1, <4>2, <4>3
    <3>4. UNCHANGED <<cache, doubts>> /\ i \in Ids /\ pc[c] = "update" /\ user[i] # Null
      BY <1>9, <1>f DEF UpdateUser, Fits
    <3>5. \A j \in Ids \ {i} : user'[j] = user[j]
      BY <3>2
    <3>6. ProfileExplained'
      <4> SUFFICES ASSUME NEW j \in Ids, user'[j] # Null, cache'[j] \notin {Null, user'[j]}
                   PROVE  (\E o \in Clients : At(o, "invalidate") /\ req[o].id = j)' \/ j \in doubts'
        BY DEF ProfileExplained, Rows
      <4>1. CASE j = i
        BY <3>1, <4>1
      <4>2. CASE j # i
        <5>1. j \in Rows /\ cache[j] \notin {Null, user[j]}
          BY <3>4, <3>5, <4>2 DEF Rows
        <5>2. j \in doubts \/ \E o \in Clients : pc[o] = "invalidate" /\ req[o].id = j
          BY <5>1 DEF ProfileExplained
        <5>3. ASSUME NEW o \in Clients, pc[o] = "invalidate", req[o].id = j
              PROVE  pc'[o] = "invalidate" /\ req'[o].id = j
          BY <2>2, <3>1, <3>4, <4>2, <5>3
        <5> QED BY <3>4, <5>2, <5>3
      <4> QED BY <4>1, <4>2
    <3> QED BY <3>3, <3>6
  <2> QED BY <1>9, <2>1, <2>2 DEF UpdateUser
<1>10. ASSUME NEW c \in Clients, Invalidate(c)
       PROVE  (ProfileExplained /\ \A o \in Clients : Current(o))'
  <2>1. /\ pc'[c] = "read"
        /\ \A o \in Clients \ {c} : pc'[o] = pc[o] /\ req'[o] = req[o]
    BY <1>10, GotoOthers DEF Invalidate
  <2>2. UNCHANGED user /\ req[c].id \in Ids
    BY <1>10, <1>f DEF Invalidate, Fits
  <2>3. \A o \in Clients : Current(o)'
    BY <1>0, <2>1, <2>2 DEF Current
  <2>4. /\ cache'[req[c].id] = Null
        /\ \A j \in Ids \ {req[c].id} : cache'[j] = cache[j] /\ (j \in doubts => j \in doubts')
    BY <1>10, <2>2 DEF Invalidate, Shape
  <2>5. ProfileExplained'
    BY <2>1, <2>2, <2>4 DEF ProfileExplained, Rows
  <2> QED BY <2>3, <2>5
<1>11. ASSUME NEW t \in Tokens, TokenExpires(t)
       PROVE  (ProfileExplained /\ \A o \in Clients : Current(o))'
  BY <1>11 DEF TokenExpires, ProfileExplained, Rows, Current
<1>12. ASSUME NEW i \in Ids, ProfileExpires(i)
       PROVE  (ProfileExplained /\ \A o \in Clients : Current(o))'
  <2>1. /\ cache'[i] = Null
        /\ \A j \in Ids \ {i} : cache'[j] = cache[j] /\ (j \in doubts => j \in doubts')
    BY <1>12 DEF ProfileExpires, Shape
  <2> QED BY <1>12, <2>1 DEF ProfileExpires, ProfileExplained, Rows, Current
<1>13. CASE UNCHANGED vars
  BY <1>13 DEF vars, ProfileExplained, Rows, Current
<1> QED BY <1>2, <1>3, <1>4, <1>5, <1>6, <1>8, <1>9, <1>10, <1>11, <1>12, <1>13
        DEF Next, Registering, Activation, Profile

-----------------------------------------------------------------------------
(* Who is activating with link t, and whether it has made an account. *)
OnWay(t) == {c \in Clients : pc[c] \in Activating /\ req[c].token = t}
Has(t) == \E i \in Rows : maker[i] = t

(* As long as no two clicks on t overlap and none breaks off, there is one    *)
(* activation at a time and it finds no account.                              *)
Alone(t) == excuse[t] \cap {"overlap", "stop"} = {} =>
    /\ \A c, o \in OnWay(t) : c = o
    /\ Has(t) /\ t \in pending => \E c \in OnWay(t) : pc[c] \in {"seed", "del"}
    /\ \A c \in OnWay(t) : pc[c] = "create" => ~ Has(t)
    /\ "duplicate" \notin told[t]

(* As long as, besides, t is not old, it has one of its keys. *)
Answered(t) == excuse[t] = {} =>
    /\ form[t] # Null => t \in pending \cup spent \/ \E c \in OnWay(t) : pc[c] = "mark"
    /\ \A c \in OnWay(t) : pc[c] = "used" => t \in spent
    /\ "invalid" \notin told[t]

LEMMA Elsewhere ==
    ASSUME NEW t \in Tokens, Alone(t), Answered(t),
           OnWay(t)' = OnWay(t), \A c \in OnWay(t) : pc'[c] = pc[c],
           t \in pending' <=> t \in pending, t \in spent' <=> t \in spent,
           told'[t] = told[t], excuse'[t] = excuse[t], Has(t)' <=> Has(t),
           form'[t] # Null <=> form[t] # Null
    PROVE  (Alone(t) /\ Answered(t))'
<1>1. Alone(t)'
  BY DEF Alone
<1>2. Answered(t)'
  BY DEF Answered
<1> QED BY <1>1, <1>2

LEMMA SameWay ==
    ASSUME NEW t \in Tokens, NEW c \in Clients, c \notin OnWay(t),
           ~ (pc'[c] \in Activating /\ req'[c].token = t),
           \A o \in Clients \ {c} : pc'[o] = pc[o] /\ req'[o].token = req[o].token
    PROVE  OnWay(t)' = OnWay(t) /\ \A o \in OnWay(t) : pc'[o] = pc[o]
  BY DEF OnWay

LEMMA AnswerStep ==
    ASSUME TypeOK, Shape, [Next]_vars, \A t \in Tokens : Alone(t) /\ Answered(t), NEW t \in Tokens
    PROVE  (Alone(t) /\ Answered(t))'
<1> USE DEF auxVars, linkVars, userVars, Step, Return, Proceed, Begin, Tell, At
<1>f. ASSUME NEW c \in Clients PROVE Fits(c) /\ req[c] \in Args
  BY ReqType DEF Shape
<1>t. Alone(t) /\ Answered(t)
  OBVIOUS
(* A step of a client that has nothing to do with t. *)
<1>0. ASSUME NEW c \in Clients, NEW step, NEW args, Goto(c, step, args), c \notin OnWay(t),
             step \in Activating => args.token # t,
             t \in pending' <=> t \in pending, t \in spent' <=> t \in spent,
             told'[t] = told[t], excuse'[t] = excuse[t], Has(t)' <=> Has(t),
             form'[t] # Null <=> form[t] # Null
      PROVE  (Alone(t) /\ Answered(t))'
  <2>1. /\ pc'[c] = step /\ req'[c] = args
        /\ \A o \in Clients \ {c} : pc'[o] = pc[o] /\ req'[o] = req[o]
    BY <1>0, GotoOthers
  <2>2. OnWay(t)' = OnWay(t) /\ \A o \in OnWay(t) : pc'[o] = pc[o]
    BY <1>0, <2>1, SameWay
  <2> QED BY <1>0, <1>t, <2>2, Elsewhere
<1>1. ASSUME NEW c \in Clients, NEW step, NEW args, Goto(c, step, args), pc[c] \notin Activating,
             step \notin Activating, UNCHANGED <<form, pending, spent, user, maker, told, excuse>>
      PROVE  (Alone(t) /\ Answered(t))'
  BY <1>0, <1>1 DEF OnWay, Has, Rows
<1>2. ASSUME NEW c \in Clients, Register(c) \/ CheckName(c) \/ CheckEmail(c)
      PROVE  (Alone(t) /\ Answered(t))'
  <2>1. CASE Register(c)
    BY <1>1, <2>1 DEF Register, Activating
  <2>2. CASE CheckName(c)
    BY <1>1, <2>2 DEF CheckName, Activating
  <2>3. CASE CheckEmail(c)
    BY <1>1, <2>3 DEF CheckEmail, Activating
  <2> QED BY <1>2, <2>1, <2>2, <2>3
<1>3. ASSUME NEW c \in Clients, UpdateProfile(c) \/ CountEmail(c) \/ Invalidate(c) \/ GetProfile(c)
                                \/ ReadCache(c) \/ SelectUser(c) \/ FillCache(c)
      PROVE  (Alone(t) /\ Answered(t))'
  <2>1. CASE UpdateProfile(c)
    BY <1>1, <2>1 DEF UpdateProfile, Activating
  <2>2. CASE CountEmail(c)
    BY <1>1, <2>2 DEF CountEmail, Activating
  <2>3. CASE Invalidate(c)
    BY <1>1, <2>3 DEF Invalidate, Activating
  <2>4. CASE GetProfile(c)
    BY <1>1, <2>4 DEF GetProfile, Activating
  <2>5. CASE ReadCache(c)
    BY <1>1, <2>5 DEF ReadCache, Activating
  <2>6. CASE SelectUser(c)
    BY <1>1, <2>6 DEF SelectUser, Activating
  <2>7. CASE FillCache(c)
    BY <1>1, <2>7 DEF FillCache, Activating
  <2> QED BY <1>3, <2>1, <2>2, <2>3, <2>4, <2>5, <2>6, <2>7
<1>4. ASSUME NEW c \in Clients, SetToken(c) PROVE (Alone(t) /\ Answered(t))'
  <2>1. PICK u \in Tokens : /\ form[u] = Null
                           /\ form' = [form EXCEPT ![u] = req[c].data]
                           /\ pending' = pending \cup {u}
    BY <1>4 DEF SetToken, NextOf
  <2>2. Goto(c, "idle", NoArgs) /\ c \notin OnWay(t) /\ (Has(t)' <=> Has(t))
        /\ UNCHANGED <<spent, told, excuse, user, maker>>
    BY <1>4 DEF SetToken, OnWay, Activating, Has, Rows
  <2>3. CASE t # u
    BY <1>0, <2>1, <2>2, <2>3 DEF Activating, Shape
  <2>4. CASE t = u
    <3>1. ~ Has(t)
      BY <2>1, <2>4 DEF Has, Rows, Shape, Made
    <3>2. /\ pc'[c] = "idle"
          /\ \A o \in Clients \ {c} : pc'[o] = pc[o] /\ req'[o] = req[o]
      BY <2>2, GotoOthers
    <3>3. OnWay(t)' = OnWay(t) /\ \A o \in OnWay(t) : pc'[o] = pc[o]
      BY <2>2, <3>2, SameWay DEF Activating
    <3>4. Alone(t)'
      BY <1>t, <2>2, <3>1, <3>3 DEF Alone
    <3>5. Answered(t)'
      BY <1>t, <2>1, <2>2, <2>4, <3>3 DEF Answered
    <3> QED BY <3>4, <3>5
  <2> QED BY <2>3, <2>4
<1>5. ASSUME NEW c \in Clients, Click(c) PROVE (Alone(t) /\ Answered(t))'
  <2>1. PICK u \in Tokens : /\ form[u] # Null
                           /\ Goto(c, "get", [NoArgs EXCEPT !.token = u])
                           /\ excuse' = [excuse EXCEPT ![u] = @ \cup IF OnWay(u) # {} THEN {"overlap"} ELSE {}]
    BY <1>5 DEF Click, OnWay
  <2>2. pc[c] = "idle" /\ UNCHANGED <<form, pending, spent, user, maker, told>> /\ (Has(t)' <=> Has(t))
    BY <1>5 DEF Click, Has, Rows
  <2>3. /\ pc'[c] = "get" /\ req'[c].token = u
        /\ \A o \in Clients \ {c} : pc'[o] = pc[o] /\ req'[o] = req[o]
    BY <2>1, GotoOthers DEF NoArgs
  <2>4. CASE t # u
    <3>1. c \notin OnWay(t) /\ excuse'[t] = excuse[t]
      BY <2>1, <2>2, <2>4 DEF OnWay, Activating, TypeOK
    <3>2. OnWay(t)' = OnWay(t) /\ \A o \in OnWay(t) : pc'[o] = pc[o]
      BY <2>3, <2>4, <3>1, SameWay
    <3> QED BY <1>t, <2>2, <3>1, <3>2, Elsewhere
  <2>5. CASE t = u /\ OnWay(t) = {}
    <3>1. OnWay(t)' = {c} /\ excuse'[t] = excuse[t]
      BY <2>1, <2>2, <2>3, <2>5 DEF OnWay, Activating, TypeOK
    <3>2. Alone(t)'
      BY <1>t, <2>2, <2>3, <2>5, <3>1 DEF Alone
    <3>3. Answered(t)'
      BY <1>t, <2>2, <2>3, <2>5, <3>1 DEF Answered
    <3> QED BY <3>2, <3>3
  <2>6. CASE t = u /\ OnWay(t) # {}
    <3>1. "overlap" \in excuse'[t]
      BY <2>1, <2>6 DEF TypeOK
    <3> QED BY <3>1 DEF Alone, Answered
  <2> QED BY <2>4, <2>5, <2>6
<1>6. ASSUME NEW c \in Clients, pc[c] \in Activating, req[c].token # t, NEW step, NEW args,
             Goto(c, step, args), step = "idle" \/ args.token = req[c].token, Has(t)' <=> Has(t),
             t \in pending' <=> t \in pending, t \in spent' <=> t \in spent,
             told'[t] = told[t], excuse'[t] = excuse[t], UNCHANGED form
      PROVE  (Alone(t) /\ Answered(t))'
  BY <1>0, <1>6 DEF OnWay, Activating
(* A step of the activation with t. *)
<1>7. ASSUME NEW c \in Clients, pc[c] \in Activating, req[c].token = t, NEW step, NEW args,
             Goto(c, step, args), step = "idle" \/ (step \in Activating /\ args.token = t),
             excuse'[t] \cap {"overlap", "stop"} = {}, excuse[t] \subseteq excuse'[t]
      PROVE  /\ OnWay(t) = {c} /\ OnWay(t)' = (IF step = "idle" THEN {} ELSE {c}) /\ pc'[c] = step
             /\ \A i \in Rows : maker[i] = t /\ t \in pending => pc[c] \in {"seed", "del"}
             /\ pc[c] = "create" => ~ Has(t)
             /\ "duplicate" \notin told[t]
             /\ excuse[t] = {} =>
                   /\ form[t] # Null => t \in pending \cup spent \/ pc[c] = "mark"
                   /\ pc[c] = "used" => t \in spent
                   /\ "invalid" \notin told[t]
  <2>1. OnWay(t) = {c} /\ excuse[t] \cap {"overlap", "stop"} = {}
    BY <1>7, <1>t DEF Alone, OnWay
  <2>2. /\ pc'[c] = step /\ req'[c] = args
        /\ \A o \in Clients \ {c} : pc'[o] = pc[o] /\ req'[o] = req[o]
    BY <1>7, GotoOthers
  <2>3. OnWay(t)' = IF step = "idle" THEN {} ELSE {c}
    BY <1>7, <2>1, <2>2 DEF OnWay, Activating
  <2>4. /\ Has(t) /\ t \in pending => pc[c] \in {"seed", "del"}
        /\ pc[c] = "create" => ~ Has(t)
        /\ "duplicate" \notin told[t]
    BY <1>t, <2>1 DEF Alone
  <2>5. excuse[t] = {} =>
           /\ form[t] # Null => t \in pending \cup spent \/ pc[c] = "mark"
           /\ pc[c] = "used" => t \in spent
           /\ "invalid" \notin told[t]
    BY <1>t, <2>1 DEF Answered
  <2> QED BY <2>1, <2>2, <2>3, <2>4, <2>5 DEF Has
<1>8. ASSUME NEW c \in Clients, GetToken(c) PROVE (Alone(t) /\ Answered(t))'
  <2>1. pc[c] = "get" /\ UNCHANGED <<form, pending, spent, user, maker, told, excuse>> /\ (Has(t)' <=> Has(t))
    BY <1>8 DEF GetToken, Has, Rows
  <2>2. CASE req[c].token = t /\ excuse[t] \cap {"overlap", "stop"} # {}
    BY <2>1, <2>2 DEF Alone, Answered
  <2>3. ASSUME Goto(c, "create", req[c]), req[c].token \in pending,
               req[c].token = t => excuse[t] \cap {"overlap", "stop"} = {}
        PROVE  (Alone(t) /\ Answered(t))'
    <3>1. CASE req[c].token # t
      BY <1>6, <2>1, <2>3, <3>1 DEF Activating
    <3>2. CASE req[c].token = t
      <4>1. /\ OnWay(t)' = {c} /\ pc'[c] = "create"
            /\ \A i \in Rows : ~ (maker[i] = t /\ t \in pending)
            /\ "duplicate" \notin told[t]
            /\ excuse[t] = {} => "invalid" \notin told[t]
        BY <1>7, <2>1, <2>3, <3>2 DEF Activating
      <4>2. ~ Has(t)
        BY <2>3, <3>2, <4>1 DEF Has
      <4>3. Alone(t)'
        BY <2>1, <4>1, <4>2 DEF Alone
      <4>4. Answered(t)'
        BY <2>1, <2>3, <3>2, <4>1 DEF Answered
      <4> QED BY <4>3, <4>4
    <3> QED BY <3>1, <3>2
  <2>4. ASSUME Goto(c, "used", req[c]), req[c].token \notin pending,
               req[c].token = t => excuse[t] \cap {"overlap", "stop"} = {}
        PROVE  (Alone(t) /\ Answered(t))'
    <3>1. CASE req[c].token # t
      BY <1>6, <2>1, <2>4, <3>1 DEF Activating
    <3>2. CASE req[c].token = t
      <4>1. /\ OnWay(t)' = {c} /\ pc'[c] = "used"
            /\ "duplicate" \notin told[t]
            /\ excuse[t] = {} =>
                  /\ form[t] # Null => t \in pending \cup spent
                  /\ "invalid" \notin told[t]
        BY <1>7, <2>1, <2>4, <3>2 DEF Activating
      <4>2. form[t] # Null
        BY <1>f, <2>1, <3>2 DEF Fits, Activating
      <4>3. Alone(t)'
        BY <2>1, <2>4, <3>2, <4>1 DEF Alone
      <4>4. Answered(t)'
        BY <2>1, <2>4, <3>2, <4>1, <4>2 DEF Answered
      <4> QED BY <4>3, <4>4
    <3> QED BY <3>1, <3>2
  <2> QED BY <1>8, <2>2, <2>3, <2>4 DEF GetToken
<1>9. ASSUME NEW c \in Clients, CheckUsed(c) PROVE (Alone(t) /\ Answered(t))'
  <2>1. /\ pc[c] = "used" /\ Goto(c, "idle", NoArgs)
        /\ UNCHANGED <<form, pending, spent, user, maker, excuse>> /\ (Has(t)' <=> Has(t))
        /\ told' = [told EXCEPT ![req[c].token] = @ \cup {IF req[c].token \in spent THEN "already" ELSE "invalid"}]
    BY <1>9 DEF CheckUsed, Has, Rows
  <2>2. CASE req[c].token # t
    BY <1>6, <2>1, <2>2 DEF Activating, TypeOK
  <2>3. CASE req[c].token = t /\ excuse[t] \cap {"overlap", "stop"} # {}
    BY <2>1, <2>3 DEF Alone, Answered
  <2>4. CASE req[c].token = t /\ excuse[t] \cap {"overlap", "stop"} = {}
    <3>1. /\ OnWay(t)' = {}
          /\ \A i \in Rows : ~ (maker[i] = t /\ t \in pending)
          /\ "duplicate" \notin told[t]
          /\ excuse[t] = {} => t \in spent /\ "invalid" \notin told[t]
      BY <1>7, <2>1, <2>4 DEF Activating
    <3>2. told'[t] = told[t] \cup {IF t \in spent THEN "already" ELSE "invalid"}
      BY <2>1, <2>4 DEF TypeOK
    <3>3. Alone(t)'
      BY <2>1, <3>1, <3>2 DEF Alone, Has
    <3>4. Answered(t)'
      BY <2>1, <3>1, <3>2 DEF Answered
    <3> QED BY <3>3, <3>4
  <2> QED BY <2>2, <2>3, <2>4
<1>10. ASSUME NEW c \in Clients, CreateUser(c) PROVE (Alone(t) /\ Answered(t))'
  <2>1. pc[c] = "create" /\ UNCHANGED <<form, pending, spent, excuse>>
    BY <1>10 DEF CreateUser
  <2>2. CASE req[c].token = t /\ excuse[t] \cap {"overlap", "stop"} # {}
    BY <2>1, <2>2 DEF Alone, Answered
  <2>3. ASSUME NEW i \in Ids, NextOf(Rows, i), user' = [user EXCEPT ![i] = form[req[c].token]],
               maker' = [maker EXCEPT ![i] = req[c].token], Goto(c, "seed", [req[c] EXCEPT !.id = i]),
               UNCHANGED told, ~ (req[c].token = t /\ excuse[t] \cap {"overlap", "stop"} # {})
        PROVE  (Alone(t) /\ Answered(t))'
    <3> DEFINE args == [req[c] EXCEPT !.id = i]
    <3>1. args.token = req[c].token
      BY <1>f DEF Args
    <3> HIDE DEF args
    <3>5. Goto(c, "seed", args)
      BY <2>3 DEF args
    <3>2. form[req[c].token] # Null /\ req[c].token \in Tokens
      BY <1>f, <2>1 DEF Fits, Activating
    <3>3. CASE req[c].token # t
      <4>1. user[i] = Null
        BY <2>3 DEF NextOf, Rows
      <4>2. Has(t)' <=> Has(t)
        BY <2>3, <3>2, <3>3, <4>1 DEF Has, Rows, TypeOK, Shape
      <4> QED BY <1>6, <2>1, <2>3, <3>1, <3>3, <3>5, <4>2 DEF Activating
    <3>4. CASE req[c].token = t
      <4>1. /\ OnWay(t)' = {c} /\ pc'[c] = "seed"
            /\ "duplicate" \notin told[t]
            /\ excuse[t] = {} =>
                  /\ form[t] # Null => t \in pending \cup spent
                  /\ "invalid" \notin told[t]
        BY <1>7, <2>1, <2>3, <3>1, <3>4, <3>5 DEF Activating
      <4>2. Alone(t)'
        BY <2>1, <2>3, <4>1 DEF Alone
      <4>3. Answered(t)'
        BY <2>1, <2>3, <4>1 DEF Answered
      <4> QED BY <4>2, <4>3
    <3> QED BY <3>3, <3>4
  <2>4. ASSUME NEW answer \in {"duplicate", "taken"}, Goto(c, "idle", NoArgs),
               told' = [told EXCEPT ![req[c].token] = @ \cup {answer}],
               answer = "duplicate" => \E i \in Rows : maker[i] = req[c].token,
               UNCHANGED <<user, maker>>, ~ (req[c].token = t /\ excuse[t] \cap {"overlap", "stop"} # {})
        PROVE  (Alone(t) /\ Answered(t))'
    <3>1. Has(t)' <=> Has(t)
      BY <2>4 DEF Has, Rows
    <3>2. CASE req[c].token # t
      BY <1>6, <2>1, <2>4, <3>1, <3>2 DEF Activating, TypeOK
    <3>3. CASE req[c].token = t
      <4>1. /\ OnWay(t)' = {} /\ ~ Has(t)
            /\ "duplicate" \notin told[t]
            /\ excuse[t] = {} =>
                  /\ form[t] # Null => t \in pending \cup spent
                  /\ "invalid" \notin told[t]
        BY <1>7, <2>1, <2>4, <3>3 DEF Activating
      <4>2. told'[t] = told[t] \cup {"taken"}
        BY <2>4, <3>3, <4>1 DEF TypeOK, Has
      <4>3. Alone(t)'
        BY <2>1, <3>1, <4>1, <4>2 DEF Alone
      <4>4. Answered(t)'
        BY <2>1, <4>1, <4>2 DEF Answered
      <4> QED BY <4>3, <4>4
    <3> QED BY <3>2, <3>3
  <2>5. CASE UNCHANGED userVars /\ Tell(c, IF \E i \in {j \in Rows : Clashes(form[req[c].token], j)} :
                                               maker[i] = req[c].token THEN "duplicate" ELSE "taken")
    BY <2>2, <2>4, <2>5
  <2> QED BY <1>10, <2>2, <2>3, <2>5 DEF CreateUser
<1>11. ASSUME NEW c \in Clients, SeedCache(c) PROVE (Alone(t) /\ Answered(t))'
  <2>1. /\ pc[c] = "seed" /\ Goto(c, "del", req[c])
        /\ UNCHANGED <<form, pending, spent, user, maker, told, excuse>> /\ (Has(t)' <=> Has(t))
    BY <1>11 DEF SeedCache, Has, Rows
  <2>2. CASE req[c].token # t
    BY <1>6, <2>1, <2>2 DEF Activating
  <2>3. CASE req[c].token = t /\ excuse[t] \cap {"overlap", "stop"} # {}
    BY <2>1, <2>3 DEF Alone, Answered
  <2>4. CASE req[c].token = t /\ excuse[t] \cap {"overlap", "stop"} = {}
    <3>1. /\ OnWay(t)' = {c} /\ pc'[c] = "del"
          /\ "duplicate" \notin told[t]
          /\ excuse[t] = {} =>
                /\ form[t] # Null => t \in pending \cup spent
                /\ "invalid" \notin told[t]
      BY <1>7, <2>1, <2>4 DEF Activating
    <3>2. Alone(t)'
      BY <2>1, <3>1 DEF Alone
    <3>3. Answered(t)'
      BY <2>1, <3>1 DEF Answered
    <3> QED BY <3>2, <3>3
  <2> QED BY <2>2, <2>3, <2>4
<1>12. ASSUME NEW c \in Clients, DelToken(c) PROVE (Alone(t) /\ Answered(t))'
  <2>1. /\ pc[c] = "del" /\ Goto(c, "mark", req[c]) /\ pending' = pending \ {req[c].token}
        /\ UNCHANGED <<form, spent, user, maker, told, excuse>> /\ (Has(t)' <=> Has(t))
    BY <1>12 DEF DelToken, Has, Rows
  <2>2. CASE req[c].token # t
    BY <1>6, <2>1, <2>2 DEF Activating
  <2>3. CASE req[c].token = t /\ excuse[t] \cap {"overlap", "stop"} # {}
    BY <2>1, <2>3 DEF Alone, Answered
  <2>4. CASE req[c].token = t /\ excuse[t] \cap {"overlap", "stop"} = {}
    <3>1. /\ OnWay(t)' = {c} /\ pc'[c] = "mark"
          /\ "duplicate" \notin told[t]
          /\ excuse[t] = {} => "invalid" \notin told[t]
      BY <1>7, <2>1, <2>4 DEF Activating
    <3>2. Alone(t)'
      BY <2>1, <2>4, <3>1 DEF Alone
    <3>3. Answered(t)'
      BY <2>1, <3>1 DEF Answered
    <3> QED BY <3>2, <3>3
  <2> QED BY <2>2, <2>3, <2>4
<1>13. ASSUME NEW c \in Clients, MarkUsed(c) PROVE (Alone(t) /\ Answered(t))'
  <2>1. /\ pc[c] = "mark" /\ Goto(c, "idle", NoArgs) /\ spent' = spent \cup {req[c].token}
        /\ told' = [told EXCEPT ![req[c].token] = @ \cup {"activated"}]
        /\ UNCHANGED <<form, pending, user, maker, excuse>> /\ (Has(t)' <=> Has(t))
    BY <1>13 DEF MarkUsed, Has, Rows
  <2>2. CASE req[c].token # t
    BY <1>6, <2>1, <2>2 DEF Activating, TypeOK
  <2>3. CASE req[c].token = t /\ excuse[t] \cap {"overlap", "stop"} # {}
    BY <2>1, <2>3 DEF Alone, Answered
  <2>4. CASE req[c].token = t /\ excuse[t] \cap {"overlap", "stop"} = {}
    <3>1. /\ OnWay(t)' = {}
          /\ \A i \in Rows : ~ (maker[i] = t /\ t \in pending)
          /\ "duplicate" \notin told[t]
          /\ excuse[t] = {} => "invalid" \notin told[t]
      BY <1>7, <2>1, <2>4 DEF Activating
    <3>2. told'[t] = told[t] \cup {"activated"}
      BY <2>1, <2>4 DEF TypeOK
    <3>3. Alone(t)'
      BY <2>1, <3>1, <3>2 DEF Alone, Has
    <3>4. Answered(t)'
      BY <2>1, <2>4, <3>1, <3>2 DEF Answered
    <3> QED BY <3>3, <3>4
  <2> QED BY <2>2, <2>3, <2>4
<1>14. ASSUME NEW c \in Clients, Stop(c) PROVE (Alone(t) /\ Answered(t))'
  <2>1. /\ pc[c] \in Activating /\ excuse' = [excuse EXCEPT ![req[c].token] = @ \cup {"stop"}]
        /\ UNCHANGED <<form, pending, spent, user, maker>> /\ (Has(t)' <=> Has(t))
        /\ told' = told \/ told' = [told EXCEPT ![req[c].token] = @ \cup {"activated"}]
    BY <1>14 DEF Stop, Has, Rows, Activating
  <2>2. PICK step \in {"idle", "del", "mark"} : Goto(c, step, IF step = "idle" THEN NoArgs ELSE req[c])
    BY <1>14 DEF Stop
  <2>3. CASE req[c].token # t
    BY <1>6, <2>1, <2>2, <2>3 DEF TypeOK
  <2>4. CASE req[c].token = t
    <3>1. "stop" \in excuse'[t]
      BY <2>1, <2>4 DEF TypeOK
    <3> QED BY <3>1 DEF Alone, Answered
  <2> QED BY <2>3, <2>4
<1>15. ASSUME NEW c \in Clients, UpdateUser(c) PROVE (Alone(t) /\ Answered(t))'
  <2>1. \A i \in Ids : user'[i] # Null <=> user[i] # Null
    <3>1. Kept
      BY KeptStep DEF Next, Profile
    <3>2. \A i \in Ids : user[i] = Null => user'[i] = Null
      BY <1>15, <1>f DEF UpdateUser, Fits, Shape
    <3> QED BY <3>1, <3>2 DEF Kept
  <2>2. /\ pc[c] = "update" /\ UNCHANGED <<form, pending, spent, maker, told, excuse>>
        /\ pc'[c] \in {"invalidate", "idle"}
    BY <1>15 DEF UpdateUser, Goto, TypeOK
  <2>3. Has(t)' <=> Has(t)
    BY <2>1, <2>2 DEF Has, Rows
  <2>4. ASSUME NEW o \in Clients \ {c} PROVE pc'[o] = pc[o] /\ req'[o].token = req[o].token
    BY <1>15, <1>f DEF UpdateUser, Goto, TypeOK, Args
  <2>5. OnWay(t)' = OnWay(t) /\ \A o \in OnWay(t) : pc'[o] = pc[o]
    BY <2>2, <2>4, SameWay DEF OnWay, Activating
  <2> QED BY <1>t, <2>2, <2>3, <2>5, Elsewhere
<1>16. ASSUME NEW u \in Tokens, TokenExpires(u) PROVE (Alone(t) /\ Answered(t))'
  <2>1. /\ excuse' = [excuse EXCEPT ![u] = @ \cup {"expired"}]
        /\ pending' = pending \ {u} /\ spent' \subseteq spent /\ (u # t => (t \in spent' <=> t \in spent))
        /\ UNCHANGED <<form, user, maker, pc, req, told>>
    BY <1>16 DEF TokenExpires
  <2>2. OnWay(t)' = OnWay(t) /\ (Has(t)' <=> Has(t))
    BY <2>1 DEF OnWay, Has, Rows
  <2>3. CASE u # t
    <3>1. excuse'[t] = excuse[t]
      BY <2>1, <2>3 DEF TypeOK
    <3> QED BY <1>t, <2>1, <2>2, <2>3, <3>1, Elsewhere
  <2>4. CASE u = t
    <3>1. excuse'[t] = excuse[t] \cup {"expired"}
      BY <2>1, <2>4 DEF TypeOK
    <3>2. Answered(t)'
      BY <3>1 DEF Answered
    <3>3. Alone(t)'
      BY <1>t, <2>1, <2>2, <3>1 DEF Alone
    <3> QED BY <3>2, <3>3
  <2> QED BY <2>3, <2>4
<1>17. ASSUME UNCHANGED <<form, pending, spent, user, maker, pc, req, told, excuse>>
       PROVE  (Alone(t) /\ Answered(t))'
  BY <1>17, <1>t DEF Alone, Answered, OnWay, Has, Rows
<1>18. ASSUME NEW i \in Ids, ProfileExpires(i) PROVE (Alone(t) /\ Answered(t))'
  BY <1>17, <1>18 DEF ProfileExpires
<1>19. CASE UNCHANGED vars
  BY <1>17, <1>19 DEF vars
<1> QED BY <1>2, <1>3, <1>4, <1>5, <1>8, <1>9, <1>10, <1>11, <1>12, <1>13, <1>14, <1>15, <1>16, <1>18, <1>19
        DEF Next, Registering, Activation, Profile

-----------------------------------------------------------------------------
(* The inductive invariant. *)
IInv ==
    /\ TypeOK /\ Shape
    /\ AccountOnce
    /\ ProfileExplained /\ \A c \in Clients : Current(c)
    /\ \A t \in Tokens : Alone(t) /\ Answered(t)

LEMMA Invariant == Spec => []IInv
<1>1. Init => IInv
  <2> SUFFICES ASSUME Init PROVE IInv
    OBVIOUS
  <2>1. TypeOK
    BY AccountsAssumption, Nulls DEF Init, TypeOK, NoArgs, Steps
  <2>2. Shape
    BY DEF Init, Shape, Fits, Made, Activating
  <2>3. AccountOnce /\ ProfileExplained
    BY DEF Init, AccountOnce, ProfileExplained, Rows
  <2>4. \A c \in Clients : Current(c)
    BY DEF Init, Current
  <2>5. \A t \in Tokens : Alone(t) /\ Answered(t)
    BY DEF Init, Alone, Answered, OnWay, Has, Rows, Activating
  <2> QED BY <2>1, <2>2, <2>3, <2>4, <2>5 DEF IInv
<1>2. IInv /\ [Next]_vars => IInv'
  <2> SUFFICES ASSUME IInv, [Next]_vars PROVE IInv'
    OBVIOUS
  <2>1. TypeOK' /\ Shape'
    BY TypeStep DEF IInv
  <2>2. AccountOnce' /\ (ProfileExplained /\ \A c \in Clients : Current(c))'
    BY OnceStep, ProfileStep DEF IInv
  <2>3. ASSUME NEW t \in Tokens PROVE (Alone(t) /\ Answered(t))'
    BY AnswerStep DEF IInv
  <2> QED BY <2>1, <2>2, <2>3 DEF IInv
<1> QED BY <1>1, <1>2, PTL DEF Spec

(* Types hold in every reachable state. *)
THEOREM TypeCorrect == Spec => []TypeOK
<1>1. IInv => TypeOK
  BY DEF IInv
<1> QED BY <1>1, Invariant, PTL

(* A link makes one account at most, whoever clicks it and however often. *)
THEOREM OneAccount == Spec => []AccountOnce
<1>1. IInv => AccountOnce
  BY DEF IInv
<1> QED BY <1>1, Invariant, PTL

(* Clicks that do not overlap or break off are answered truly. *)
THEOREM ClicksAnswered == Spec => []AnswersTrue
<1>1. IInv => AnswersTrue
  <2> SUFFICES ASSUME IInv, NEW t \in Tokens
               PROVE  /\ "invalid" \in told[t] => excuse[t] # {}
                      /\ "duplicate" \in told[t] => excuse[t] \cap {"overlap", "stop"} # {}
    BY DEF AnswersTrue
  <2> QED BY DEF IInv, Alone, Answered
<1> QED BY <1>1, Invariant, PTL

(* A cached profile is that of the row, or one can tell why not. *)
THEOREM ProfileTold == Spec => []ProfileExplained
<1>1. IInv => ProfileExplained
  BY DEF IInv
<1> QED BY <1>1, Invariant, PTL

=============================================================================

---------------------------- MODULE UserDataProofs ----------------------------
(***************************************************************************)
(* For any users, usernames, clients and keys: both columns of a stored row  *)
(* name one user, and what follows from it while no username was exchanged.  *)
(***************************************************************************)
EXTENDS UserData, TLAPS

-----------------------------------------------------------------------------
(* The inductive invariant: the register, the rows, the requests.            *)

RegisterOK ==
    /\ name \in [Ids -> Names \cup {Absent, Unset}]
    /\ held \in [Ids -> SUBSET Names]
    /\ \A u \in Ids : name[u] \in Names => name[u] \in held[u]
    /\ \A u \in Ids : held[u] # {} => name[u] \in Names
    /\ \A u, v \in Ids : name[u] \in Names /\ name[v] = name[u] => u = v

RowsOK(R) ==
    /\ R \subseteq Rows
    /\ \A r, q \in R : r.id = q.id /\ r.key = q.key => r = q
    /\ \A r \in R : r.name \in held[r.id]

RequestsOK ==
    /\ op \in [Clients -> Ops]
    /\ step \in [Clients -> Steps \cup {"idle"}]
    /\ tok \in [Clients -> Names \cup {Unset}]
    /\ uid \in [Clients -> Ids \cup {NoOne}]
    /\ goal \in [Clients -> SUBSET Keys]
    /\ todo \in [Clients -> SUBSET Keys]
    /\ body \in [Clients -> Bodies]
    /\ \A c \in Clients : DOMAIN body[c] \subseteq Group(op[c])
    /\ reply \in Answers \cup {"none"}
    /\ \A c \in Clients : step[c] # "idle" => tok[c] \in Names
    /\ \A c \in Clients :
          step[c] \notin {"idle", "user"} => uid[c] \in Ids /\ tok[c] \in held[uid[c]]

Inv ==
    /\ RegisterOK
    /\ table \in Tables
    /\ RowsOK(rows)
    /\ RequestsOK
    /\ alone \in [Clients -> BOOLEAN]

-----------------------------------------------------------------------------
(* Rows                                                                    *)

LEMMA OverTyped ==
    ASSUME NEW b \in Bodies, NEW v \in [Columns -> Values]
    PROVE  Over(b, v) \in [Columns -> Values]
<1>1. PICK C \in SUBSET Columns : b \in [C -> Values] BY DEF Bodies
<1> QED BY <1>1 DEF Over

LEMMA Removed ==
    ASSUME NEW R, NEW S, RowsOK(R)
    PROVE  RowsOK(R \ S)
BY DEF RowsOK

LEMMA Added ==
    ASSUME NEW R, RowsOK(R), NEW r \in Rows, r.name \in held[r.id],
           \A q \in R : ~(q.id = r.id /\ q.key = r.key)
    PROVE  RowsOK(R \cup {r})
BY DEF RowsOK

LEMMA UpdatedSafe ==
    ASSUME NEW R, RowsOK(R), NEW S \in SUBSET R, NEW b \in Bodies
    PROVE  RowsOK((R \ S) \cup Updated(S, b))
<1>1. ASSUME NEW q \in Updated(S, b)
      PROVE  \E r \in S : q \in Rows /\ q.id = r.id /\ q.key = r.key /\ q.name = r.name
                           /\ q = [r EXCEPT !.val = Over(b, r.val)]
    <2>1. PICK r \in S : q = [r EXCEPT !.val = Over(b, r.val)] BY <1>1 DEF Updated
    <2>2. r \in Rows BY DEF RowsOK
    <2>3. Over(b, r.val) \in [Columns -> Values] BY <2>2, OverTyped DEF Rows
    <2> QED BY <2>1, <2>2, <2>3 DEF Rows
<1>2. (R \ S) \cup Updated(S, b) \subseteq Rows BY <1>1 DEF RowsOK
<1>3. ASSUME NEW r \in (R \ S) \cup Updated(S, b) PROVE r.name \in held[r.id]
    BY <1>1 DEF RowsOK
<1>4. ASSUME NEW r \in (R \ S) \cup Updated(S, b), NEW q \in (R \ S) \cup Updated(S, b),
             r.id = q.id, r.key = q.key
      PROVE  r = q
    <2>1. CASE r \in R \ S /\ q \in R \ S BY <2>1, <1>4 DEF RowsOK
    <2>2. CASE r \in R \ S /\ q \in Updated(S, b)
        <3>1. PICK p \in S : q.id = p.id /\ q.key = p.key BY <1>1, <2>2
        <3>2. r = p BY <3>1, <2>2, <1>4 DEF RowsOK
        <3> QED BY <3>2, <2>2
    <2>3. CASE r \in Updated(S, b) /\ q \in R \ S
        <3>1. PICK p \in S : r.id = p.id /\ r.key = p.key BY <1>1, <2>3
        <3>2. q = p BY <3>1, <2>3, <1>4 DEF RowsOK
        <3> QED BY <3>2, <2>3
    <2>4. CASE r \in Updated(S, b) /\ q \in Updated(S, b)
        <3>1. PICK p \in S : r.id = p.id /\ r.key = p.key
                              /\ r = [p EXCEPT !.val = Over(b, p.val)] BY <1>1, <2>4
        <3>2. PICK o \in S : q.id = o.id /\ q.key = o.key
                              /\ q = [o EXCEPT !.val = Over(b, o.val)] BY <1>1, <2>4
        <3>3. p = o BY <3>1, <3>2, <1>4 DEF RowsOK
        <3> QED BY <3>1, <3>2, <3>3
    <2> QED BY <2>1, <2>2, <2>3, <2>4
<1> QED BY <1>2, <1>3, <1>4 DEF RowsOK

LEMMA NewRowOwned ==
    ASSUME RequestsOK, NEW c \in Clients, NEW k \in todo[c], step[c] \notin {"idle", "user"}
    PROVE  /\ NewRow(c, k) \in Rows
           /\ NewRow(c, k).name \in held[NewRow(c, k).id]
           /\ NewRow(c, k).id = uid[c] /\ NewRow(c, k).key = k
           /\ NewRow(c, k).name = tok[c]
<1>1. [col \in Columns |-> Default] \in [Columns -> Values] BY UserDataAssumption
<1>2. Over(body[c], [col \in Columns |-> Default]) \in [Columns -> Values]
    BY <1>1, OverTyped DEF RequestsOK
<1> QED BY <1>2 DEF NewRow, Rows, RequestsOK

-----------------------------------------------------------------------------
(* Requests                                                                *)

LEMMA NoBodyTyped == NoBody \in Bodies /\ DOMAIN NoBody = {}
<1>1. NoBody \in [{} -> Values] BY DEF NoBody
<1> QED BY <1>1 DEF Bodies

LEMMA ReplySafe ==
    ASSUME RequestsOK, NEW c \in Clients, NEW what \in Answers \cup {"none"},
           Reply(c, what), held' = held
    PROVE  RequestsOK'
BY NoBodyTyped DEF RequestsOK, Reply, Ops

LEMMA GoToSafe ==
    ASSUME RequestsOK, NEW c \in Clients, NEW s \in Steps, s # "user",
           step[c] \notin {"idle", "user"}, GoTo(c, s), UNCHANGED uid, held' = held,
           todo' \in [Clients -> SUBSET Keys]
    PROVE  RequestsOK'
BY DEF RequestsOK, GoTo, Steps

LEMMA BeginSafe ==
    ASSUME RequestsOK, NEW c \in Clients, NEW o \in Ops, NEW n \in Names,
           NEW K \in SUBSET Keys, NEW b \in Bodies, DOMAIN b \subseteq Group(o),
           Begin(c, o, n, K, b)
    PROVE  RequestsOK' /\ UNCHANGED <<name, held, table, rows>>
<1>1. step[c] = "idle" /\ step' = [step EXCEPT ![c] = "user"] BY DEF Begin
<1>2. held' = held /\ uid' = uid BY DEF Begin
<1>3. tok' = [tok EXCEPT ![c] = n] BY DEF Begin
<1>4. \A d \in Clients : step'[d] # "idle" => tok'[d] \in Names
    BY <1>1, <1>3 DEF RequestsOK
<1>5. \A d \in Clients :
          step'[d] \notin {"idle", "user"} => uid'[d] \in Ids /\ tok'[d] \in held'[uid'[d]]
    BY <1>1, <1>2, <1>3 DEF RequestsOK
<1>6. op' = [op EXCEPT ![c] = o] /\ body' = [body EXCEPT ![c] = b] BY DEF Begin
<1>7. \A d \in Clients : DOMAIN body'[d] \subseteq Group(op'[d])
    <2>1. \A d \in Clients \ {c} : op'[d] = op[d] /\ body'[d] = body[d]
        BY <1>6 DEF RequestsOK
    <2>2. op'[c] = o /\ body'[c] = b BY <1>6 DEF RequestsOK
    <2> QED BY <2>1, <2>2 DEF RequestsOK
<1> QED BY <1>4, <1>5, <1>7 DEF RequestsOK, Begin, Steps, Answers

LEMMA FindUserSafe ==
    ASSUME RegisterOK, RequestsOK, NEW c \in Clients, FindUser(c)
    PROVE  RequestsOK'
<1>1. held' = held /\ step[c] = "user" BY DEF FindUser
<1>2. CASE Reply(c, "none") BY <1>1, <1>2, ReplySafe
<1>3. ASSUME NEW u \in Found(tok[c]), uid' = [uid EXCEPT ![c] = u],
             GoTo(c, AfterUser(op[c])), UNCHANGED todo
      PROVE  RequestsOK'
    <2>1. AfterUser(op[c]) \in Steps \ {"user"} BY DEF AfterUser, RequestsOK, Ops, Steps
    <2>2. u \in Ids /\ tok[c] \in held[u] BY <1>1 DEF Found, RegisterOK, RequestsOK
    <2> QED BY <1>1, <1>3, <2>1, <2>2 DEF RequestsOK, GoTo, Steps
<1> QED BY <1>2, <1>3 DEF FindUser

-----------------------------------------------------------------------------
(* Statements                                                              *)

LEMMA FavoritesSafe ==
    ASSUME RowsOK(rows), RequestsOK, NEW c \in Clients, DeleteOld(c) \/ InsertNext(c)
    PROVE  RowsOK(rows') /\ RequestsOK'
<1>1. CASE DeleteOld(c)
    <2>1. rows' = rows \ Named(tok[c]) /\ held' = held BY <1>1 DEF DeleteOld
    <2>2. RowsOK(rows') BY <2>1, Removed
    <2>3. CASE Reply(c, "stored") BY <2>1, <2>2, <2>3, ReplySafe DEF Answers
    <2>4. CASE GoTo(c, "insert") /\ UNCHANGED <<uid, todo>>
        BY <1>1, <2>1, <2>2, <2>4, GoToSafe DEF DeleteOld, Steps, RequestsOK
    <2> QED BY <1>1, <2>2, <2>3, <2>4 DEF DeleteOld
<1>2. CASE InsertNext(c)
    <2>1. PICK k \in todo[c] :
             /\ rows' = (rows \ At(uid[c], {k})) \cup {NewRow(c, k)}
             /\ \/ Reply(c, "stored")
                \/ /\ todo' = [todo EXCEPT ![c] = @ \ {k}]
                   /\ GoTo(c, "insert") /\ UNCHANGED uid
        BY <1>2 DEF InsertNext
    <2>2. held' = held /\ step[c] = "insert" BY <1>2 DEF InsertNext
    <2>3. RowsOK(rows \ At(uid[c], {k})) BY Removed
    <2>4. \A q \in rows \ At(uid[c], {k}) : ~(q.id = uid[c] /\ q.key = k) BY DEF At
    <2>5. RowsOK(rows')
        <3>1. /\ NewRow(c, k) \in Rows /\ NewRow(c, k).name \in held[NewRow(c, k).id]
              /\ NewRow(c, k).id = uid[c] /\ NewRow(c, k).key = k
            BY <2>2, NewRowOwned
        <3>2. RowsOK((rows \ At(uid[c], {k})) \cup {NewRow(c, k)})
            BY <2>3, <2>4, <3>1, Added
        <3> QED BY <2>1, <3>2
    <2>6. CASE Reply(c, "stored") BY <2>2, <2>5, <2>6, ReplySafe DEF Answers
    <2>7. CASE todo' = [todo EXCEPT ![c] = @ \ {k}] /\ GoTo(c, "insert") /\ UNCHANGED uid
        <3>1. todo' \in [Clients -> SUBSET Keys] BY <2>7 DEF RequestsOK
        <3> QED BY <2>2, <2>5, <2>7, <3>1, GoToSafe DEF Steps
    <2> QED BY <2>1, <2>5, <2>6, <2>7
<1> QED BY <1>1, <1>2

LEMMA RemoveSafe ==
    ASSUME RowsOK(rows), RequestsOK, NEW c \in Clients, NEW n \in Names, NEW k,
           RemoveFavorite(c, n, k)
    PROVE  RowsOK(rows') /\ RequestsOK' /\ UNCHANGED <<name, held, table>>
<1>1. RowsOK(rows') BY Removed DEF RemoveFavorite
<1>2. RequestsOK' BY ReplySafe DEF RemoveFavorite
<1> QED BY <1>1, <1>2 DEF RemoveFavorite

LEMMA NewsSafe ==
    ASSUME RowsOK(rows), RequestsOK, NEW c \in Clients,
           ReadArticle(c) \/ UnsaveArticle(c) \/ SaveArticle(c)
    PROVE  RowsOK(rows') /\ RequestsOK'
<1>1. CASE ReadArticle(c)
    BY <1>1, GoToSafe DEF ReadArticle, Steps, RequestsOK
<1>2. CASE UnsaveArticle(c)
    BY <1>2, Removed, ReplySafe DEF UnsaveArticle, Answers
<1>3. CASE SaveArticle(c)
    <2>1. RequestsOK' BY <1>3, ReplySafe DEF SaveArticle, Answers
    <2>2. PICK k \in todo[c] :
              rows' = IF At(uid[c], {k}) = {} THEN rows \cup {NewRow(c, k)} ELSE rows
        BY <1>3 DEF SaveArticle
    <2>3. ASSUME At(uid[c], {k}) = {} PROVE RowsOK(rows \cup {NewRow(c, k)})
        <3>1. \A q \in rows : ~(q.id = uid[c] /\ q.key = k) BY <2>3 DEF At
        <3>2. step[c] = "insert" BY <1>3 DEF SaveArticle
        <3> QED BY <3>1, <3>2, Added, NewRowOwned
    <2> QED BY <2>1, <2>2, <2>3
<1> QED BY <1>1, <1>2, <1>3

LEMMA WrittenSafe ==
    ASSUME RequestsOK, NEW c \in Clients, step[c] \notin {"idle", "user"},
           Written(c), held' = held
    PROVE  RequestsOK'
<1>1. CASE op[c] = "put"
    BY <1>1, GoToSafe DEF Written, Steps, RequestsOK
<1>2. CASE op[c] # "put"
    BY <1>2, ReplySafe DEF Written, Answers
<1> QED BY <1>1, <1>2

LEMMA SettingsSafe ==
    ASSUME RowsOK(rows), RequestsOK, NEW c \in Clients,
           ReadSettings(c) \/ UpdateSettings(c) \/ InsertSettings(c) \/ FetchSettings(c)
    PROVE  RowsOK(rows') /\ RequestsOK'
<1>1. CASE ReadSettings(c)
    BY <1>1, GoToSafe DEF ReadSettings, Steps, RequestsOK
<1>2. CASE UpdateSettings(c)
    <2>1. RequestsOK' BY <1>2, WrittenSafe DEF UpdateSettings
    <2>2. body[c] \in Bodies /\ Named(tok[c]) \in SUBSET rows BY DEF RequestsOK, Named
    <2> QED BY <1>2, <2>1, <2>2, UpdatedSafe DEF UpdateSettings
<1>3. CASE InsertSettings(c)
    <2>1. step[c] = "insert" /\ held' = held BY <1>3 DEF InsertSettings
    <2>2. CASE Of(uid[c]) = {}
        <3>1. PICK k \in todo[c] : rows' = rows \cup {NewRow(c, k)}
            BY <1>3, <2>2 DEF InsertSettings
        <3>2. \A q \in rows : ~(q.id = uid[c] /\ q.key = k) BY <2>2 DEF Of
        <3>3. RowsOK(rows') BY <2>1, <3>1, <3>2, Added, NewRowOwned
        <3>4. RequestsOK' BY <1>3, <2>1, <2>2, WrittenSafe DEF InsertSettings
        <3> QED BY <3>3, <3>4
    <2>3. CASE Of(uid[c]) # {}
        BY <1>3, <2>1, <2>3, ReplySafe DEF InsertSettings, Answers
    <2> QED BY <2>2, <2>3
<1>4. CASE FetchSettings(c)
    BY <1>4, ReplySafe DEF FetchSettings, Answers
<1> QED BY <1>1, <1>2, <1>3, <1>4

LEMMA FollowsSafe ==
    ASSUME RowsOK(rows), RequestsOK, NEW c \in Clients,
           Upsert(c) \/ Unfollow(c) \/ Prefer(c)
    PROVE  RowsOK(rows') /\ RequestsOK'
<1>0. RequestsOK' BY ReplySafe DEF Upsert, Unfollow, Prefer, Answers
<1>1. body[c] \in Bodies BY DEF RequestsOK
<1>2. CASE Upsert(c)
    <2>1. step[c] = "upsert" BY <1>2 DEF Upsert
    <2>2. PICK k \in todo[c] :
              rows' = IF At(uid[c], {k}) = {}
                      THEN rows \cup {NewRow(c, k)}
                      ELSE (rows \ At(uid[c], {k})) \cup Updated(At(uid[c], {k}), body[c])
        BY <1>2 DEF Upsert
    <2>3. ASSUME At(uid[c], {k}) = {} PROVE RowsOK(rows \cup {NewRow(c, k)})
        <3>1. \A q \in rows : ~(q.id = uid[c] /\ q.key = k) BY <2>3 DEF At
        <3> QED BY <2>1, <3>1, Added, NewRowOwned
    <2>4. At(uid[c], {k}) \in SUBSET rows BY DEF At
    <2>5. RowsOK((rows \ At(uid[c], {k})) \cup Updated(At(uid[c], {k}), body[c]))
        BY <1>1, <2>4, UpdatedSafe
    <2> QED BY <1>0, <2>2, <2>3, <2>5
<1>3. CASE Unfollow(c) BY <1>0, <1>3, Removed DEF Unfollow
<1>4. CASE Prefer(c)
    <2>1. At(uid[c], todo[c]) \in SUBSET rows BY DEF At
    <2> QED BY <1>0, <1>1, <1>4, <2>1, UpdatedSafe DEF Prefer
<1> QED BY <1>2, <1>3, <1>4

LEMMA StatementSafe ==
    ASSUME RegisterOK, RowsOK(rows), RequestsOK, NEW c \in Clients, Statement(c)
    PROVE  RowsOK(rows') /\ RequestsOK' /\ UNCHANGED <<name, held, table>>
<1>1. UNCHANGED <<name, held, table>>
    BY DEF Statement, FindUser, Fail, DeleteOld, InsertNext, ReadArticle, UnsaveArticle,
           SaveArticle, ReadSettings, UpdateSettings, InsertSettings, FetchSettings,
           Upsert, Unfollow, Prefer
<1>2. CASE FindUser(c) BY <1>2, FindUserSafe DEF FindUser
<1>3. CASE Fail(c) BY <1>3, ReplySafe DEF Fail
<1> QED BY <1>1, <1>2, <1>3, FavoritesSafe, NewsSafe, SettingsSafe, FollowsSafe DEF Statement

LEMMA AskSafe ==
    ASSUME table \in Tables, RowsOK(rows), RequestsOK, NEW c \in Clients, NEW n \in Names,
           Ask(c, n)
    PROVE  RowsOK(rows') /\ RequestsOK' /\ UNCHANGED <<name, held, table>>
<1>1. KeysOf[table] \subseteq Keys BY KeysAssumption
<1>2. ASSUME NEW o \in Ops, NEW K \in SUBSET Keys, NEW b \in Bodies, DOMAIN b \subseteq Group(o),
             Begin(c, o, n, K, b)
      PROVE  RowsOK(rows') /\ RequestsOK' /\ UNCHANGED <<name, held, table>>
    <2>1. RequestsOK' /\ UNCHANGED <<name, held, table, rows>> BY <1>2, BeginSafe
    <2>2. RowsOK(rows') BY <2>1 DEF RowsOK
    <2> QED BY <2>1, <2>2
<1>3. CASE \E K \in SUBSET KeysOf[table] : ReplaceFavorites(c, n, K)
    BY <1>1, <1>2, <1>3, NoBodyTyped DEF ReplaceFavorites, Ops
<1>4. ASSUME NEW k \in KeysOf[table], NEW v \in Sent, NEW w \in Sent \cup {Null},
             PutSettings(c, n, k, v, w)
      PROVE  RowsOK(rows') /\ RequestsOK' /\ UNCHANGED <<name, held, table>>
    <2>1. v \in Values /\ w \in Values BY UserDataAssumption
    <2>2. [col \in Group("put") |-> IF col = "first" THEN v ELSE w] \in Bodies
        <3>1. [col \in Group("put") |-> IF col = "first" THEN v ELSE w] \in [Group("put") -> Values]
            BY <2>1
        <3>2. Group("put") \in SUBSET Columns BY DEF Group, Columns
        <3> QED BY <3>1, <3>2 DEF Bodies
    <2>4. [col \in Group("put_news") |-> v] \in Bodies
        <3>1. [col \in Group("put_news") |-> v] \in [Group("put_news") -> Values] BY <2>1
        <3>2. Group("put_news") \in SUBSET Columns BY DEF Group, Columns
        <3> QED BY <3>1, <3>2 DEF Bodies
    <2>3. "put" \in Ops /\ "put_news" \in Ops /\ {k} \in SUBSET Keys BY <1>1 DEF Ops
    <2> QED BY <1>2, <1>4, <2>2, <2>3, <2>4 DEF PutSettings
<1>5. ASSUME NEW k \in KeysOf[table], RemoveFavorite(c, n, k)
      PROVE  RowsOK(rows') /\ RequestsOK' /\ UNCHANGED <<name, held, table>>
    BY <1>5, RemoveSafe
<1>6. ASSUME NEW k \in KeysOf[table], ToggleArticle(c, n, k) \/ UnfollowSenator(c, n, k)
      PROVE  RowsOK(rows') /\ RequestsOK' /\ UNCHANGED <<name, held, table>>
    BY <1>1, <1>2, <1>6, NoBodyTyped DEF ToggleArticle, UnfollowSenator, Ops
<1>7. ASSUME NEW k \in KeysOf[table], NEW b \in Bodies,
             FollowSenator(c, n, k, b) \/ UpdateFollowPreferences(c, n, k, b)
      PROVE  RowsOK(rows') /\ RequestsOK' /\ UNCHANGED <<name, held, table>>
    BY <1>1, <1>2, <1>7 DEF FollowSenator, UpdateFollowPreferences, Ops
<1> QED BY <1>3, <1>4, <1>5, <1>6, <1>7 DEF Ask

-----------------------------------------------------------------------------
(* The register                                                            *)

LEMMA UsersChangeSafe ==
    ASSUME RegisterOK, RowsOK(rows), RequestsOK, UsersChange
    PROVE  RegisterOK' /\ RowsOK(rows)' /\ RequestsOK'
<1> USE NamesAssumption
<1>1. rows' = rows /\ UNCHANGED request /\ reply' = "none" BY DEF UsersChange
<1>2. RegisterOK' /\ \A v \in Ids : held[v] \subseteq held'[v]
    <2>1. ASSUME NEW u \in Ids, Enter(u)
          PROVE  RegisterOK' /\ \A v \in Ids : held[v] \subseteq held'[v]
        BY <2>1 DEF Enter, RegisterOK
    <2>2. ASSUME NEW u \in Ids, NEW n \in Names, IndexAllows(u, n), SetName(u, n)
          PROVE  RegisterOK' /\ \A v \in Ids : held[v] \subseteq held'[v]
        <3>1. \A v \in Ids \ {u} : name[v] # n BY <2>2 DEF IndexAllows, Holds
        <3>2. name' = [name EXCEPT ![u] = n] /\ held' = [held EXCEPT ![u] = @ \cup {n}]
            BY <2>2 DEF SetName
        <3> QED BY <3>1, <3>2 DEF RegisterOK
    <2> QED BY <2>1, <2>2 DEF UsersChange, Claim, Rename1, Rename
<1>3. RowsOK(rows)' BY <1>1, <1>2 DEF RowsOK, Rows
<1>4. RequestsOK' BY <1>1, <1>2 DEF RequestsOK, request
<1> QED BY <1>2, <1>3, <1>4

-----------------------------------------------------------------------------
LEMMA InitSafe == Init => Inv
<1> SUFFICES ASSUME Init PROVE Inv OBVIOUS
<1>1. RegisterOK BY NamesAssumption DEF Init, RegisterInit, RegisterOK
<1>2. RowsOK(rows) BY DEF Init, RowsOK
<1>3. RequestsOK BY NoBodyTyped DEF Init, RequestsOK, Ops
<1> QED BY <1>1, <1>2, <1>3 DEF Init, Inv

LEMMA NextSafe == Inv /\ [Next]_vars => Inv'
<1> SUFFICES ASSUME Inv, [Next]_vars PROVE Inv' OBVIOUS
<1>1. CASE UNCHANGED vars
    BY <1>1 DEF vars, request, Inv, RegisterOK, RowsOK, RequestsOK
<1>2. ASSUME NEW S, Watch(S) PROVE alone' \in [Clients -> BOOLEAN] BY <1>2 DEF Watch
<1>3. ASSUME NEW c \in Clients, Statement(c) \/ \E n \in Names : Ask(c, n), Watch({c})
      PROVE  Inv'
    <2>1. RowsOK(rows') /\ RequestsOK' /\ UNCHANGED <<name, held, table>>
        BY <1>3, StatementSafe, AskSafe DEF Inv
    <2>2. RegisterOK' BY <2>1 DEF Inv, RegisterOK
    <2>3. RowsOK(rows)' BY <2>1 DEF RowsOK
    <2> QED BY <1>2, <1>3, <2>1, <2>2, <2>3 DEF Inv
<1>4. CASE UsersChange /\ Watch({})
    <2>1. RegisterOK' /\ RowsOK(rows)' /\ RequestsOK' BY <1>4, UsersChangeSafe DEF Inv
    <2> QED BY <1>2, <1>4, <2>1 DEF Inv, UsersChange
<1> QED BY <1>1, <1>3, <1>4 DEF Next

(* The register, the stored rows and what requests carry are consistent.       *)
THEOREM UserDataInvariant == Spec => []Inv
BY InitSafe, NextSafe, PTL DEF Spec

(* TypeOK: no two rows of a table ever share a primary key.                   *)
THEOREM UserDataTypes == Spec => []TypeOK
<1>1. Inv => TypeOK BY DEF Inv, RegisterOK, RowsOK, RequestsOK, TypeOK
<1> QED BY <1>1, UserDataInvariant, PTL

(* RowsOwned: both columns of a stored row name one user, renames included.    *)
THEOREM RowsBelong == Spec => []RowsOwned
<1>1. Inv => RowsOwned BY DEF Inv, RowsOK, RowsOwned
<1> QED BY <1>1, UserDataInvariant, PTL

(* ListingsAgree: without renames the listings by username and by id agree.    *)
THEOREM ListingsShowTheSame == Spec => []ListingsAgree
<1>1. Inv => ListingsAgree
    <2> SUFFICES ASSUME Inv, Settled, NEW u \in Ids, name[u] \in Names
                 PROVE  \A r \in rows : r.name = name[u] <=> r.id = u
        BY DEF ListingsAgree, Listed, ListedById
    <2> SUFFICES ASSUME NEW r \in rows PROVE r.name = name[u] <=> r.id = u OBVIOUS
    <2>1. r.id \in Ids /\ r.name \in held[r.id] BY DEF Inv, RowsOK, Rows
    <2>2. name[u] \in held[u] BY DEF Inv, RegisterOK
    <2>3. name[r.id] \in Names /\ name[r.id] \in held[r.id]
        BY <2>1 DEF Inv, RegisterOK
    <2>4. r.name = name[r.id] BY <2>1, <2>3 DEF Settled
    <2> QED BY <2>1, <2>3, <2>4 DEF Inv, RegisterOK
<1> QED BY <1>1, UserDataInvariant, PTL

-----------------------------------------------------------------------------
(* Which statement gave an answer.                                          *)
LEMMA RepliesAlone ==
    ASSUME RequestsOK, NEW c \in Clients, NEW d \in Clients, NEW what, NEW w, Reply(d, w),
           Ends(c, what)
    PROVE  c = d /\ w = what
BY DEF Reply, Ends, RequestsOK

LEMMA MovesAlone ==
    ASSUME RequestsOK, NEW c \in Clients, NEW d \in Clients, NEW what, NEW s \in Steps,
           GoTo(d, s), Ends(c, what)
    PROVE  FALSE
BY DEF GoTo, Ends, RequestsOK, Steps

LEMMA AskEndsNothing ==
    ASSUME RequestsOK, NEW c \in Clients, NEW d \in Clients, NEW n \in Names, Ask(d, n),
           NEW what, Ends(c, what)
    PROVE  FALSE
<1>1. CASE step[d] = "idle" /\ step' = [step EXCEPT ![d] = "user"]
    BY <1>1 DEF Ends, RequestsOK
<1>2. CASE step[d] = "idle" /\ Reply(d, "none")
    BY <1>2 DEF Reply, Ends, RequestsOK
<1> QED BY <1>1, <1>2 DEF Ask, ReplaceFavorites, PutSettings, RemoveFavorite, ToggleArticle,
       UnfollowSenator, FollowSenator, UpdateFollowPreferences, Begin

LEMMA StatementAnswers ==
    ASSUME RequestsOK, NEW c \in Clients, NEW d \in Clients, Statement(d),
           NEW what \in {"saved", "conflict"}, Ends(c, what)
    PROVE  c = d /\ (IF what = "saved" THEN SaveArticle(c) ELSE InsertSettings(c) /\ Reply(c, what))
<1> DEFINE Goal == c = d /\ (IF what = "saved" THEN SaveArticle(c)
                             ELSE InsertSettings(c) /\ Reply(c, what))
<1> SUFFICES Goal OBVIOUS
<1>1. ASSUME Reply(d, "none") \/ Reply(d, "stored") \/ Reply(d, "unsaved") PROVE FALSE
    BY <1>1, RepliesAlone
<1>2. ASSUME NEW s \in Steps, GoTo(d, s) PROVE FALSE BY <1>2, MovesAlone
<1>3. CASE FindUser(d)
    <2>1. step[d] = "user" BY <1>3 DEF FindUser
    <2>2. AfterUser(op[d]) \in Steps BY DEF AfterUser, RequestsOK, Ops, Steps
    <2> QED BY <1>1, <1>2, <1>3, <2>2 DEF FindUser
<1>4. CASE Fail(d) BY <1>1, <1>4 DEF Fail
<1>5. CASE DeleteOld(d) \/ InsertNext(d)
    BY <1>1, <1>2, <1>5 DEF DeleteOld, InsertNext, Steps
<1>6. CASE ReadArticle(d) \/ UnsaveArticle(d)
    BY <1>1, <1>2, <1>6 DEF ReadArticle, UnsaveArticle, Steps
<1>7. CASE SaveArticle(d)
    BY <1>7, RepliesAlone DEF SaveArticle
<1>8. CASE ReadSettings(d) \/ UpdateSettings(d) \/ FetchSettings(d)
    BY <1>1, <1>2, <1>8 DEF ReadSettings, UpdateSettings, FetchSettings, Written, Steps
<1>9. CASE InsertSettings(d)
    <2>1. CASE Reply(d, "conflict") BY <1>9, <2>1, RepliesAlone
    <2>2. CASE Written(d) BY <1>1, <1>2, <2>2 DEF Written, Steps
    <2> QED BY <1>9, <2>1, <2>2 DEF InsertSettings
<1>10. CASE Upsert(d) \/ Unfollow(d) \/ Prefer(d)
    BY <1>1, <1>10 DEF Upsert, Unfollow, Prefer
<1> QED BY <1>3, <1>4, <1>5, <1>6, <1>7, <1>8, <1>9, <1>10 DEF Statement

LEMMA WhoAnswered ==
    ASSUME RequestsOK, NEW c \in Clients, [Next]_vars,
           NEW what \in {"saved", "conflict"}, Ends(c, what)
    PROVE  IF what = "saved" THEN SaveArticle(c) ELSE InsertSettings(c) /\ Reply(c, what)
<1>1. ASSUME UNCHANGED step PROVE FALSE BY <1>1 DEF Ends
<1>2. CASE UNCHANGED vars BY <1>1, <1>2 DEF vars, request
<1>3. CASE UsersChange BY <1>1, <1>3 DEF UsersChange, request
<1>4. ASSUME NEW d \in Clients, Statement(d) \/ \E n \in Names : Ask(d, n)
      PROVE  IF what = "saved" THEN SaveArticle(c) ELSE InsertSettings(c) /\ Reply(c, what)
    BY <1>4, StatementAnswers, AskEndsNothing
<1> QED BY <1>2, <1>3, <1>4 DEF Next

(* A row of an id, and a request for it, have the same username while nobody    *)
(* exchanged one.                                                           *)
LEMMA SameName ==
    ASSUME Inv, Settled, NEW c \in Clients, step[c] \notin {"idle", "user"},
           NEW r \in rows, r.id = uid[c]
    PROVE  r.name = tok[c]
BY DEF Inv, RowsOK, RequestsOK, Settled

(* SavedMeansSaved: "saved" is true also for the loser of the insert race.      *)
THEOREM SavedIsSaved == Spec => SavedMeansSaved
<1>1. Inv /\ [Next]_vars =>
        \A c \in Clients :
           Ends(c, "saved") /\ Settled => todo[c] \cap Listed(rows', tok[c]) # {}
    <2> SUFFICES ASSUME Inv, [Next]_vars, NEW c \in Clients, Ends(c, "saved"), Settled
                 PROVE  todo[c] \cap Listed(rows', tok[c]) # {}
        OBVIOUS
    <2>1. SaveArticle(c) BY WhoAnswered DEF Inv
    <2>2. PICK k \in todo[c] :
              rows' = IF At(uid[c], {k}) = {} THEN rows \cup {NewRow(c, k)} ELSE rows
        BY <2>1 DEF SaveArticle
    <2>3. step[c] = "insert" BY <2>1 DEF SaveArticle
    <2>4. k \in Listed(rows', tok[c])
        <3>1. CASE At(uid[c], {k}) = {}
            BY <2>2, <2>3, <3>1, NewRowOwned DEF Inv, Listed
        <3>2. CASE At(uid[c], {k}) # {}
            <4>1. PICK r \in rows : r.id = uid[c] /\ r.key = k BY <3>2 DEF At
            <4>2. r.name = tok[c] BY <2>3, <4>1, SameName
            <4> QED BY <2>2, <3>2, <4>1, <4>2 DEF Listed
        <3> QED BY <3>1, <3>2
    <2> QED BY <2>4
<1> QED BY <1>1, UserDataInvariant, PTL DEF Spec, SavedMeansSaved

(* ConflictIsTransient: after a conflict the retry finds the row to update.     *)
THEOREM ConflictsPass == Spec => ConflictIsTransient
<1>1. Inv /\ [Next]_vars =>
        \A c \in Clients : Ends(c, "conflict") /\ Settled => Named(tok[c]) # {}
    <2> SUFFICES ASSUME Inv, [Next]_vars, NEW c \in Clients, Ends(c, "conflict"), Settled
                 PROVE  Named(tok[c]) # {}
        OBVIOUS
    <2>1. InsertSettings(c) /\ Reply(c, "conflict") BY WhoAnswered DEF Inv
    <2>2. step[c] = "insert" BY <2>1 DEF InsertSettings
    <2>3. reply' = "conflict" /\ step'[c] = "idle" BY DEF Ends
    <2>4. Of(uid[c]) # {}
        <3>1. ASSUME Written(c) PROVE FALSE
            BY <2>3, <3>1 DEF Written, GoTo, Reply
        <3> QED BY <2>1, <3>1 DEF InsertSettings
    <2>5. PICK r \in rows : r.id = uid[c] BY <2>4 DEF Of
    <2>6. r.name = tok[c] BY <2>2, <2>5, SameName
    <2> QED BY <2>5, <2>6 DEF Named
<1> QED BY <1>1, UserDataInvariant, PTL DEF Spec, ConflictIsTransient

-----------------------------------------------------------------------------
(* The requests that replace the favorites, between their statements.         *)

Plain == [col \in Columns |-> Default]

ReplaceOK ==
    \A c \in Clients :
       step[c] # "idle" /\ (op[c] = "replace" \/ table = "favorites") =>
          /\ op[c] = "replace" /\ table = "favorites" /\ body[c] = NoBody
          /\ step[c] \in {"user", "delete", "insert"}
          /\ todo[c] \subseteq goal[c]
          /\ step[c] # "insert" => todo[c] = goal[c]
          /\ step[c] = "insert" /\ alone[c] =>
                Listed(rows, tok[c]) = goal[c] \ todo[c]

FavoritesPlain == table = "favorites" => \A r \in rows : r.val = Plain

(* What a step of one client leaves of the request of another.                *)
SameRequest(c) ==
    /\ op'[c] = op[c] /\ step'[c] = step[c] /\ tok'[c] = tok[c] /\ uid'[c] = uid[c]
    /\ goal'[c] = goal[c] /\ todo'[c] = todo[c] /\ body'[c] = body[c]

LEMMA OthersReply ==
    ASSUME RequestsOK, NEW c \in Clients, NEW d \in Clients, c # d, NEW w, Reply(d, w)
    PROVE  SameRequest(c)
BY DEF Reply, SameRequest, RequestsOK

LEMMA OthersGoTo ==
    ASSUME RequestsOK, NEW c \in Clients, NEW d \in Clients, c # d, NEW s, GoTo(d, s),
           uid'[c] = uid[c], todo'[c] = todo[c]
    PROVE  SameRequest(c)
BY DEF GoTo, SameRequest, RequestsOK

LEMMA OthersBegin ==
    ASSUME RequestsOK, NEW c \in Clients, NEW d \in Clients, c # d,
           NEW o, NEW n, NEW K, NEW b, Begin(d, o, n, K, b)
    PROVE  SameRequest(c)
BY DEF Begin, SameRequest, RequestsOK

LEMMA OthersAsk ==
    ASSUME RequestsOK, NEW c \in Clients, NEW d \in Clients, c # d, NEW n, Ask(d, n)
    PROVE  SameRequest(c)
BY OthersReply, OthersBegin
   DEF Ask, ReplaceFavorites, PutSettings, RemoveFavorite, ToggleArticle, UnfollowSenator,
       FollowSenator, UpdateFollowPreferences

LEMMA OthersStatement ==
    ASSUME RequestsOK, NEW c \in Clients, NEW d \in Clients, c # d, Statement(d)
    PROVE  SameRequest(c)
<1>1. ASSUME NEW w, Reply(d, w) PROVE SameRequest(c) BY <1>1, OthersReply
<1>2. ASSUME NEW s, GoTo(d, s), UNCHANGED <<uid, todo>> PROVE SameRequest(c)
    BY <1>2, OthersGoTo
<1>3. CASE FindUser(d)
    <2>1. ASSUME NEW u, uid' = [uid EXCEPT ![d] = u], GoTo(d, AfterUser(op[d])),
                 UNCHANGED todo
          PROVE  SameRequest(c)
        BY <2>1, OthersGoTo DEF RequestsOK
    <2> QED BY <1>1, <1>3, <2>1 DEF FindUser
<1>4. CASE InsertNext(d)
    <2>1. ASSUME NEW k, todo' = [todo EXCEPT ![d] = @ \ {k}], GoTo(d, "insert"),
                 UNCHANGED uid
          PROVE  SameRequest(c)
        BY <2>1, OthersGoTo DEF RequestsOK
    <2> QED BY <1>1, <1>4, <2>1 DEF InsertNext
<1>5. CASE Fail(d) \/ DeleteOld(d) \/ ReadArticle(d) \/ UnsaveArticle(d) \/ SaveArticle(d)
    BY <1>1, <1>2, <1>5 DEF Fail, DeleteOld, ReadArticle, UnsaveArticle, SaveArticle
<1>6. CASE ReadSettings(d) \/ UpdateSettings(d) \/ InsertSettings(d) \/ FetchSettings(d)
    BY <1>1, <1>2, <1>6
       DEF ReadSettings, UpdateSettings, InsertSettings, FetchSettings, Written
<1>7. CASE Upsert(d) \/ Unfollow(d) \/ Prefer(d)
    BY <1>1, <1>7 DEF Upsert, Unfollow, Prefer
<1> QED BY <1>3, <1>4, <1>5, <1>6, <1>7 DEF Statement

(* A statement goes on with the request it belongs to, or ends it.             *)
LEMMA StatementKeepsOp ==
    ASSUME RequestsOK, NEW c \in Clients, Statement(c)
    PROVE  step'[c] = "idle" \/ op'[c] = op[c]
<1>1. ASSUME NEW w, Reply(c, w) PROVE step'[c] = "idle" BY <1>1 DEF Reply, RequestsOK
<1>2. ASSUME NEW s, GoTo(c, s) PROVE op'[c] = op[c] BY <1>2 DEF GoTo
<1>3. CASE FindUser(c) \/ Fail(c) BY <1>1, <1>2, <1>3 DEF FindUser, Fail
<1>4. CASE DeleteOld(c) \/ InsertNext(c) BY <1>1, <1>2, <1>4 DEF DeleteOld, InsertNext
<1>5. CASE ReadArticle(c) \/ UnsaveArticle(c) \/ SaveArticle(c)
    BY <1>1, <1>2, <1>5 DEF ReadArticle, UnsaveArticle, SaveArticle
<1>6. CASE ReadSettings(c) \/ UpdateSettings(c) \/ InsertSettings(c) \/ FetchSettings(c)
    BY <1>1, <1>2, <1>6
       DEF ReadSettings, UpdateSettings, InsertSettings, FetchSettings, Written
<1>7. CASE Upsert(c) \/ Unfollow(c) \/ Prefer(c)
    BY <1>1, <1>7 DEF Upsert, Unfollow, Prefer
<1> QED BY <1>3, <1>4, <1>5, <1>6, <1>7 DEF Statement

(* Of a request that replaces the favorites only four statements can be next.  *)
LEMMA ReplaceStatements ==
    ASSUME ReplaceOK, NEW c \in Clients, Statement(c), step[c] # "idle", op[c] = "replace"
    PROVE  FindUser(c) \/ Fail(c) \/ DeleteOld(c) \/ InsertNext(c)
BY DEF ReplaceOK, Statement, ReadArticle, UnsaveArticle, SaveArticle, ReadSettings,
       UpdateSettings, InsertSettings, FetchSettings, Upsert, Unfollow, Prefer

LEMMA StatementNotIdle ==
    ASSUME NEW c \in Clients, Statement(c)
    PROVE  step[c] # "idle"
BY DEF Statement, FindUser, Fail, DeleteOld, InsertNext, ReadArticle, UnsaveArticle,
       SaveArticle, ReadSettings, UpdateSettings, InsertSettings, FetchSettings, Upsert,
       Unfollow, Prefer

(* The DELETE empties the list; an INSERT adds its symbol to it, whatever row    *)
(* of the same id it replaces.                                              *)
LEMMA ListedAfterDelete ==
    ASSUME NEW c \in Clients
    PROVE  Listed(rows \ Named(tok[c]), tok[c]) = {}
BY DEF Listed, Named

LEMMA ListedAfterInsert ==
    ASSUME RequestsOK, NEW c \in Clients, step[c] = "insert", NEW k \in todo[c]
    PROVE  Listed((rows \ At(uid[c], {k})) \cup {NewRow(c, k)}, tok[c])
              = Listed(rows, tok[c]) \cup {k}
<1>1. NewRow(c, k).name = tok[c] /\ NewRow(c, k).key = k BY NewRowOwned
<1>2. \A r \in At(uid[c], {k}) : r.key = k BY DEF At
<1> QED BY <1>1, <1>2 DEF Listed

LEMMA NewFavoritePlain ==
    ASSUME NEW c \in Clients, body[c] = NoBody, NEW k
    PROVE  NewRow(c, k).val = Plain
<1>1. DOMAIN NoBody = {} BY DEF NoBody
<1>2. Over(NoBody, Plain) = Plain BY <1>1 DEF Over, Plain
<1> QED BY <1>2 DEF NewRow, Plain

-----------------------------------------------------------------------------
LEMMA ReplaceStep ==
    ASSUME Inv, ReplaceOK, NEW c \in Clients, Statement(c), op[c] = "replace",
           step'[c] # "idle", alone'[c] => alone[c]
    PROVE  /\ op'[c] = "replace" /\ table' = table /\ body'[c] = NoBody
           /\ step'[c] \in {"user", "delete", "insert"}
           /\ todo'[c] \subseteq goal'[c]
           /\ step'[c] # "insert" => todo'[c] = goal'[c]
           /\ step'[c] = "insert" /\ alone'[c] =>
                 Listed(rows', tok'[c]) = goal'[c] \ todo'[c]
<1> USE DEF Inv
<1>0. step[c] # "idle" BY StatementNotIdle
<1>1. ASSUME NEW w, Reply(c, w) PROVE FALSE BY <1>1 DEF Reply, RequestsOK
<1>2. /\ body[c] = NoBody /\ step[c] \in {"user", "delete", "insert"}
      /\ todo[c] \subseteq goal[c] /\ (step[c] # "insert" => todo[c] = goal[c])
      /\ step[c] = "insert" /\ alone[c] => Listed(rows, tok[c]) = goal[c] \ todo[c]
    BY <1>0 DEF ReplaceOK
<1>3. ASSUME NEW s, GoTo(c, s)
      PROVE  /\ op'[c] = "replace" /\ body'[c] = NoBody /\ goal'[c] = goal[c]
             /\ tok'[c] = tok[c] /\ step'[c] = s
    BY <1>2, <1>3 DEF GoTo, RequestsOK
<1>4. CASE FindUser(c)
    <2>1. GoTo(c, AfterUser(op[c])) /\ UNCHANGED todo /\ table' = table /\ step[c] = "user"
        BY <1>1, <1>4 DEF FindUser
    <2>2. AfterUser(op[c]) = "delete" BY DEF AfterUser
    <2> QED BY <1>2, <1>3, <2>1, <2>2
<1>5. CASE Fail(c) BY <1>1, <1>5 DEF Fail
<1>6. CASE DeleteOld(c)
    <2>1. /\ GoTo(c, "insert") /\ UNCHANGED todo /\ table' = table
          /\ step[c] = "delete" /\ rows' = rows \ Named(tok[c])
        BY <1>1, <1>6 DEF DeleteOld
    <2>2. Listed(rows', tok'[c]) = {} BY <1>3, <2>1, ListedAfterDelete
    <2> QED BY <1>2, <1>3, <2>1, <2>2
<1>7. CASE InsertNext(c)
    <2>1. step[c] = "insert" /\ table' = table BY <1>7 DEF InsertNext
    <2>2. PICK k \in todo[c] :
             /\ rows' = (rows \ At(uid[c], {k})) \cup {NewRow(c, k)}
             /\ todo' = [todo EXCEPT ![c] = @ \ {k}]
             /\ GoTo(c, "insert")
        BY <1>1, <1>7 DEF InsertNext
    <2>3. todo'[c] = todo[c] \ {k} BY <2>2 DEF RequestsOK
    <2>4. Listed(rows', tok'[c]) = Listed(rows, tok[c]) \cup {k}
        BY <1>3, <2>1, <2>2, ListedAfterInsert
    <2>5. alone'[c] => Listed(rows', tok'[c]) = goal'[c] \ todo'[c]
        BY <1>2, <1>3, <2>1, <2>2, <2>3, <2>4
    <2> QED BY <1>2, <1>3, <2>1, <2>2, <2>3, <2>5
<1> QED BY <1>0, <1>4, <1>5, <1>6, <1>7, ReplaceStatements

LEMMA AskStartsFresh ==
    ASSUME Inv, NEW c \in Clients, NEW n \in Names, Ask(c, n), step'[c] # "idle",
           op'[c] = "replace" \/ table' = "favorites"
    PROVE  /\ op'[c] = "replace" /\ table' = "favorites" /\ body'[c] = NoBody
           /\ step'[c] = "user" /\ todo'[c] = goal'[c]
<1>1. ASSUME NEW o, NEW K, NEW b, Begin(c, o, n, K, b)
      PROVE  /\ op'[c] = o /\ table' = table /\ body'[c] = b
             /\ step'[c] = "user" /\ todo'[c] = K /\ goal'[c] = K
    BY <1>1 DEF Begin, Inv, RequestsOK
<1>2. CASE \E K \in SUBSET KeysOf[table] : ReplaceFavorites(c, n, K)
    BY <1>1, <1>2 DEF ReplaceFavorites
<1>3. ASSUME NEW k, NEW v, NEW w, PutSettings(c, n, k, v, w) PROVE FALSE
    BY <1>1, <1>3 DEF PutSettings
<1>4. ASSUME NEW k, RemoveFavorite(c, n, k) PROVE FALSE
    BY <1>4 DEF RemoveFavorite, Reply, Inv, RequestsOK
<1>5. ASSUME NEW k, ToggleArticle(c, n, k) \/ UnfollowSenator(c, n, k) PROVE FALSE
    BY <1>1, <1>5 DEF ToggleArticle, UnfollowSenator
<1>6. ASSUME NEW k, NEW b, FollowSenator(c, n, k, b) \/ UpdateFollowPreferences(c, n, k, b)
      PROVE  FALSE
    BY <1>1, <1>6 DEF FollowSenator, UpdateFollowPreferences
<1> QED BY <1>2, <1>3, <1>4, <1>5, <1>6 DEF Ask

LEMMA ReplaceKept == Inv /\ ReplaceOK /\ [Next]_vars => ReplaceOK'
<1> SUFFICES ASSUME Inv, ReplaceOK, [Next]_vars PROVE ReplaceOK' OBVIOUS
<1>1. CASE UNCHANGED vars BY <1>1 DEF vars, request, ReplaceOK, Listed
<1> SUFFICES ASSUME Next, NEW c \in Clients, step'[c] # "idle",
                    op'[c] = "replace" \/ table' = "favorites"
             PROVE  /\ op'[c] = "replace" /\ table' = "favorites" /\ body'[c] = NoBody
                    /\ step'[c] \in {"user", "delete", "insert"}
                    /\ todo'[c] \subseteq goal'[c]
                    /\ step'[c] # "insert" => todo'[c] = goal'[c]
                    /\ step'[c] = "insert" /\ alone'[c] =>
                          Listed(rows', tok'[c]) = goal'[c] \ todo'[c]
    BY <1>1 DEF ReplaceOK, Listed
<1>2. ASSUME SameRequest(c), table' = table, alone'[c] => alone[c] /\ UNCHANGED rows
      PROVE  /\ op'[c] = "replace" /\ table' = "favorites" /\ body'[c] = NoBody
             /\ step'[c] \in {"user", "delete", "insert"}
             /\ todo'[c] \subseteq goal'[c]
             /\ step'[c] # "insert" => todo'[c] = goal'[c]
             /\ step'[c] = "insert" /\ alone'[c] =>
                   Listed(rows', tok'[c]) = goal'[c] \ todo'[c]
    BY <1>2 DEF SameRequest, ReplaceOK
<1>3. CASE UsersChange /\ Watch({})
    <2>1. SameRequest(c) /\ table' = table BY <1>3 DEF UsersChange, request, SameRequest
    <2>2. alone'[c] => alone[c] /\ UNCHANGED rows
        BY <1>3, <2>1 DEF Watch, SameRequest
    <2> QED BY <1>2, <2>1, <2>2
<1>4. ASSUME NEW d \in Clients, d # c, Statement(d) \/ \E n \in Names : Ask(d, n), Watch({d})
      PROVE  /\ op'[c] = "replace" /\ table' = "favorites" /\ body'[c] = NoBody
             /\ step'[c] \in {"user", "delete", "insert"}
             /\ todo'[c] \subseteq goal'[c]
             /\ step'[c] # "insert" => todo'[c] = goal'[c]
             /\ step'[c] = "insert" /\ alone'[c] =>
                   Listed(rows', tok'[c]) = goal'[c] \ todo'[c]
    <2>1. SameRequest(c) BY <1>4, OthersStatement, OthersAsk DEF Inv
    <2>2. table' = table BY <1>4, StatementSafe, AskSafe DEF Inv
    <2>3. alone'[c] => alone[c] /\ UNCHANGED rows BY <1>4, <2>1 DEF Watch, SameRequest
    <2> QED BY <1>2, <2>1, <2>2, <2>3
<1>5. CASE Statement(c) /\ Watch({c})
    <2>1. step[c] # "idle" BY <1>5, StatementNotIdle
    <2>2. alone'[c] => alone[c] BY <1>5, <2>1 DEF Watch
    <2>3. table' = table BY <1>5, StatementSafe DEF Inv
    <2>4. op'[c] = op[c] BY <1>5, StatementKeepsOp DEF Inv
    <2>5. op[c] = "replace" /\ table = "favorites" BY <2>1, <2>3, <2>4 DEF ReplaceOK
    <2> QED BY <1>5, <2>2, <2>3, <2>5, ReplaceStep
<1>6. CASE \E n \in Names : Ask(c, n)
    BY <1>6, AskStartsFresh
<1> QED BY <1>3, <1>4, <1>5, <1>6 DEF Next

LEMMA PlainKept == Inv /\ ReplaceOK /\ FavoritesPlain /\ [Next]_vars => FavoritesPlain'
<1> SUFFICES ASSUME Inv, ReplaceOK, FavoritesPlain, [Next]_vars, table' = "favorites",
                    NEW q \in rows'
             PROVE  q.val = Plain
    BY DEF FavoritesPlain, Plain
<1>1. ASSUME table' = table, q \in rows PROVE q.val = Plain BY <1>1 DEF FavoritesPlain
<1>2. CASE UNCHANGED vars BY <1>1, <1>2 DEF vars
<1>3. CASE UsersChange BY <1>1, <1>3 DEF UsersChange
<1>4. ASSUME NEW c \in Clients, Statement(c) PROVE q.val = Plain
    <2>1. table' = table BY <1>4, StatementSafe DEF Inv
    <2>2. step[c] # "idle" /\ op[c] = "replace" /\ body[c] = NoBody
        BY <1>4, <2>1, StatementNotIdle DEF ReplaceOK
    <2>3. CASE FindUser(c) \/ Fail(c) BY <1>1, <2>1, <2>3 DEF FindUser, Fail
    <2>4. CASE DeleteOld(c) BY <1>1, <2>1, <2>4 DEF DeleteOld
    <2>5. CASE InsertNext(c)
        <3>1. PICK k \in todo[c] : rows' = (rows \ At(uid[c], {k})) \cup {NewRow(c, k)}
            BY <2>5 DEF InsertNext
        <3>2. NewRow(c, k).val = Plain BY <2>2, NewFavoritePlain
        <3> QED BY <1>1, <2>1, <3>1, <3>2
    <2> QED BY <1>4, <2>2, <2>3, <2>4, <2>5, ReplaceStatements
<1>5. ASSUME NEW c \in Clients, NEW n \in Names, Ask(c, n) PROVE q.val = Plain
    <2>1. table' = table BY <1>5, AskSafe DEF Inv
    <2>2. rows' \subseteq rows
        BY <1>5 DEF Ask, ReplaceFavorites, PutSettings, RemoveFavorite, ToggleArticle,
                    UnfollowSenator, FollowSenator, UpdateFollowPreferences, Begin
    <2> QED BY <1>1, <2>1, <2>2
<1> QED BY <1>2, <1>3, <1>4, <1>5 DEF Next

LEMMA ReplaceInvariant == Spec => [](Inv /\ ReplaceOK /\ FavoritesPlain)
<1>1. Init => ReplaceOK /\ FavoritesPlain BY DEF Init, ReplaceOK, FavoritesPlain
<1> QED BY <1>1, InitSafe, NextSafe, ReplaceKept, PlainKept, PTL DEF Spec

(* Whose step it was that moved a request on.                                *)
LEMMA Mover ==
    ASSUME RequestsOK, [Next]_vars, NEW c \in Clients, step[c] # "idle",
           step'[c] # step[c] \/ todo'[c] # todo[c]
    PROVE  Statement(c)
<1>1. ~SameRequest(c) BY DEF SameRequest
<1>2. CASE UNCHANGED vars BY <1>2 DEF vars, request
<1>3. CASE UsersChange BY <1>3 DEF UsersChange, request
<1>4. ASSUME NEW d \in Clients, d # c, Statement(d) \/ \E n \in Names : Ask(d, n)
      PROVE  FALSE
    BY <1>1, <1>4, OthersStatement, OthersAsk
<1>5. ASSUME NEW n \in Names, Ask(c, n) PROVE FALSE
    BY <1>5 DEF Ask, ReplaceFavorites, PutSettings, RemoveFavorite, ToggleArticle,
                UnfollowSenator, FollowSenator, UpdateFollowPreferences, Begin
<1> QED BY <1>2, <1>3, <1>4, <1>5 DEF Next

(* ConfirmedListStored: a replaced list of favorites that was confirmed is the   *)
(* stored one, if nobody else wrote rows or usernames between its statements.   *)
THEOREM ConfirmedIsStored == Spec => ConfirmedListStored
<1>1. Inv /\ ReplaceOK /\ [Next]_vars =>
        \A c \in Clients :
           Ends(c, "stored") /\ op[c] = "replace" /\ alone[c] =>
              Listed(rows', tok[c]) = goal[c]
    <2> SUFFICES ASSUME Inv, ReplaceOK, [Next]_vars, NEW c \in Clients,
                        Ends(c, "stored"), op[c] = "replace", alone[c]
                 PROVE  Listed(rows', tok[c]) = goal[c]
        OBVIOUS
    <2> USE DEF Inv
    <2>1. step[c] # "idle" /\ step'[c] = "idle" /\ reply' = "stored" BY DEF Ends
    <2>2. Statement(c) BY <2>1, Mover
    <2>3. /\ todo[c] \subseteq goal[c] /\ (step[c] # "insert" => todo[c] = goal[c])
          /\ step[c] = "insert" => Listed(rows, tok[c]) = goal[c] \ todo[c]
        BY <2>1 DEF ReplaceOK
    <2>4. CASE FindUser(c) \/ Fail(c)
        <3>1. reply' = "none" BY <2>4 DEF FindUser, Fail, Reply, GoTo
        <3> QED BY <2>1, <3>1
    <2>5. CASE DeleteOld(c)
        <3>1. step[c] = "delete" /\ rows' = rows \ Named(tok[c]) BY <2>5 DEF DeleteOld
        <3>2. todo[c] = {}
            <4>1. ~GoTo(c, "insert") BY <2>1 DEF GoTo
            <4> QED BY <2>5, <4>1 DEF DeleteOld
        <3> QED BY <2>3, <3>1, <3>2, ListedAfterDelete
    <2>6. CASE InsertNext(c)
        <3>1. step[c] = "insert" BY <2>6 DEF InsertNext
        <3>2. ~GoTo(c, "insert") BY <2>1 DEF GoTo
        <3>3. PICK k \in todo[c] :
                 /\ rows' = (rows \ At(uid[c], {k})) \cup {NewRow(c, k)}
                 /\ todo[c] = {k}
            BY <2>6, <3>2 DEF InsertNext
        <3>4. Listed(rows', tok[c]) = Listed(rows, tok[c]) \cup {k}
            BY <3>1, <3>3, ListedAfterInsert
        <3> QED BY <2>3, <3>1, <3>3, <3>4
    <2> QED BY <2>1, <2>2, <2>4, <2>5, <2>6, ReplaceStatements
<1> QED BY <1>1, ReplaceInvariant, PTL DEF Spec, ConfirmedListStored

-----------------------------------------------------------------------------
(* Whose rows a statement changes.                                           *)

KeepsToOwn(u, b) ==
    /\ \A r \in rows \ rows' : r.id = u
    /\ \A r \in rows' \ rows : r.id = u
    /\ \A r \in rows, q \in rows' :
          r.id = q.id /\ r.key = q.key =>
             \A col \in Columns : r.val[col] # q.val[col] => col \in DOMAIN b

LEMMA RemovingKeeps ==
    ASSUME RowsOK(rows), NEW u, NEW b, NEW S, rows' = rows \ S, \A r \in S : r.id = u
    PROVE  KeepsToOwn(u, b)
BY DEF KeepsToOwn, RowsOK

LEMMA AddingKeeps ==
    ASSUME RowsOK(rows), NEW u, NEW b, NEW q, rows' = rows \cup {q}, q.id = u,
           \A r \in rows : ~(r.id = u /\ r.key = q.key)
    PROVE  KeepsToOwn(u, b)
BY DEF KeepsToOwn, RowsOK

LEMMA UpdatingKeeps ==
    ASSUME RowsOK(rows), NEW u, NEW b, NEW S \in SUBSET rows,
           rows' = (rows \ S) \cup Updated(S, b), \A r \in S : r.id = u
    PROVE  KeepsToOwn(u, b)
<1>1. ASSUME NEW q \in Updated(S, b)
      PROVE  \E r \in S : q.id = r.id /\ q.key = r.key /\ q.val = Over(b, r.val)
    <2>1. PICK r \in S : q = [r EXCEPT !.val = Over(b, r.val)] BY <1>1 DEF Updated
    <2>2. r \in Rows BY DEF RowsOK
    <2> QED BY <2>1, <2>2 DEF Rows
<1>2. ASSUME NEW r \in rows, NEW q \in rows', r.id = q.id, r.key = q.key,
             NEW col \in Columns, r.val[col] # q.val[col]
      PROVE  col \in DOMAIN b
    <2>1. CASE q \in rows BY <1>2, <2>1 DEF RowsOK
    <2>2. CASE q \in Updated(S, b)
        <3>1. PICK p \in S : q.id = p.id /\ q.key = p.key /\ q.val = Over(b, p.val)
            BY <1>1, <2>2
        <3>2. p = r BY <1>2, <3>1 DEF RowsOK
        <3>3. q.val[col] = IF col \in DOMAIN b THEN b[col] ELSE r.val[col]
            BY <3>1, <3>2 DEF Over
        <3> QED BY <1>2, <3>3
    <2> QED BY <2>1, <2>2
<1> QED BY <1>1, <1>2 DEF KeepsToOwn

(* A row listed under the username of a request belongs to its id.             *)
LEMMA NameOwner ==
    ASSUME Inv, Settled, NEW c \in Clients, step[c] \notin {"idle", "user"}, NEW r \in rows,
           r.name = tok[c]
    PROVE  r.id = uid[c]
<1>1. /\ uid[c] \in Ids /\ tok[c] \in held[uid[c]]
      /\ r.id \in Ids /\ tok[c] \in held[r.id]
    BY DEF Inv, RequestsOK, RowsOK, Rows
<1>2. ASSUME NEW u \in Ids, tok[c] \in held[u] PROVE name[u] \in Names /\ name[u] = tok[c]
    BY <1>2 DEF Inv, RegisterOK, Settled
<1> QED BY <1>1, <1>2 DEF Inv, RegisterOK

LEMMA StatementKeeps ==
    ASSUME Inv, ReplaceOK, FavoritesPlain, Settled, NEW c \in Clients, Statement(c)
    PROVE  KeepsToOwn(uid[c], body[c])
<1> USE DEF Inv
<1>1. ASSUME rows' = rows PROVE KeepsToOwn(uid[c], body[c])
    BY <1>1 DEF KeepsToOwn, RowsOK
<1>2. ASSUME step[c] \notin {"idle", "user"}
      PROVE  \A r \in Named(tok[c]) : r.id = uid[c]
    BY <1>2, NameOwner DEF Named
<1>3. ASSUME step[c] \notin {"idle", "user"}, NEW k \in todo[c], At(uid[c], {k}) = {},
             rows' = rows \cup {NewRow(c, k)}
      PROVE  KeepsToOwn(uid[c], body[c])
    <2>1. NewRow(c, k).id = uid[c] /\ NewRow(c, k).key = k BY <1>3, NewRowOwned
    <2>2. \A r \in rows : ~(r.id = uid[c] /\ r.key = k) BY <1>3 DEF At
    <2> QED BY <1>3, <2>1, <2>2, AddingKeeps
<1>4. CASE FindUser(c) \/ Fail(c) \/ ReadArticle(c) \/ ReadSettings(c) \/ FetchSettings(c)
    BY <1>1, <1>4 DEF FindUser, Fail, ReadArticle, ReadSettings, FetchSettings
<1>5. CASE DeleteOld(c)
    BY <1>2, <1>5, RemovingKeeps DEF DeleteOld
<1>6. CASE InsertNext(c)
    <2>1. step[c] = "insert" /\ op[c] = "replace" BY <1>6 DEF InsertNext
    <2>2. PICK k \in todo[c] : rows' = (rows \ At(uid[c], {k})) \cup {NewRow(c, k)}
        BY <1>6 DEF InsertNext
    <2>3. table = "favorites" /\ body[c] = NoBody BY <2>1 DEF ReplaceOK
    <2>4. NewRow(c, k).val = Plain BY <2>3, NewFavoritePlain
    <2>5. NewRow(c, k).id = uid[c] /\ NewRow(c, k).key = k BY <2>1, NewRowOwned
    <2>6. \A r \in rows, q \in rows' : r.val = Plain /\ q.val = Plain
        BY <2>2, <2>3, <2>4 DEF FavoritesPlain
    <2>7. \A r \in At(uid[c], {k}) : r.id = uid[c] BY DEF At
    <2> QED BY <2>2, <2>5, <2>6, <2>7 DEF KeepsToOwn
<1>7. CASE UnsaveArticle(c)
    <2>1. NamedAt(tok[c], todo[c]) \subseteq Named(tok[c]) BY DEF NamedAt, Named
    <2> QED BY <1>2, <1>7, <2>1, RemovingKeeps DEF UnsaveArticle
<1>8. CASE SaveArticle(c)
    <2>1. PICK k \in todo[c] :
              rows' = IF At(uid[c], {k}) = {} THEN rows \cup {NewRow(c, k)} ELSE rows
        BY <1>8 DEF SaveArticle
    <2>2. step[c] = "insert" BY <1>8 DEF SaveArticle
    <2> QED BY <1>1, <1>3, <2>1, <2>2
<1>9. CASE UpdateSettings(c)
    <2>1. Named(tok[c]) \in SUBSET rows BY DEF Named
    <2> QED BY <1>2, <1>9, <2>1, UpdatingKeeps DEF UpdateSettings
<1>10. CASE InsertSettings(c)
    <2>1. step[c] = "insert" BY <1>10 DEF InsertSettings
    <2>2. CASE Of(uid[c]) = {}
        <3>1. PICK k \in todo[c] : rows' = rows \cup {NewRow(c, k)}
            BY <1>10, <2>2 DEF InsertSettings
        <3>2. At(uid[c], {k}) = {} BY <2>2 DEF At, Of
        <3> QED BY <1>3, <2>1, <3>1, <3>2
    <2>3. CASE Of(uid[c]) # {} BY <1>1, <1>10, <2>3 DEF InsertSettings
    <2> QED BY <2>2, <2>3
<1>11. CASE Upsert(c)
    <2>1. step[c] = "upsert" BY <1>11 DEF Upsert
    <2>2. PICK k \in todo[c] :
              rows' = IF At(uid[c], {k}) = {}
                      THEN rows \cup {NewRow(c, k)}
                      ELSE (rows \ At(uid[c], {k})) \cup Updated(At(uid[c], {k}), body[c])
        BY <1>11 DEF Upsert
    <2>3. At(uid[c], {k}) \in SUBSET rows /\ \A r \in At(uid[c], {k}) : r.id = uid[c]
        BY DEF At
    <2> QED BY <1>3, <2>1, <2>2, <2>3, UpdatingKeeps
<1>12. CASE Unfollow(c) \/ Prefer(c)
    <2>1. At(uid[c], todo[c]) \in SUBSET rows /\ \A r \in At(uid[c], todo[c]) : r.id = uid[c]
        BY DEF At
    <2> QED BY <1>12, <2>1, RemovingKeeps, UpdatingKeeps DEF Unfollow, Prefer
<1> QED BY <1>4, <1>5, <1>6, <1>7, <1>8, <1>9, <1>10, <1>11, <1>12 DEF Statement

(* OwnRowsOnly: without renames a statement changes only rows of the user its    *)
(* token names, and of a row that stays only the columns of its endpoint.       *)
THEOREM OnlyOwnRows == Spec => OwnRowsOnly
<1>1. Inv /\ ReplaceOK /\ FavoritesPlain /\ [Next]_vars =>
        \A c \in Clients :
           step[c] # "idle" /\ (step'[c] # step[c] \/ todo'[c] # todo[c]) /\ Settled =>
              KeepsToOwn(uid[c], body[c]) /\ DOMAIN body[c] \subseteq Group(op[c])
    BY Mover, StatementKeeps DEF Inv, RequestsOK
<1>2. ASSUME NEW c \in Clients, KeepsToOwn(uid[c], body[c]), DOMAIN body[c] \subseteq Group(op[c])
      PROVE  /\ \A r \in rows \ rows' : r.id = uid[c]
             /\ \A r \in rows' \ rows : r.id = uid[c]
             /\ \A r \in rows, q \in rows', col \in Columns :
                   r.id = q.id /\ r.key = q.key /\ r.val[col] # q.val[col] =>
                      /\ col \in Group(op[c])
                      /\ op[c] = "prefer" => col \in DOMAIN body[c]
    BY <1>2 DEF KeepsToOwn
<1>3. Inv /\ ReplaceOK /\ FavoritesPlain /\ [Next]_vars =>
        \A c \in Clients :
           step[c] # "idle" /\ (step'[c] # step[c] \/ todo'[c] # todo[c]) /\ Settled =>
              /\ \A r \in rows \ rows' : r.id = uid[c]
              /\ \A r \in rows' \ rows : r.id = uid[c]
              /\ \A r \in rows, q \in rows', col \in Columns :
                    r.id = q.id /\ r.key = q.key /\ r.val[col] # q.val[col] =>
                       /\ col \in Group(op[c])
                       /\ op[c] = "prefer" => col \in DOMAIN body[c]
    BY <1>1, <1>2
<1> QED BY <1>3, ReplaceInvariant, PTL DEF Spec, OwnRowsOnly
=============================================================================

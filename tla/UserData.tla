------------------------------- MODULE UserData -------------------------------
(***************************************************************************)
(* What a signed-in user stores: favorite stocks, saved news, settings,     *)
(* notification preferences and followed senators.                          *)
(*                                                                         *)
(* Every table has user_id in its primary key and a username beside it.  A   *)
(* handler finds the id by the username of the token, and from then on reads *)
(* and writes by one or the other.  Each awaited D1 statement is one action; *)
(* requests interleave, any statement may throw, and usernames are claimed   *)
(* and exchanged meanwhile (UsernameRegister).  No handler that writes uses  *)
(* two of the tables, so a behaviour is about one, chosen at the start.      *)
(* A row has a key (symbol, article, senator) and columns of its own, in the  *)
(* groups the endpoints write; timestamps, titles and the display order are  *)
(* not kept: a list is a set, inserted in any order.                         *)
(***************************************************************************)
EXTENDS UsernameRegister, Integers, FiniteSets

CONSTANTS
    Clients,
    Keys,       \* symbols, articles, senators; one key where a user has one row
    KeysOf,     \* the keys of each table
    Values,     \* of a column
    Sent,       \* those a field of a request may have
    Default,    \* the value of a column an INSERT does not name
    Null,       \* of a column whose field the request left out
    NoOne,      \* no id
    MaxNames    \* bound of the model: the usernames an identity may have had

ASSUME UserDataAssumption ==
    /\ {Default, Null} \subseteq Values
    /\ Sent \subseteq Values \ {Null}
    /\ NoOne \notin Ids
    /\ Unset \notin Ids
    /\ MaxNames \in Nat

Tables == {"favorites", "news", "settings", "preferences", "follows"}

ASSUME KeysAssumption == KeysOf \in [Tables -> SUBSET Keys]

VARIABLES
    table,  \* the table this behaviour is about
    rows,   \* its rows
    op,     \* per client: its request
    step,   \* per client: the statement its request awaits, or "idle"
    tok,    \* per client: the username of its token
    uid,    \* per client: the id found for it
    goal,   \* per client: the keys in its request
    todo,   \* per client: the keys not inserted yet
    body,   \* per client: the columns its statement sets
    alone,  \* ghost, per client: nobody else has written since it began
    reply   \* what the last step answered, "none" if it claimed nothing

request == <<op, step, tok, uid, goal, todo, body>>
vars    == <<name, held, table, rows, request, alone, reply>>

(* first: refresh interval; enabled; on purchase (of a follow)               *)
(* second: cache times; quiet hours, symbols and daily limit; on sale        *)
(* other: news symbols; senator alerts                                      *)
Columns == {"first", "second", "other"}
Rows    == [id : Ids, name : Names, key : Keys, val : [Columns -> Values]]
Bodies  == UNION {[C -> Values] : C \in SUBSET Columns}
Ops     == {"replace", "toggle", "put", "put_news", "follow", "unfollow", "prefer"}
Steps   == {"user", "read", "delete", "insert", "update", "upsert", "fetch"}

(* The columns an endpoint sets; a new row has the others by default.        *)
Group(o) == CASE o \in {"put", "follow", "prefer"} -> {"first", "second"}
              [] o = "put_news" -> {"other"}
              [] o \in {"replace", "toggle", "unfollow"} -> {}

Answers == {"stored", "saved", "unsaved", "conflict"}

TypeOK ==
    /\ name \in [Ids -> Names \cup {Absent, Unset}]
    /\ held \in [Ids -> SUBSET Names]
    /\ table \in Tables
    /\ rows \subseteq Rows
    /\ \A r, q \in rows : r.id = q.id /\ r.key = q.key => r = q
    /\ op \in [Clients -> Ops]
    /\ step \in [Clients -> Steps \cup {"idle"}]
    /\ tok \in [Clients -> Names \cup {Unset}]
    /\ uid \in [Clients -> Ids \cup {NoOne}]
    /\ goal \in [Clients -> SUBSET Keys]
    /\ todo \in [Clients -> SUBSET Keys]
    /\ body \in [Clients -> Bodies]
    /\ alone \in [Clients -> BOOLEAN]
    /\ reply \in Answers \cup {"none"}
    /\ \A c \in Clients :
          /\ DOMAIN body[c] \subseteq Group(op[c])
          /\ step[c] # "idle" => tok[c] \in Names
          /\ step[c] \notin {"idle", "user"} => uid[c] \in Ids

NoBody == [C \in {} |-> Default]

Init ==
    /\ RegisterInit
    /\ table \in Tables
    /\ rows = {}
    /\ op = [c \in Clients |-> "put"]
    /\ step = [c \in Clients |-> "idle"]
    /\ tok = [c \in Clients |-> Unset]
    /\ uid = [c \in Clients |-> NoOne]
    /\ goal = [c \in Clients |-> {}]
    /\ todo = [c \in Clients |-> {}]
    /\ body = [c \in Clients |-> NoBody]
    /\ alone = [c \in Clients |-> FALSE]
    /\ reply = "none"

-----------------------------------------------------------------------------
(* Selections of rows, and the columns of a request over those of a row.     *)

Of(u)       == {r \in rows : r.id = u}
Named(n)    == {r \in rows : r.name = n}
At(u, K)    == {r \in rows : r.id = u /\ r.key \in K}
NamedAt(n, K) == {r \in rows : r.name = n /\ r.key \in K}

Over(b, v)  == [col \in Columns |-> IF col \in DOMAIN b THEN b[col] ELSE v[col]]
Updated(R, b) == {[r EXCEPT !.val = Over(b, r.val)] : r \in R}
NewRow(c, k) == [id |-> uid[c], name |-> tok[c], key |-> k,
                 val |-> Over(body[c], [col \in Columns |-> Default])]

(* What the user is shown, found by the username of the token; what the       *)
(* administrators' listings and the senator alerts show, found by the id.     *)
Listed(R, n)     == {r.key : r \in {q \in R : q.name = n}}
ListedById(R, u) == {r.key : r \in {q \in R : q.id = u}}

Found(n) == {u \in Ids : name[u] = n}

-----------------------------------------------------------------------------
(* A request: a token of a username somebody has had, the keys in its body    *)
(* and the columns it sets; it ends with an answer.                          *)

Begin(c, o, n, K, b) ==
    /\ step[c] = "idle"
    /\ \E u \in Ids : n \in held[u]
    /\ op' = [op EXCEPT ![c] = o]
    /\ step' = [step EXCEPT ![c] = "user"]
    /\ tok' = [tok EXCEPT ![c] = n]
    /\ goal' = [goal EXCEPT ![c] = K]
    /\ todo' = [todo EXCEPT ![c] = K]
    /\ body' = [body EXCEPT ![c] = b]
    /\ reply' = "none"
    /\ UNCHANGED <<name, held, table, rows, uid>>

GoTo(c, s) ==
    /\ step' = [step EXCEPT ![c] = s]
    /\ reply' = "none"
    /\ UNCHANGED <<op, tok, goal, body>>

Reply(c, what) ==
    /\ op' = [op EXCEPT ![c] = "put"]
    /\ step' = [step EXCEPT ![c] = "idle"]
    /\ tok' = [tok EXCEPT ![c] = Unset]
    /\ uid' = [uid EXCEPT ![c] = NoOne]
    /\ goal' = [goal EXCEPT ![c] = {}]
    /\ todo' = [todo EXCEPT ![c] = {}]
    /\ body' = [body EXCEPT ![c] = NoBody]
    /\ reply' = what

(* The mutant of Fail: every error of the INSERT of an article counts as      *)
(* "already saved".                                                         *)
FailAsSaved(c) ==
    /\ step[c] # "idle"
    /\ Reply(c, IF op[c] = "toggle" /\ step[c] = "insert" THEN "saved" ELSE "none")
    /\ UNCHANGED <<name, held, table, rows>>

(* A statement throws, or the body is refused: the request ends there.        *)
Fail(c) ==
    /\ step[c] # "idle"
    /\ Reply(c, "none")
    /\ UNCHANGED <<name, held, table, rows>>

AfterUser(o) ==
    CASE o \in {"replace", "unfollow"}       -> "delete"
      [] o \in {"toggle", "put", "put_news"} -> "read"
      [] o = "follow"                        -> "upsert"
      [] o = "prefer"                        -> "update"

(* The mutant of FindUser: the first row of users, whatever its username.     *)
FindAnyUser(c) ==
    /\ step[c] = "user"
    /\ \/ /\ Found(tok[c]) = {}
          /\ Reply(c, "none")
       \/ \E u \in Ids :
             /\ uid' = [uid EXCEPT ![c] = u]
             /\ GoTo(c, AfterUser(op[c]))
             /\ UNCHANGED todo
    /\ UNCHANGED <<name, held, table, rows>>

(* SELECT id FROM users WHERE username = ?                                  *)
FindUser(c) ==
    /\ step[c] = "user"
    /\ \/ /\ Found(tok[c]) = {}
          /\ Reply(c, "none")
       \/ \E u \in Found(tok[c]) :
             /\ uid' = [uid EXCEPT ![c] = u]
             /\ GoTo(c, AfterUser(op[c]))
             /\ UNCHANGED todo
    /\ UNCHANGED <<name, held, table, rows>>

-----------------------------------------------------------------------------
(* Favorites: updateFavoriteStocks deletes by username and inserts one by     *)
(* one, deleteFavoriteStock is one DELETE.                                   *)

ReplaceFavorites(c, n, K) ==
    table = "favorites" /\ Begin(c, "replace", n, K, NoBody)

(* The mutant of DeleteOld: an empty list is answered before the DELETE.       *)
DeleteOldUnlessEmpty(c) ==
    /\ step[c] = "delete" /\ op[c] = "replace"
    /\ IF todo[c] = {}
       THEN Reply(c, "stored") /\ UNCHANGED rows
       ELSE rows' = rows \ Named(tok[c]) /\ GoTo(c, "insert") /\ UNCHANGED <<uid, todo>>
    /\ UNCHANGED <<name, held, table>>

DeleteOld(c) ==
    /\ step[c] = "delete" /\ op[c] = "replace"
    /\ rows' = rows \ Named(tok[c])
    /\ IF todo[c] = {}
       THEN Reply(c, "stored")
       ELSE GoTo(c, "insert") /\ UNCHANGED <<uid, todo>>
    /\ UNCHANGED <<name, held, table>>

(* INSERT OR REPLACE of one symbol.                                         *)
InsertNext(c) ==
    /\ step[c] = "insert" /\ op[c] = "replace"
    /\ \E k \in todo[c] :
          /\ rows' = (rows \ At(uid[c], {k})) \cup {NewRow(c, k)}
          /\ IF todo[c] = {k}
             THEN Reply(c, "stored")
             ELSE /\ todo' = [todo EXCEPT ![c] = @ \ {k}]
                  /\ GoTo(c, "insert")
                  /\ UNCHANGED uid
    /\ UNCHANGED <<name, held, table>>

RemoveFavorite(c, n, k) ==
    /\ table = "favorites"
    /\ step[c] = "idle"
    /\ \E u \in Ids : n \in held[u]
    /\ rows' = rows \ NamedAt(n, {k})
    /\ Reply(c, "none")
    /\ UNCHANGED <<name, held, table>>

-----------------------------------------------------------------------------
(* Saved news: toggleArchivedNews.                                          *)

ToggleArticle(c, n, k) ==
    table = "news" /\ Begin(c, "toggle", n, {k}, NoBody)

ReadArticle(c) ==
    /\ step[c] = "read" /\ op[c] = "toggle"
    /\ GoTo(c, IF NamedAt(tok[c], todo[c]) = {} THEN "insert" ELSE "delete")
    /\ UNCHANGED <<name, held, table, rows, uid, todo>>

UnsaveArticle(c) ==
    /\ step[c] = "delete" /\ op[c] = "toggle"
    /\ rows' = rows \ NamedAt(tok[c], todo[c])
    /\ Reply(c, "unsaved")
    /\ UNCHANGED <<name, held, table>>

(* The mutant of SaveArticle: the table has no primary key.                   *)
SaveUnkeyed(c) ==
    /\ step[c] = "insert" /\ op[c] = "toggle"
    /\ \E k \in todo[c] : rows' = rows \cup {NewRow(c, k)}
    /\ Reply(c, "saved")
    /\ UNCHANGED <<name, held, table>>

(* A UNIQUE violation is answered as a success, "race condition".             *)
SaveArticle(c) ==
    /\ step[c] = "insert" /\ op[c] = "toggle"
    /\ \E k \in todo[c] :
          rows' = IF At(uid[c], {k}) = {} THEN rows \cup {NewRow(c, k)} ELSE rows
    /\ Reply(c, "saved")
    /\ UNCHANGED <<name, held, table>>

-----------------------------------------------------------------------------
(* Settings and preferences: one row per user, updated where the username     *)
(* matches or else inserted.  "put" sets both columns of its group, the       *)
(* second to NULL when its field is left out.  put_news is                   *)
(* api/user-preferences.ts, which reads nothing back.                        *)

PutSettings(c, n, k, v, w) ==
    \/ /\ table \in {"settings", "preferences"}
       /\ Begin(c, "put", n, {k}, [col \in Group("put") |-> IF col = "first" THEN v ELSE w])
    \/ /\ table = "settings"
       /\ Begin(c, "put_news", n, {k}, [col \in Group("put_news") |-> v])

ReadSettings(c) ==
    /\ step[c] = "read" /\ op[c] \in {"put", "put_news"}
    /\ GoTo(c, IF Named(tok[c]) = {} THEN "insert" ELSE "update")
    /\ UNCHANGED <<name, held, table, rows, uid, todo>>

Written(c) ==
    IF op[c] = "put" THEN GoTo(c, "fetch") /\ UNCHANGED <<uid, todo>>
    ELSE Reply(c, "stored")

UpdateSettings(c) ==
    /\ step[c] = "update" /\ op[c] \in {"put", "put_news"}
    /\ rows' = (rows \ Named(tok[c])) \cup Updated(Named(tok[c]), body[c])
    /\ Written(c)
    /\ UNCHANGED <<name, held, table>>

(* The mutants of InsertSettings: the username column is left out; INSERT OR    *)
(* REPLACE, so that it never throws.                                        *)
InsertUnnamed(c) ==
    /\ step[c] = "insert" /\ op[c] \in {"put", "put_news"}
    /\ IF Of(uid[c]) = {}
       THEN /\ \E k \in todo[c] : rows' = rows \cup {[NewRow(c, k) EXCEPT !.name = Unset]}
            /\ Written(c)
       ELSE Reply(c, "conflict") /\ UNCHANGED rows
    /\ UNCHANGED <<name, held, table>>
ReplaceSettings(c) ==
    /\ step[c] = "insert" /\ op[c] \in {"put", "put_news"}
    /\ \E k \in todo[c] : rows' = (rows \ Of(uid[c])) \cup {NewRow(c, k)}
    /\ Written(c)
    /\ UNCHANGED <<name, held, table>>

(* The INSERT throws when the id has a row by now, under any username.        *)
InsertSettings(c) ==
    /\ step[c] = "insert" /\ op[c] \in {"put", "put_news"}
    /\ IF Of(uid[c]) = {}
       THEN (\E k \in todo[c] : rows' = rows \cup {NewRow(c, k)}) /\ Written(c)
       ELSE Reply(c, "conflict") /\ UNCHANGED rows
    /\ UNCHANGED <<name, held, table>>

FetchSettings(c) ==
    /\ step[c] = "fetch"
    /\ Reply(c, IF Named(tok[c]) = {} THEN "none" ELSE "stored")
    /\ UNCHANGED <<name, held, table, rows>>

-----------------------------------------------------------------------------
(* Followed senators: one statement by id after the look-up.                 *)

FollowSenator(c, n, k, b) ==
    table = "follows" /\ DOMAIN b = Group("follow") /\ Begin(c, "follow", n, {k}, b)

UnfollowSenator(c, n, k) ==
    table = "follows" /\ Begin(c, "unfollow", n, {k}, NoBody)

UpdateFollowPreferences(c, n, k, b) ==
    table = "follows" /\ DOMAIN b \subseteq Group("prefer") /\ Begin(c, "prefer", n, {k}, b)

(* INSERT ... ON CONFLICT(user_id, senator_name) DO UPDATE: the username of    *)
(* the row stays.                                                           *)
Upsert(c) ==
    /\ step[c] = "upsert"
    /\ \E k \in todo[c] :
          rows' = IF At(uid[c], {k}) = {}
                  THEN rows \cup {NewRow(c, k)}
                  ELSE (rows \ At(uid[c], {k})) \cup Updated(At(uid[c], {k}), body[c])
    /\ Reply(c, "stored")
    /\ UNCHANGED <<name, held, table>>

Unfollow(c) ==
    /\ step[c] = "delete" /\ op[c] = "unfollow"
    /\ rows' = rows \ At(uid[c], todo[c])
    /\ Reply(c, "none")
    /\ UNCHANGED <<name, held, table>>

Prefer(c) ==
    /\ step[c] = "update" /\ op[c] = "prefer"
    /\ rows' = (rows \ At(uid[c], todo[c])) \cup Updated(At(uid[c], todo[c]), body[c])
    /\ Reply(c, "none")
    /\ UNCHANGED <<name, held, table>>

-----------------------------------------------------------------------------
Statement(c) ==
    \/ FindUser(c) \/ Fail(c)
    \/ DeleteOld(c) \/ InsertNext(c)
    \/ ReadArticle(c) \/ UnsaveArticle(c) \/ SaveArticle(c)
    \/ ReadSettings(c) \/ UpdateSettings(c) \/ InsertSettings(c) \/ FetchSettings(c)
    \/ Upsert(c) \/ Unfollow(c) \/ Prefer(c)

Ask(c, n) ==
    \/ \E K \in SUBSET KeysOf[table] : ReplaceFavorites(c, n, K)
    \/ \E k \in KeysOf[table] :
          \/ \E v \in Sent, w \in Sent \cup {Null} : PutSettings(c, n, k, v, w)
          \/ RemoveFavorite(c, n, k) \/ ToggleArticle(c, n, k)
          \/ UnfollowSenator(c, n, k)
          \/ \E b \in Bodies :
                /\ \A col \in DOMAIN b : b[col] \in Sent
                /\ FollowSenator(c, n, k, b) \/ UpdateFollowPreferences(c, n, k, b)

(* Usernames come and go as Accounts performs them.                          *)
Rename1(u, n) == Cardinality(held[u]) < MaxNames /\ Rename(u, n)
UsersChange ==
    /\ \E u \in Ids : Enter(u) \/ \E n \in Names : Claim(u, n) \/ Rename1(u, n)
    /\ UNCHANGED <<table, rows, request>>
    /\ reply' = "none"

(* Who is still alone after a step of the clients in S, or of none.           *)
Watch(S) ==
    alone' = [d \in Clients |->
                 /\ step'[d] # "idle"
                 /\ \/ step[d] = "idle"
                    \/ alone[d] /\ (d \in S \/ UNCHANGED <<rows, name, held>>)]

Next ==
    \/ \E c \in Clients :
          /\ Statement(c) \/ \E n \in Names : Ask(c, n)
          /\ Watch({c})
    \/ UsersChange /\ Watch({})

Spec == Init /\ [][Next]_vars

-----------------------------------------------------------------------------
(* Every row carries a username its owner has had, whatever interleaves with   *)
(* a profile update: both columns of a row name one user.                     *)
RowsOwned == \A r \in rows : r.name \in held[r.id]

Settled == \A u \in Ids : \A m, n \in held[u] : m = n

(* While nobody has exchanged a username, the listings by username (the user)  *)
(* and by id (administrators, senator alerts) show the same.                  *)
ListingsAgree ==
    Settled =>
       \A u \in Ids : name[u] \in Names => Listed(rows, name[u]) = ListedById(rows, u)

Ends(c, what) == step[c] # "idle" /\ step'[c] = "idle" /\ reply' = what

(* A confirmed list of favorites is the stored one when nobody else wrote      *)
(* between its statements.                                                  *)
ConfirmedListStored ==
    [][\A c \in Clients :
          Ends(c, "stored") /\ op[c] = "replace" /\ alone[c] =>
             Listed(rows', tok[c]) = goal[c]]_vars

(* The one article answered as saved is in the user's list, also when the      *)
(* INSERT lost the race its comment names.                                   *)
SavedMeansSaved ==
    [][\A c \in Clients :
          Ends(c, "saved") /\ Settled => todo[c] \cap Listed(rows', tok[c]) # {}]_vars

(* The INSERT of settings conflicts only with a row the next attempt finds and  *)
(* updates: a retry succeeds.                                               *)
ConflictIsTransient ==
    [][\A c \in Clients :
          Ends(c, "conflict") /\ Settled => Named(tok[c]) # {}]_vars

(* A statement changes only rows of the user its token names, and of a row      *)
(* that stays only the columns of its endpoint: the settings, the news symbols *)
(* beside them and the preferences never undo each other, whatever was read    *)
(* before; the alert preferences of a follow change only where the request has *)
(* a value.                                                                 *)
OwnRowsOnly ==
    [][\A c \in Clients :
          step[c] # "idle" /\ (step'[c] # step[c] \/ todo'[c] # todo[c]) /\ Settled =>
             /\ \A r \in rows \ rows' : r.id = uid[c]
             /\ \A r \in rows' \ rows : r.id = uid[c]
             /\ \A r \in rows, q \in rows', col \in Columns :
                   r.id = q.id /\ r.key = q.key /\ r.val[col] # q.val[col] =>
                      /\ col \in Group(op[c])
                      /\ op[c] = "prefer" => col \in DOMAIN body[c]]_vars
=============================================================================

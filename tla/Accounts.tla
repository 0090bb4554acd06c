------------------------------- MODULE Accounts -------------------------------
(***************************************************************************)
(* Sign-in, the one-time choice of a username, the session tokens and the   *)
(* profile update, as src/src/api/auth.ts, src/src/auth/middleware.ts and   *)
(* the users controller, service and repository perform them.               *)
(*                                                                         *)
(* A client is one browser or phone with one request in progress and the    *)
(* tokens it keeps.  Each awaited D1 statement is one action; statements of *)
(* different clients interleave and any of them may throw.  A token carries *)
(* a username and nothing else; the identity beside it is a ghost, the row   *)
(* the name was read from.  Signing, expiry times and cookies are data: a    *)
(* token expires when Expire says so.  Google's keys may be out of reach or  *)
(* an id token may be stale, so verification may fail at each use.          *)
(***************************************************************************)
EXTENDS UsernameRegister, Integers, FiniteSets

CONSTANTS
    Clients,
    Emails,
    EmailOf,   \* the e-mail of each identity: UNIQUE in users
    Valid,     \* the usernames validateUsername accepts
    NoToken,
    NoOne,     \* no Google identity
    MaxNames   \* bound of the model: no profile update begins once some
               \* identity has had that many usernames

Tokens   == [id : Ids, name : Names]
Sessions == [access : Tokens \cup {NoToken}, refresh : Tokens \cup {NoToken}]

ASSUME AccountsAssumption ==
    /\ EmailOf \in [Ids -> Emails]
    /\ Valid \subseteq Names
    /\ NoToken \notin Tokens /\ NoOne \notin Ids
    /\ MaxNames \in Nat

VARIABLES
    session,  \* per client: the tokens it keeps
    pc,       \* per client: the statement its request awaits, or "idle"
    id,       \* per client: the identity the request works on
    want,     \* per client: the username in its request body
    row,      \* per client: the username sign-in read
    reply     \* the refusal the last step answered, "none" if it did not refuse

request == <<pc, id, want, row>>
vars    == <<name, held, session, request, reply>>

SignInSteps  == {"signin_select", "signin_touch", "signin_insert"}
SetSteps     == {"set_token", "set_id", "set_count", "set_update", "set_fetch"}
ProfileSteps == {"profile_self", "profile_check", "profile_update",
                 "profile_fetch"}
(* The answers that claim something of a username; of the others only that     *)
(* the request is over matters.                                            *)
Refusals == {"taken", "already_set"}

TypeOK ==
    /\ name \in [Ids -> Names \cup {Absent, Unset}]
    /\ held \in [Ids -> SUBSET Names]
    /\ session \in [Clients -> Sessions]
    /\ pc \in [Clients -> {"idle"} \cup SignInSteps \cup SetSteps \cup ProfileSteps]
    /\ id \in [Clients -> Ids \cup {NoOne}]
    /\ want \in [Clients -> Names \cup {Unset}]
    /\ row \in [Clients -> Names \cup {Unset}]
    /\ reply \in Refusals \cup {"none"}
    /\ \A c \in Clients :
          /\ pc[c] \notin {"idle", "set_token", "set_id", "profile_self"} => id[c] \in Ids
          /\ pc[c] \in SetSteps \cup ProfileSteps => want[c] \in Names

NoSession == [access |-> NoToken, refresh |-> NoToken]

Init ==
    /\ RegisterInit
    /\ session = [c \in Clients |-> NoSession]
    /\ pc = [c \in Clients |-> "idle"]
    /\ id = [c \in Clients |-> NoOne]
    /\ want = [c \in Clients |-> Unset]
    /\ row = [c \in Clients |-> Unset]
    /\ reply = "none"

-----------------------------------------------------------------------------
(* A request: it begins, awaits one statement after another, is answered.    *)

Begin(c, step, u, n) ==
    /\ pc[c] = "idle"
    /\ pc' = [pc EXCEPT ![c] = step]
    /\ id' = [id EXCEPT ![c] = u]
    /\ want' = [want EXCEPT ![c] = n]
    /\ reply' = "none"
    /\ UNCHANGED <<name, held, session, row>>

GoTo(c, step) ==
    /\ pc' = [pc EXCEPT ![c] = step]
    /\ reply' = "none"
    /\ UNCHANGED want

Reply(c, what) ==
    /\ pc' = [pc EXCEPT ![c] = "idle"]
    /\ id' = [id EXCEPT ![c] = NoOne]
    /\ want' = [want EXCEPT ![c] = Unset]
    /\ row' = [row EXCEPT ![c] = Unset]
    /\ reply' = IF what \in Refusals THEN what ELSE "none"

Keep(c, tokens) == session' = [session EXCEPT ![c] = tokens]

Mint(u, n) == [access |-> [id |-> u, name |-> n], refresh |-> [id |-> u, name |-> n]]

(* The mutant of Fail: every failure of the update is reported as a taken     *)
(* name, not only that of the index.                                         *)
FailAsTaken(c) ==
    /\ pc[c] # "idle"
    /\ Reply(c, IF pc[c] = "set_update" THEN "taken" ELSE "internal_error")
    /\ UNCHANGED <<name, held, session>>

(* A statement throws, or its answer is lost: the request is answered 500.   *)
Fail(c) ==
    /\ pc[c] # "idle"
    /\ Reply(c, "internal_error")
    /\ UNCHANGED <<name, held, session>>

(* authenticateRequest: the access token while it is valid, otherwise the    *)
(* refresh token.                                                          *)
Auth(c) == IF session[c].access # NoToken THEN session[c].access ELSE session[c].refresh

Authenticated(c) == Auth(c) # NoToken

(* SELECT ... WHERE username = ?, and WHERE LOWER(username) = LOWER(?).       *)
FoundExactly(n) == {u \in Ids : name[u] = n}
FoundByName(n)  == {u \in Ids : Holds(u, n)}

-----------------------------------------------------------------------------
(* handleGoogleAuth                                                        *)

SignIn(c, u) == Begin(c, "signin_select", u, Unset)

(* The id token is expired or for another client, or the keys are not        *)
(* available.                                                              *)
SignInUnverified(c) ==
    /\ pc[c] = "signin_select"
    /\ Reply(c, "verification_failed")
    /\ UNCHANGED <<name, held, session>>

SignInSelect(c) ==
    /\ pc[c] = "signin_select"
    /\ IF name[id[c]] = Absent
       THEN GoTo(c, "signin_insert") /\ UNCHANGED row
       ELSE GoTo(c, "signin_touch") /\ row' = [row EXCEPT ![c] = name[id[c]]]
    /\ UNCHANGED <<name, held, session, id>>

(* UPDATE last_login_at, then the tokens for the username read before it.     *)
SignInTouch(c) ==
    /\ pc[c] = "signin_touch"
    /\ IF row[c] = Unset
       THEN Reply(c, "requires_username") /\ UNCHANGED session
       ELSE Reply(c, "signed_in") /\ Keep(c, Mint(id[c], row[c]))
    /\ UNCHANGED <<name, held>>

(* The INSERT throws when the id or the e-mail is in the table by now.       *)
InsertAllows(u) ==
    /\ name[u] = Absent
    /\ \A v \in Ids : name[v] # Absent => EmailOf[v] # EmailOf[u]

SignInInsert(c) ==
    /\ pc[c] = "signin_insert"
    /\ IF InsertAllows(id[c])
       THEN name' = [name EXCEPT ![id[c]] = Unset] /\ Reply(c, "requires_username")
       ELSE Reply(c, "internal_error") /\ UNCHANGED name
    /\ UNCHANGED <<held, session>>

-----------------------------------------------------------------------------
(* checkUsernameAvailability: one statement; its answer binds nobody.        *)

CheckName(c, n) ==
    /\ pc[c] = "idle"
    /\ Reply(c, IF n \notin Valid THEN "invalid"
                ELSE IF FoundByName(n) # {} THEN "taken"
                ELSE "available")
    /\ UNCHANGED <<name, held, session>>

(* setUsername: with the tokens of an earlier session if the client keeps    *)
(* any, and the id token of g if the body has one.                          *)
SetUsername(c, n, g) ==
    Begin(c, IF Authenticated(c) THEN "set_token" ELSE "set_id", g, n)

(* The mutant of SetByToken: a valid token is enough, its row is not sought.  *)
SetByTokenUnread(c) ==
    /\ pc[c] = "set_token"
    /\ Reply(c, "already_set")
    /\ UNCHANGED <<name, held, session>>

SetByToken(c) ==
    /\ pc[c] = "set_token"
    /\ IF FoundExactly(Auth(c).name) # {}
       THEN Reply(c, "already_set")
       ELSE GoTo(c, "set_id") /\ UNCHANGED <<id, row>>
    /\ UNCHANGED <<name, held, session>>

(* No identity, or one whose id token does not verify.                      *)
SetUnverified(c) ==
    /\ pc[c] = "set_id"
    /\ Reply(c, "missing_token")
    /\ UNCHANGED <<name, held, session>>

SetById(c) ==
    /\ pc[c] = "set_id" /\ id[c] # NoOne
    /\ CASE name[id[c]] = Absent   -> Reply(c, "not_found")
         [] name[id[c]] \in Names  -> Reply(c, "already_set")
         [] name[id[c]] = Unset /\ want[c] \notin Valid -> Reply(c, "invalid")
         [] name[id[c]] = Unset /\ want[c] \in Valid ->
               GoTo(c, "set_count") /\ UNCHANGED <<id, row>>
    /\ UNCHANGED <<name, held, session>>

SetCount(c) ==
    /\ pc[c] = "set_count"
    /\ IF FoundByName(want[c]) # {}
       THEN Reply(c, "taken")
       ELSE GoTo(c, "set_update") /\ UNCHANGED <<id, row>>
    /\ UNCHANGED <<name, held, session>>

(* The mutants of SetUpdate: the name is stored as it was typed; an update     *)
(* that changed nothing is taken for a success.                              *)
SetUpdateRaw(c) ==
    /\ pc[c] = "set_update"
    /\ IF name[id[c]] = Unset /\ IndexAllows(id[c], want[c])
       THEN /\ SetName(id[c], want[c])
            /\ GoTo(c, "set_fetch")
            /\ UNCHANGED <<id, row>>
       ELSE Reply(c, "taken") /\ UNCHANGED <<name, held>>
    /\ UNCHANGED session
SetUpdateUncounted(c) ==
    /\ pc[c] = "set_update"
    /\ IF name[id[c]] = Unset /\ IndexAllows(id[c], want[c])
       THEN SetName(id[c], Lower[want[c]])
       ELSE UNCHANGED <<name, held>>
    /\ GoTo(c, "set_fetch")
    /\ UNCHANGED <<id, row, session>>

(* UPDATE ... WHERE id = ? AND username IS NULL: changes nothing when the    *)
(* identity has a username by now, throws when the index has the name.       *)
SetUpdate(c) ==
    /\ pc[c] = "set_update"
    /\ IF name[id[c]] = Unset /\ IndexAllows(id[c], want[c])
       THEN /\ SetName(id[c], Lower[want[c]])
            /\ GoTo(c, "set_fetch")
            /\ UNCHANGED <<id, row>>
       ELSE Reply(c, "taken") /\ UNCHANGED <<name, held>>
    /\ UNCHANGED session

(* Tokens for the normalized name, not for the row fetched.                  *)
SetFetch(c) ==
    /\ pc[c] = "set_fetch"
    /\ Keep(c, Mint(id[c], Lower[want[c]]))
    /\ Reply(c, "username_set")
    /\ UNCHANGED <<name, held>>

-----------------------------------------------------------------------------
(* refreshToken, getCurrentUser, getProfile, logout: at most one statement.   *)

Refresh(c) ==
    /\ pc[c] = "idle"
    /\ IF session[c].refresh # NoToken
       THEN /\ session' = [session EXCEPT ![c].access = session[c].refresh]
            /\ Reply(c, "refreshed")
       ELSE Reply(c, "missing_token") /\ UNCHANGED session
    /\ UNCHANGED <<name, held>>

LookUp(c, found) ==
    /\ pc[c] = "idle"
    /\ Reply(c, IF found # {} THEN "found" ELSE "not_found")
    /\ UNCHANGED <<name, held, session>>

GetCurrentUser(c) == Authenticated(c) /\ LookUp(c, FoundExactly(Auth(c).name))
GetProfile(c)     == Authenticated(c) /\ LookUp(c, FoundByName(Auth(c).name))

Logout(c) ==
    /\ pc[c] = "idle"
    /\ Keep(c, NoSession)
    /\ Reply(c, "logged_out")
    /\ UNCHANGED <<name, held>>

(* Tokens expire: access tokens after an hour, refresh tokens after a week.   *)
Expire(c) ==
    /\ pc[c] = "idle"
    /\ \/ session[c].access # NoToken /\ session' = [session EXCEPT ![c].access = NoToken]
       \/ session[c].refresh # NoToken /\ session' = [session EXCEPT ![c].refresh = NoToken]
    /\ reply' = "none"
    /\ UNCHANGED <<name, held, request>>

-----------------------------------------------------------------------------
(* updateProfile with a username in the body.                               *)

UpdateProfile(c, n) ==
    /\ Authenticated(c)
    /\ \A u \in Ids : Cardinality(held[u]) < MaxNames
    /\ Begin(c, "profile_self", NoOne, n)

(* The mutant of ProfileSelf: the id of the row found is not taken over.       *)
ProfileSelfUnidentified(c) ==
    /\ pc[c] = "profile_self"
    /\ IF FoundByName(Auth(c).name) = {}
       THEN Reply(c, "not_found")
       ELSE GoTo(c, "profile_check") /\ UNCHANGED <<id, row>>
    /\ UNCHANGED <<name, held, session>>

ProfileSelf(c) ==
    /\ pc[c] = "profile_self"
    /\ \/ /\ FoundByName(Auth(c).name) = {}
          /\ Reply(c, "not_found")
       \/ \E u \in FoundByName(Auth(c).name) :
             /\ id' = [id EXCEPT ![c] = u]
             /\ GoTo(c, "profile_check")
             /\ UNCHANGED row
    /\ UNCHANGED <<name, held, session>>

ProfileCheck(c) ==
    /\ pc[c] = "profile_check"
    /\ IF FoundByName(want[c]) \subseteq {id[c]}
       THEN GoTo(c, "profile_update") /\ UNCHANGED <<id, row>>
       ELSE Reply(c, "conflict")
    /\ UNCHANGED <<name, held, session>>

(* The username as it was sent; the UNIQUE index throws, answered 500.       *)
ProfileUpdate(c) ==
    /\ pc[c] = "profile_update"
    /\ IF IndexAllows(id[c], want[c])
       THEN SetName(id[c], want[c]) /\ GoTo(c, "profile_fetch") /\ UNCHANGED <<id, row>>
       ELSE Reply(c, "internal_error") /\ UNCHANGED <<name, held>>
    /\ UNCHANGED session

ProfileFetch(c) ==
    /\ pc[c] = "profile_fetch"
    /\ Reply(c, "updated")
    /\ UNCHANGED <<name, held, session>>

-----------------------------------------------------------------------------
Step(c) ==
    \/ SignInUnverified(c) \/ SignInSelect(c) \/ SignInTouch(c) \/ SignInInsert(c)
    \/ SetByToken(c) \/ SetUnverified(c) \/ SetById(c)
    \/ SetCount(c) \/ SetUpdate(c) \/ SetFetch(c)
    \/ ProfileSelf(c) \/ ProfileCheck(c) \/ ProfileUpdate(c) \/ ProfileFetch(c)

Next ==
    \E c \in Clients :
       \/ Step(c) \/ Fail(c)
       \/ Refresh(c) \/ GetCurrentUser(c) \/ GetProfile(c) \/ Logout(c) \/ Expire(c)
       \/ \E u \in Ids : SignIn(c, u)
       \/ \E n \in Names :
             \/ CheckName(c, n) \/ UpdateProfile(c, n)
             \/ \E g \in Ids \cup {NoOne} : SetUsername(c, n, g)

Spec == Init /\ [][Next]_vars

-----------------------------------------------------------------------------
(* Two identities never have usernames that differ only in case: profiles,   *)
(* alerts and devices are looked up by a username alone.                    *)
NamesUnique ==
    \A u, v \in Ids :
       u # v /\ name[u] \in Names /\ name[v] \in Names => Lower[name[u]] # Lower[name[v]]

Kept(c) == {session[c].access, session[c].refresh} \ {NoToken}

(* Every token a client keeps carries a username its identity has had: no     *)
(* interleaving of sign-ins, races and renames mints a token for a username   *)
(* that was only asked for.                                                  *)
TokensAreOwn == \A c \in Clients : \A t \in Kept(c) : t.name \in held[t.id]

(* While nobody has exchanged a username, every token names its identity's    *)
(* row, and with NamesUnique nobody else's.                                  *)
TokensCurrent ==
    (\A u \in Ids : \A m, n \in held[u] : m = n) =>
       \A c \in Clients : \A t \in Kept(c) : FoundExactly(t.name) = {t.id}

Replied(c) == pc[c] # "idle" /\ pc'[c] = "idle"

(* setUsername answers "taken" only while some identity has the name, or the  *)
(* asking one has got a username meanwhile: the comment at auth.ts:621.       *)
TakenExplained ==
    [][\A c \in Clients :
          Replied(c) /\ reply' = "taken" =>
             FoundByName(want[c]) # {} \/ name[id[c]] \in Names]_vars

(* setUsername answers "already set" only when the identity of the id token   *)
(* has a username, or the tokens the client still keeps name a row.           *)
AlreadySetExplained ==
    [][\A c \in Clients :
          Replied(c) /\ reply' = "already_set" =>
             \/ id[c] \in Ids /\ name[id[c]] \in Names
             \/ Authenticated(c) /\ FoundExactly(Auth(c).name) # {}]_vars

(* The statements of concurrent requests implement the atomic register: an    *)
(* identity enters once, its first username is a normalized free one.         *)
ImplementsRegister == RegisterSpec

=============================================================================

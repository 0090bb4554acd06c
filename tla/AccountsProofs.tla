---------------------------- MODULE AccountsProofs ----------------------------
(***************************************************************************)
(* Usernames are unique, tokens carry their identity's own usernames, the    *)
(* handlers implement the username register and setUsername refuses only    *)
(* for a reason, for any number of identities, names and clients.           *)
(*                                                                         *)
(* Neither is inductive alone: a request carries a username it has read or  *)
(* written to a later statement, so the invariant also says what the values  *)
(* in flight are worth.                                                     *)
(***************************************************************************)
EXTENDS Accounts, TLAPS

(* A username in the table is one the identity has had, and it stays named.   *)
NamesHeld ==
    \A u \in Ids :
       /\ name[u] \in Names => name[u] \in held[u]
       /\ held[u] # {} => name[u] \in Names

(* What sign-in, setUsername and updateProfile carry between statements.      *)
RowsRead ==
    \A c \in Clients : pc[c] = "signin_touch" /\ row[c] # Unset => row[c] \in held[id[c]]
NamesWritten ==
    \A c \in Clients : pc[c] = "set_fetch" => Lower[want[c]] \in held[id[c]]
ProfilesNamed ==
    \A c \in Clients :
       pc[c] \in {"profile_check", "profile_update"} => name[id[c]] \in Names

AccountsInv ==
    /\ TypeOK
    /\ NamesUnique
    /\ TokensAreOwn
    /\ NamesHeld
    /\ RowsRead
    /\ NamesWritten
    /\ ProfilesNamed

-----------------------------------------------------------------------------
LEMMA TokenFields == \A t \in Tokens : t.id \in Ids /\ t.name \in Names
BY DEF Tokens

LEMMA LowerTyped == \A n \in Names : Lower[n] \in Names /\ Lower[Lower[n]] = Lower[n]
BY NamesAssumption

LEMMA MintTyped ==
    ASSUME NEW u \in Ids, NEW n \in Names
    PROVE  Mint(u, n) \in Sessions
BY DEF Mint, Sessions, Tokens

LEMMA NoSessionTyped == NoSession \in Sessions
BY DEF NoSession, Sessions

LEMMA AuthTyped ==
    ASSUME TypeOK, NEW c \in Clients
    PROVE  /\ session[c].access \in Tokens \cup {NoToken}
           /\ session[c].refresh \in Tokens \cup {NoToken}
           /\ Auth(c) \in Tokens \cup {NoToken}
BY DEF TypeOK, Sessions, Auth

-----------------------------------------------------------------------------
(* The register: every step is one of its steps or leaves it alone.           *)
RegisterSafe ==
    /\ NamesUnique'
    /\ NamesHeld'
    /\ \A u \in Ids : held[u] \subseteq held'[u]
    /\ \A u \in Ids : name[u] \in Names => name'[u] \in Names

LEMMA RegisterKept ==
    ASSUME TypeOK, NamesUnique, NamesHeld, [RegisterNext]_register
    PROVE  RegisterSafe
<1> USE NamesAssumption, LowerTyped DEF RegisterSafe
<1>1. CASE UNCHANGED register
  BY <1>1 DEF register, NamesUnique, NamesHeld
<1>2. ASSUME NEW u \in Ids, Enter(u) PROVE RegisterSafe
  BY <1>2 DEF Enter, NamesUnique, NamesHeld, TypeOK
<1>3. ASSUME NEW u \in Ids, NEW n \in Names, IndexAllows(u, n), SetName(u, n)
      PROVE  RegisterSafe
  <2>1. /\ name' \in [Ids -> Names \cup {Absent, Unset}]
        /\ name'[u] = n
        /\ \A v \in Ids \ {u} : name'[v] = name[v]
    BY <1>3 DEF SetName, TypeOK
  <2>2. /\ held'[u] = held[u] \cup {n}
        /\ \A v \in Ids \ {u} : held'[v] = held[v]
    BY <1>3 DEF SetName, TypeOK
  <2>3. \A v \in Ids \ {u} : name'[v] \in Names => Lower[name'[v]] # Lower[n]
    BY <1>3, <2>1 DEF IndexAllows, Holds
  <2> QED BY <2>1, <2>2, <2>3 DEF NamesUnique, NamesHeld
<1> QED BY <1>1, <1>2, <1>3 DEF RegisterNext, Claim, Rename

-----------------------------------------------------------------------------
(* What one step of one client has to show: the shape of the request, what it  *)
(* carries, its tokens and its effect on the register.                       *)
StepSafe ==
    /\ TypeOK'
    /\ RowsRead'
    /\ NamesWritten'
    /\ ProfilesNamed'
    /\ TokensAreOwn'
    /\ [RegisterNext]_register

LEMMA BeginSafe ==
    ASSUME AccountsInv, NEW c \in Clients, NEW step \in {"signin_select", "set_token", "set_id", "profile_self"},
           NEW u \in Ids \cup {NoOne}, NEW n \in Names \cup {Unset},
           Begin(c, step, u, n),
           step = "signin_select" => u \in Ids,
           step # "signin_select" => n \in Names
    PROVE  StepSafe
<1> USE DEF AccountsInv
<1>1. TypeOK'
  BY DEF Begin, TypeOK, SignInSteps, SetSteps, ProfileSteps, Refusals
<1>2. RowsRead' /\ NamesWritten' /\ ProfilesNamed'
  BY DEF Begin, TypeOK, RowsRead, NamesWritten, ProfilesNamed
<1>3. TokensAreOwn'
  BY DEF Begin, TokensAreOwn, Kept
<1> QED BY <1>1, <1>2, <1>3 DEF StepSafe, register, Begin

(* An answer with the table and the tokens left alone, or only the tokens      *)
(* exchanged for ones the identity owns.                                      *)
LEMMA ReplySafe ==
    ASSUME AccountsInv, NEW c \in Clients, NEW what, Reply(c, what),
           NEW kept \in Sessions, session' = [session EXCEPT ![c] = kept],
           \A t \in {kept.access, kept.refresh} \ {NoToken} : t.name \in held[t.id],
           UNCHANGED <<name, held>>
    PROVE  StepSafe
<1> USE DEF AccountsInv
<1>1. TypeOK'
  BY DEF Reply, TypeOK, SignInSteps, SetSteps, ProfileSteps, Refusals
<1>2. RowsRead' /\ NamesWritten' /\ ProfilesNamed'
  BY DEF Reply, TypeOK, RowsRead, NamesWritten, ProfilesNamed
<1>3. TokensAreOwn'
  BY DEF TokensAreOwn, Kept, TypeOK
<1> QED BY <1>1, <1>2, <1>3 DEF StepSafe, register

LEMMA RefusalSafe ==
    ASSUME AccountsInv, NEW c \in Clients, NEW what, Reply(c, what),
           UNCHANGED <<name, held, session>>
    PROVE  StepSafe
<1>1. session[c] \in Sessions /\ session' = [session EXCEPT ![c] = session[c]]
  BY DEF AccountsInv, TypeOK
<1>2. \A t \in {session[c].access, session[c].refresh} \ {NoToken} : t.name \in held[t.id]
  BY DEF AccountsInv, TokensAreOwn, Kept
<1> QED BY <1>1, <1>2, ReplySafe

(* From one statement to the next with nothing written.                       *)
LEMMA GoToSafe ==
    ASSUME AccountsInv, NEW c \in Clients,
           NEW step \in SignInSteps \cup SetSteps \cup ProfileSteps, GoTo(c, step),
           UNCHANGED <<name, held, session>>,
           id' \in [Clients -> Ids \cup {NoOne}], row' \in [Clients -> Names \cup {Unset}],
           \A d \in Clients \ {c} : id'[d] = id[d] /\ row'[d] = row[d],
           step \notin {"set_token", "set_id", "profile_self"} => id'[c] \in Ids,
           step \in SetSteps \cup ProfileSteps => want[c] \in Names,
           step = "signin_touch" /\ row'[c] # Unset => row'[c] \in held[id'[c]],
           step # "set_fetch",
           step \in {"profile_check", "profile_update"} => name[id'[c]] \in Names
    PROVE  StepSafe
<1> USE DEF AccountsInv
<1>1. TypeOK'
  BY DEF GoTo, TypeOK, SignInSteps, SetSteps, ProfileSteps, Refusals
<1>2. RowsRead' /\ NamesWritten' /\ ProfilesNamed'
  BY DEF GoTo, TypeOK, RowsRead, NamesWritten, ProfilesNamed
<1>3. TokensAreOwn'
  BY DEF TokensAreOwn, Kept
<1> QED BY <1>1, <1>2, <1>3 DEF StepSafe, register

(* A write to the users table between two statements of one request.          *)
LEMMA WriteSafe ==
    ASSUME AccountsInv, NEW c \in Clients, NEW u \in Ids, NEW n \in Names,
           NEW step \in {"set_fetch", "profile_fetch"}, GoTo(c, step),
           id[c] = u, want[c] \in Names, SetName(u, n), IndexAllows(u, n),
           UNCHANGED <<session, id, row>>,
           name[u] \in Names \/ (name[u] = Unset /\ n = Lower[n]),
           step = "set_fetch" => n = Lower[want[c]]
    PROVE  StepSafe
<1> USE NamesAssumption, LowerTyped DEF AccountsInv
<1>1. RegisterNext
  BY DEF RegisterNext, Claim, Rename
<1>2. RegisterSafe
  BY <1>1, RegisterKept
<1>3. TypeOK'
  BY DEF GoTo, TypeOK, SetName, SignInSteps, SetSteps, ProfileSteps, Refusals
<1>4. held'[u] = held[u] \cup {n}
  BY DEF SetName, TypeOK
<1>5. RowsRead'
  <2> SUFFICES ASSUME NEW d \in Clients, pc'[d] = "signin_touch", row'[d] # Unset
               PROVE  row'[d] \in held'[id'[d]]
    BY DEF RowsRead
  <2>1. pc[d] = "signin_touch"
    BY DEF GoTo, TypeOK
  <2>2. id[d] \in Ids
    BY <2>1 DEF TypeOK
  <2> QED BY <1>2, <2>1, <2>2 DEF RowsRead, RegisterSafe
<1>6. NamesWritten'
  <2> SUFFICES ASSUME NEW d \in Clients, pc'[d] = "set_fetch"
               PROVE  Lower[want'[d]] \in held'[id'[d]]
    BY DEF NamesWritten
  <2>1. CASE d = c
    BY <1>4, <2>1 DEF GoTo, TypeOK
  <2>2. CASE d # c
    <3>1. pc[d] = "set_fetch" /\ want'[d] = want[d]
      BY <2>2 DEF GoTo, TypeOK
    <3>2. id[d] \in Ids
      BY <3>1 DEF TypeOK
    <3> QED BY <1>2, <3>1, <3>2 DEF NamesWritten, RegisterSafe
  <2> QED BY <2>1, <2>2
<1>7. ProfilesNamed'
  <2> SUFFICES ASSUME NEW d \in Clients, pc'[d] \in {"profile_check", "profile_update"}
               PROVE  name'[id'[d]] \in Names
    BY DEF ProfilesNamed
  <2>1. pc[d] \in {"profile_check", "profile_update"}
    BY DEF GoTo, TypeOK
  <2>2. id[d] \in Ids
    BY <2>1 DEF TypeOK
  <2> QED BY <1>2, <2>1, <2>2 DEF ProfilesNamed, RegisterSafe
<1>8. TokensAreOwn'
  <2> SUFFICES ASSUME NEW d \in Clients, NEW t \in Kept(d)'
               PROVE  t.name \in held'[t.id]
    BY DEF TokensAreOwn
  <2>1. t \in Kept(d)
    BY DEF Kept
  <2>2. t.id \in Ids
    BY <2>1, AuthTyped, TokenFields DEF Kept
  <2> QED BY <1>2, <2>1, <2>2 DEF TokensAreOwn, RegisterSafe
<1> QED BY <1>1, <1>3, <1>5, <1>6, <1>7, <1>8 DEF StepSafe, register

LEMMA EnterSafe ==
    ASSUME AccountsInv, NEW c \in Clients, NEW u \in Ids, name[u] = Absent,
           name' = [name EXCEPT ![u] = Unset], UNCHANGED <<held, session>>,
           Reply(c, "requires_username")
    PROVE  StepSafe
<1> USE NamesAssumption DEF AccountsInv
<1>1. RegisterNext
  BY DEF RegisterNext, Enter
<1>2. RegisterSafe
  BY <1>1, RegisterKept
<1>3. TypeOK'
  BY DEF Reply, TypeOK, SignInSteps, SetSteps, ProfileSteps, Refusals
<1>4. RowsRead' /\ NamesWritten'
  BY DEF Reply, TypeOK, RowsRead, NamesWritten
<1>5. ProfilesNamed'
  <2> SUFFICES ASSUME NEW d \in Clients, pc'[d] \in {"profile_check", "profile_update"}
               PROVE  name'[id'[d]] \in Names
    BY DEF ProfilesNamed
  <2>1. pc[d] \in {"profile_check", "profile_update"} /\ id'[d] = id[d]
    BY DEF Reply, TypeOK
  <2>2. id[d] \in Ids
    BY <2>1 DEF TypeOK
  <2> QED BY <1>2, <2>1, <2>2 DEF ProfilesNamed, RegisterSafe
<1>6. TokensAreOwn'
  BY DEF TokensAreOwn, Kept
<1> QED BY <1>1, <1>3, <1>4, <1>5, <1>6 DEF StepSafe, register

-----------------------------------------------------------------------------
(* Each handler's steps.                                                    *)

LEMMA SignInSafe ==
    ASSUME AccountsInv, NEW c \in Clients,
           SignInUnverified(c) \/ SignInSelect(c) \/ SignInTouch(c) \/ SignInInsert(c)
    PROVE  StepSafe
<1> USE DEF AccountsInv
<1>1. CASE SignInUnverified(c)
  BY <1>1, RefusalSafe DEF SignInUnverified
<1>2. CASE SignInSelect(c)
  <2>1. pc[c] = "signin_select" /\ id[c] \in Ids
    BY <1>2 DEF SignInSelect, TypeOK
  <2>2. CASE name[id[c]] = Absent
    <3>1. GoTo(c, "signin_insert") /\ UNCHANGED <<name, held, session, id, row>>
      BY <1>2, <2>2 DEF SignInSelect
    <3>2. "signin_insert" \in SignInSteps \cup SetSteps \cup ProfileSteps
      BY DEF SignInSteps
    <3> QED BY <2>1, <3>1, <3>2, GoToSafe DEF TypeOK, SetSteps, ProfileSteps
  <2>3. CASE name[id[c]] # Absent
    <3>1. /\ GoTo(c, "signin_touch") /\ UNCHANGED <<name, held, session, id>>
          /\ row' = [row EXCEPT ![c] = name[id[c]]]
      BY <1>2, <2>3 DEF SignInSelect
    <3>2. "signin_touch" \in SignInSteps \cup SetSteps \cup ProfileSteps
      BY DEF SignInSteps
    <3>3. name[id[c]] \in Names \cup {Unset} /\ name[id[c]] # Unset => name[id[c]] \in held[id[c]]
      BY <2>1, <2>3 DEF TypeOK, NamesHeld
    <3>4. /\ row' \in [Clients -> Names \cup {Unset}]
          /\ row'[c] = name[id[c]]
          /\ \A d \in Clients \ {c} : row'[d] = row[d]
      BY <2>1, <2>3, <3>1 DEF TypeOK
    <3> QED BY <2>1, <3>1, <3>2, <3>3, <3>4, GoToSafe DEF TypeOK, SetSteps, ProfileSteps
  <2> QED BY <2>2, <2>3
<1>3. CASE SignInTouch(c)
  <2>1. pc[c] = "signin_touch" /\ id[c] \in Ids
    BY <1>3 DEF SignInTouch, TypeOK
  <2>2. CASE row[c] = Unset
    BY <1>3, <2>2, RefusalSafe DEF SignInTouch
  <2>3. CASE row[c] # Unset
    <3>1. row[c] \in Names /\ row[c] \in held[id[c]]
      BY <2>1, <2>3 DEF TypeOK, RowsRead
    <3>2. \A t \in {Mint(id[c], row[c]).access, Mint(id[c], row[c]).refresh} \ {NoToken} :
             t.name \in held[t.id]
      BY <3>1 DEF Mint
    <3> QED BY <1>3, <2>1, <2>3, <3>1, <3>2, MintTyped, ReplySafe DEF SignInTouch, Keep
  <2> QED BY <2>2, <2>3
<1>4. CASE SignInInsert(c)
  <2>1. pc[c] = "signin_insert" /\ id[c] \in Ids
    BY <1>4 DEF SignInInsert, TypeOK
  <2>2. CASE InsertAllows(id[c])
    BY <1>4, <2>1, <2>2, EnterSafe DEF SignInInsert, InsertAllows
  <2>3. CASE ~InsertAllows(id[c])
    BY <1>4, <2>3, RefusalSafe DEF SignInInsert
  <2> QED BY <2>2, <2>3
<1> QED BY <1>1, <1>2, <1>3, <1>4

LEMMA SetUsernameSafe ==
    ASSUME AccountsInv, NEW c \in Clients,
           \/ SetByToken(c) \/ SetUnverified(c) \/ SetById(c)
           \/ SetCount(c) \/ SetUpdate(c) \/ SetFetch(c)
    PROVE  StepSafe
<1> USE DEF AccountsInv
<1>1. CASE SetByToken(c)
  <2>1. CASE FoundExactly(Auth(c).name) # {}
    BY <1>1, <2>1, RefusalSafe DEF SetByToken
  <2>2. CASE FoundExactly(Auth(c).name) = {}
    <3>1. "set_id" \in SignInSteps \cup SetSteps \cup ProfileSteps /\ want[c] \in Names
      BY <1>1 DEF SetByToken, TypeOK, SetSteps
    <3> QED BY <1>1, <2>2, <3>1, GoToSafe DEF SetByToken, TypeOK
  <2> QED BY <2>1, <2>2
<1>2. CASE SetUnverified(c)
  BY <1>2, RefusalSafe DEF SetUnverified
<1>3. CASE SetById(c)
  <2>1. id[c] \in Ids /\ want[c] \in Names /\ name[id[c]] \in Names \cup {Absent, Unset}
    BY <1>3 DEF SetById, TypeOK, SetSteps
  <2>2. CASE name[id[c]] = Unset /\ want[c] \in Valid
    <3>1. GoTo(c, "set_count") /\ UNCHANGED <<name, held, session, id, row>>
      BY <1>3, <2>2, NamesAssumption DEF SetById
    <3>2. "set_count" \in SignInSteps \cup SetSteps \cup ProfileSteps
      BY DEF SetSteps
    <3> QED BY <2>1, <3>1, <3>2, GoToSafe DEF TypeOK
  <2>3. CASE ~(name[id[c]] = Unset /\ want[c] \in Valid)
    <3>1. /\ \/ Reply(c, "not_found") \/ Reply(c, "already_set") \/ Reply(c, "invalid")
          /\ UNCHANGED <<name, held, session>>
      BY <1>3, <2>1, <2>3, NamesAssumption DEF SetById
    <3> QED BY <3>1, RefusalSafe
  <2> QED BY <2>2, <2>3
<1>4. CASE SetCount(c)
  <2>1. id[c] \in Ids /\ want[c] \in Names
    BY <1>4 DEF SetCount, TypeOK, SetSteps
  <2>2. CASE FoundByName(want[c]) # {}
    BY <1>4, <2>2, RefusalSafe DEF SetCount
  <2>3. CASE FoundByName(want[c]) = {}
    <3>1. "set_update" \in SignInSteps \cup SetSteps \cup ProfileSteps
      BY DEF SetSteps
    <3> QED BY <1>4, <2>1, <2>3, <3>1, GoToSafe DEF SetCount, TypeOK
  <2> QED BY <2>2, <2>3
<1>5. CASE SetUpdate(c)
  <2>1. id[c] \in Ids /\ want[c] \in Names
    BY <1>5 DEF SetUpdate, TypeOK, SetSteps
  <2>2. CASE name[id[c]] = Unset /\ IndexAllows(id[c], want[c])
    <3>1. /\ Lower[want[c]] \in Names
          /\ Lower[Lower[want[c]]] = Lower[want[c]]
      BY <2>1, LowerTyped
    <3>2. IndexAllows(id[c], Lower[want[c]])
      BY <2>2, <3>1 DEF IndexAllows, Holds
    <3>3. /\ SetName(id[c], Lower[want[c]])
          /\ GoTo(c, "set_fetch")
          /\ UNCHANGED <<session, id, row>>
      BY <1>5, <2>2 DEF SetUpdate
    <3> QED BY <2>1, <2>2, <3>1, <3>2, <3>3, WriteSafe
  <2>3. CASE ~(name[id[c]] = Unset /\ IndexAllows(id[c], want[c]))
    BY <1>5, <2>3, RefusalSafe DEF SetUpdate
  <2> QED BY <2>2, <2>3
<1>6. CASE SetFetch(c)
  <2>1. /\ id[c] \in Ids /\ want[c] \in Names
        /\ Lower[want[c]] \in held[id[c]]
    BY <1>6 DEF SetFetch, TypeOK, SetSteps, NamesWritten
  <2>2. Mint(id[c], Lower[want[c]]) \in Sessions
    BY <2>1, LowerTyped, MintTyped
  <2>3. \A t \in {Mint(id[c], Lower[want[c]]).access, Mint(id[c], Lower[want[c]]).refresh} \ {NoToken} :
           t.name \in held[t.id]
    BY <2>1 DEF Mint
  <2> QED BY <1>6, <2>2, <2>3, ReplySafe DEF SetFetch, Keep
<1> QED BY <1>1, <1>2, <1>3, <1>4, <1>5, <1>6

LEMMA ProfileSafe ==
    ASSUME AccountsInv, NEW c \in Clients,
           ProfileSelf(c) \/ ProfileCheck(c) \/ ProfileUpdate(c) \/ ProfileFetch(c)
    PROVE  StepSafe
<1> USE DEF AccountsInv
<1>1. CASE ProfileSelf(c)
  <2>1. want[c] \in Names
    BY <1>1 DEF ProfileSelf, TypeOK, ProfileSteps
  <2>2. CASE Reply(c, "not_found")
    BY <1>1, <2>2, RefusalSafe DEF ProfileSelf
  <2>3. ASSUME NEW u \in FoundByName(Auth(c).name), id' = [id EXCEPT ![c] = u],
               GoTo(c, "profile_check"), UNCHANGED row
        PROVE  StepSafe
    <3>1. u \in Ids /\ name[u] \in Names
      BY <2>3 DEF FoundByName, Holds
    <3>2. "profile_check" \in SignInSteps \cup SetSteps \cup ProfileSteps
      BY DEF ProfileSteps
    <3>3. UNCHANGED <<name, held, session>>
      BY <1>1 DEF ProfileSelf
    <3>4. /\ id' \in [Clients -> Ids \cup {NoOne}]
          /\ id'[c] = u
          /\ \A d \in Clients \ {c} : id'[d] = id[d]
      BY <2>3, <3>1 DEF TypeOK
    <3> QED BY <2>1, <2>3, <3>1, <3>2, <3>3, <3>4, GoToSafe DEF TypeOK
  <2> QED BY <1>1, <2>2, <2>3 DEF ProfileSelf
<1>2. CASE ProfileCheck(c)
  <2>1. id[c] \in Ids /\ want[c] \in Names /\ name[id[c]] \in Names
    BY <1>2 DEF ProfileCheck, TypeOK, ProfileSteps, ProfilesNamed
  <2>2. CASE FoundByName(want[c]) \subseteq {id[c]}
    <3>1. "profile_update" \in SignInSteps \cup SetSteps \cup ProfileSteps
      BY DEF ProfileSteps
    <3> QED BY <1>2, <2>1, <2>2, <3>1, GoToSafe DEF ProfileCheck, TypeOK
  <2>3. CASE ~(FoundByName(want[c]) \subseteq {id[c]})
    BY <1>2, <2>3, RefusalSafe DEF ProfileCheck
  <2> QED BY <2>2, <2>3
<1>3. CASE ProfileUpdate(c)
  <2>1. id[c] \in Ids /\ want[c] \in Names /\ name[id[c]] \in Names
    BY <1>3 DEF ProfileUpdate, TypeOK, ProfileSteps, ProfilesNamed
  <2>2. CASE IndexAllows(id[c], want[c])
    BY <1>3, <2>1, <2>2, WriteSafe DEF ProfileUpdate
  <2>3. CASE ~IndexAllows(id[c], want[c])
    BY <1>3, <2>3, RefusalSafe DEF ProfileUpdate
  <2> QED BY <2>2, <2>3
<1>4. CASE ProfileFetch(c)
  BY <1>4, RefusalSafe DEF ProfileFetch
<1> QED BY <1>1, <1>2, <1>3, <1>4

LEMMA SessionSafe ==
    ASSUME AccountsInv, NEW c \in Clients,
           Refresh(c) \/ GetCurrentUser(c) \/ GetProfile(c) \/ Logout(c) \/ Expire(c)
    PROVE  StepSafe
<1> USE DEF AccountsInv
<1>1. /\ session[c].access \in Tokens \cup {NoToken}
      /\ session[c].refresh \in Tokens \cup {NoToken}
      /\ session[c] \in Sessions
      /\ \A t \in {session[c].access, session[c].refresh} \ {NoToken} : t.name \in held[t.id]
  BY AuthTyped DEF TokensAreOwn, Kept, TypeOK
<1>2. CASE Refresh(c)
  <2>1. CASE session[c].refresh = NoToken
    BY <1>2, <2>1, RefusalSafe DEF Refresh
  <2>2. CASE session[c].refresh # NoToken
    <3> DEFINE kept == [session[c] EXCEPT !.access = session[c].refresh]
    <3>1. /\ kept \in Sessions
          /\ kept.access = session[c].refresh /\ kept.refresh = session[c].refresh
      BY <1>1 DEF Sessions
    <3>2. session' = [session EXCEPT ![c] = kept] /\ Reply(c, "refreshed") /\ UNCHANGED <<name, held>>
      BY <1>2, <2>2, <1>1 DEF Refresh, TypeOK
    <3> QED BY <1>1, <3>1, <3>2, ReplySafe
  <2> QED BY <2>1, <2>2
<1>3. CASE GetCurrentUser(c) \/ GetProfile(c)
  BY <1>3, RefusalSafe DEF GetCurrentUser, GetProfile, LookUp
<1>4. CASE Logout(c)
  BY <1>4, NoSessionTyped, ReplySafe DEF Logout, Keep, NoSession
<1>5. CASE Expire(c)
  <2>1. session' \in [Clients -> Sessions]
    BY <1>1, <1>5 DEF Expire, TypeOK, Sessions
  <2>2. TokensAreOwn'
    BY <1>1, <1>5 DEF Expire, TokensAreOwn, Kept, TypeOK, Sessions
  <2>3. TypeOK'
    BY <1>5, <2>1 DEF Expire, TypeOK, request
  <2>4. RowsRead' /\ NamesWritten' /\ ProfilesNamed'
    BY <1>5 DEF Expire, request, RowsRead, NamesWritten, ProfilesNamed
  <2> QED BY <1>5, <2>2, <2>3, <2>4 DEF StepSafe, register, Expire
<1> QED BY <1>2, <1>3, <1>4, <1>5

LEMMA NextSafe ==
    ASSUME AccountsInv, Next
    PROVE  StepSafe
<1> SUFFICES ASSUME NEW c \in Clients,
                    \/ Step(c) \/ Fail(c)
                    \/ Refresh(c) \/ GetCurrentUser(c) \/ GetProfile(c) \/ Logout(c) \/ Expire(c)
                    \/ \E u \in Ids : SignIn(c, u)
                    \/ \E n \in Names :
                          \/ CheckName(c, n) \/ UpdateProfile(c, n)
                          \/ \E g \in Ids \cup {NoOne} : SetUsername(c, n, g)
             PROVE  StepSafe
  BY DEF Next
<1>1. CASE Step(c)
  BY <1>1, SignInSafe, SetUsernameSafe, ProfileSafe DEF Step
<1>2. CASE Fail(c)
  BY <1>2, RefusalSafe DEF Fail
<1>3. CASE Refresh(c) \/ GetCurrentUser(c) \/ GetProfile(c) \/ Logout(c) \/ Expire(c)
  BY <1>3, SessionSafe
<1>4. ASSUME NEW u \in Ids, SignIn(c, u) PROVE StepSafe
  BY <1>4, BeginSafe DEF SignIn
<1>5. ASSUME NEW n \in Names, CheckName(c, n) PROVE StepSafe
  BY <1>5, RefusalSafe DEF CheckName
<1>6. ASSUME NEW n \in Names, UpdateProfile(c, n) PROVE StepSafe
  BY <1>6, BeginSafe DEF UpdateProfile
<1>7. ASSUME NEW n \in Names, NEW g \in Ids \cup {NoOne}, SetUsername(c, n, g) PROVE StepSafe
  BY <1>7, BeginSafe DEF SetUsername
<1> QED BY <1>1, <1>2, <1>3, <1>4, <1>5, <1>6, <1>7

LEMMA Stuttering ==
    ASSUME AccountsInv, UNCHANGED vars
    PROVE  AccountsInv' /\ [RegisterNext]_register
BY DEF AccountsInv, vars, request, register, TypeOK, NamesUnique, TokensAreOwn, Kept,
       NamesHeld, RowsRead, NamesWritten, ProfilesNamed

LEMMA InitSafe == Init => AccountsInv
<1> SUFFICES ASSUME Init PROVE AccountsInv
  OBVIOUS
<1> USE NamesAssumption, AccountsAssumption, NoSessionTyped DEF Init, RegisterInit
<1>1. TypeOK
  BY DEF TypeOK, SetSteps, ProfileSteps, SignInSteps, Refusals
<1>2. NamesUnique /\ NamesHeld
  BY DEF NamesUnique, NamesHeld
<1>3. TokensAreOwn
  BY DEF TokensAreOwn, Kept, NoSession
<1>4. RowsRead /\ NamesWritten /\ ProfilesNamed
  BY DEF RowsRead, NamesWritten, ProfilesNamed
<1> QED BY <1>1, <1>2, <1>3, <1>4 DEF AccountsInv

(* The invariant holds of every behaviour of the handlers.                    *)
THEOREM AccountsCorrect == Spec => []AccountsInv
<1>1. AccountsInv /\ [Next]_vars => AccountsInv'
  <2> SUFFICES ASSUME AccountsInv, [Next]_vars PROVE AccountsInv'
    OBVIOUS
  <2>1. CASE Next
    <3>1. StepSafe
      BY <2>1, NextSafe
    <3>2. RegisterSafe
      BY <3>1, RegisterKept DEF StepSafe, AccountsInv
    <3> QED BY <3>1, <3>2 DEF AccountsInv, StepSafe, RegisterSafe
  <2>2. CASE UNCHANGED vars
    BY <2>2, Stuttering
  <2> QED BY <2>1, <2>2
<1> QED BY InitSafe, <1>1, PTL DEF Spec

(* Every variable of the sign-in, username and profile handlers keeps its type. *)
THEOREM AccountsTypes == Spec => []TypeOK
BY AccountsCorrect, PTL DEF AccountsInv

(* No two identities have usernames that differ only in case, whatever races   *)
(* between checkUsernameAvailability, setUsername and updateProfile.          *)
THEOREM UsernamesAreUnique == Spec => []NamesUnique
BY AccountsCorrect, PTL DEF AccountsInv

(* Sign-in, setUsername and refresh mint tokens only for usernames the identity *)
(* has had.                                                                  *)
THEOREM TokensOwned == Spec => []TokensAreOwn
BY AccountsCorrect, PTL DEF AccountsInv

(* Without renames a token's username finds its identity's row and no other.   *)
THEOREM TokensUpToDate == Spec => []TokensCurrent
<1>1. AccountsInv => TokensCurrent
  <2> SUFFICES ASSUME AccountsInv, \A u \in Ids : \A m, n \in held[u] : m = n,
                      NEW c \in Clients, NEW t \in Kept(c)
               PROVE  FoundExactly(t.name) = {t.id}
    BY DEF TokensCurrent
  <2> USE DEF AccountsInv
  <2>1. t.id \in Ids /\ t.name \in Names /\ t.name \in held[t.id]
    BY AuthTyped, TokenFields DEF Kept, TokensAreOwn
  <2>2. name[t.id] = t.name
    BY <2>1 DEF NamesHeld
  <2>3. \A v \in Ids : name[v] = t.name => v = t.id
    BY <2>1, <2>2 DEF NamesUnique
  <2> QED BY <2>1, <2>2, <2>3 DEF FoundExactly
<1> QED BY <1>1, AccountsCorrect, PTL

(* The interleaved statements implement the atomic username register.         *)
THEOREM RegisterImplemented == Spec => ImplementsRegister
<1>1. Init => RegisterInit
  BY DEF Init
<1>2. AccountsInv /\ [Next]_vars => [RegisterNext]_register
  BY NextSafe, Stuttering DEF StepSafe
<1> QED BY <1>1, <1>2, AccountsCorrect, PTL DEF Spec, ImplementsRegister, RegisterSpec

-----------------------------------------------------------------------------
(* The refusals.  A row that setUsername has read stays in the table.         *)
RowsPresent ==
    \A c \in Clients : pc[c] \in {"set_count", "set_update"} => name[id[c]] # Absent

(* Only four statements, all of setUsername, end a request with a refusal that *)
(* claims something of a username.                                          *)
LEMMA RefusedBy ==
    ASSUME TypeOK, Next, NEW c \in Clients, Replied(c), reply' # "none"
    PROVE  SetByToken(c) \/ SetById(c) \/ SetCount(c) \/ SetUpdate(c)
<1>1. PICK d \in Clients :
         \/ Step(d) \/ Fail(d)
         \/ Refresh(d) \/ GetCurrentUser(d) \/ GetProfile(d) \/ Logout(d) \/ Expire(d)
         \/ \E u \in Ids : SignIn(d, u)
         \/ \E n \in Names :
               \/ CheckName(d, n) \/ UpdateProfile(d, n)
               \/ \E g \in Ids \cup {NoOne} : SetUsername(d, n, g)
  BY DEF Next
<1>2. CASE pc[d] = "idle" /\ (pc'[d] = "idle" \/ reply' = "none") /\ \A e \in Clients \ {d} : pc'[e] = pc[e]
  BY <1>2 DEF Replied
<1>3. CASE Step(d)
  <2>1. CASE SetByToken(d) \/ SetById(d) \/ SetCount(d) \/ SetUpdate(d)
    <3>1. pc'[c] # pc[c] => c = d
      BY <2>1 DEF SetByToken, SetById, SetCount, SetUpdate, Reply, GoTo, TypeOK
    <3> QED BY <2>1, <3>1 DEF Replied
  <2>2. CASE SignInUnverified(d) \/ SignInSelect(d) \/ SignInTouch(d) \/ SignInInsert(d)
    BY <2>2 DEF SignInUnverified, SignInSelect, SignInTouch, SignInInsert, Reply, GoTo, Refusals
  <2>3. CASE SetUnverified(d) \/ SetFetch(d)
    BY <2>3 DEF SetUnverified, SetFetch, Reply, Refusals
  <2>4. CASE ProfileSelf(d) \/ ProfileCheck(d) \/ ProfileUpdate(d) \/ ProfileFetch(d)
    BY <2>4 DEF ProfileSelf, ProfileCheck, ProfileUpdate, ProfileFetch, Reply, GoTo, Refusals
  <2> QED BY <1>3, <2>1, <2>2, <2>3, <2>4 DEF Step
<1>4. CASE Fail(d)
  BY <1>4 DEF Fail, Reply, Refusals
<1>5. CASE Refresh(d) \/ GetCurrentUser(d) \/ GetProfile(d) \/ Logout(d) \/ Expire(d)
  BY <1>5 DEF Refresh, GetCurrentUser, GetProfile, LookUp, Logout, Expire, Reply, Refusals
<1>6. CASE \E u \in Ids : SignIn(d, u)
  BY <1>6 DEF SignIn, Begin
<1>7. ASSUME NEW n \in Names,
             \/ CheckName(d, n) \/ UpdateProfile(d, n)
             \/ \E g \in Ids \cup {NoOne} : SetUsername(d, n, g)
      PROVE  SetByToken(c) \/ SetById(c) \/ SetCount(c) \/ SetUpdate(c)
  <2>1. CASE CheckName(d, n)
    BY <1>2, <2>1 DEF CheckName, Reply, TypeOK
  <2>2. CASE UpdateProfile(d, n)
    BY <2>2 DEF UpdateProfile, Begin
  <2>3. CASE \E g \in Ids \cup {NoOne} : SetUsername(d, n, g)
    BY <2>3 DEF SetUsername, Begin
  <2> QED BY <1>7, <2>1, <2>2, <2>3
<1> QED BY <1>1, <1>3, <1>4, <1>5, <1>6, <1>7

(* A request comes to these two statements only from SetById or one another.   *)
LEMMA PresentKept ==
    ASSUME AccountsInv, RowsPresent, [Next]_vars
    PROVE  RowsPresent'
<1> SUFFICES ASSUME NEW c \in Clients, pc'[c] \in {"set_count", "set_update"}
             PROVE  name'[id'[c]] # Absent
  BY DEF RowsPresent
<1> USE NamesAssumption DEF AccountsInv
<1>1. CASE UNCHANGED vars
  BY <1>1 DEF vars, request, RowsPresent
<1>2. CASE Next
  <2>1. id'[c] = id[c] /\ id[c] \in Ids /\ name[id[c]] # Absent
    <3>1. PICK d \in Clients :
             \/ Step(d) \/ Fail(d)
             \/ Refresh(d) \/ GetCurrentUser(d) \/ GetProfile(d) \/ Logout(d) \/ Expire(d)
             \/ \E u \in Ids : SignIn(d, u)
             \/ \E n \in Names :
                   \/ CheckName(d, n) \/ UpdateProfile(d, n)
                   \/ \E g \in Ids \cup {NoOne} : SetUsername(d, n, g)
      BY <1>2 DEF Next
    <3>2. CASE pc[c] = pc'[c] /\ id'[c] = id[c]
      BY <3>2 DEF RowsPresent, TypeOK
    <3>3. CASE Step(d)
      <4>1. CASE SignInUnverified(d) \/ SignInSelect(d) \/ SignInTouch(d) \/ SignInInsert(d)
        BY <4>1, <3>2 DEF SignInUnverified, SignInSelect, SignInTouch, SignInInsert, Reply, GoTo, TypeOK
      <4>2. CASE SetByToken(d) \/ SetUnverified(d) \/ SetFetch(d)
        BY <4>2, <3>2 DEF SetByToken, SetUnverified, SetFetch, Reply, GoTo, TypeOK
      <4>3. CASE SetById(d)
        <5>1. CASE name[id[d]] = Unset /\ want[d] \in Valid
          BY <4>3, <5>1, <3>2 DEF SetById, GoTo, TypeOK
        <5>2. CASE ~(name[id[d]] = Unset /\ want[d] \in Valid)
          <6>1. Reply(d, "not_found") \/ Reply(d, "already_set") \/ Reply(d, "invalid")
            BY <4>3, <5>2 DEF SetById, TypeOK
          <6> QED BY <6>1, <3>2 DEF Reply, TypeOK
        <5> QED BY <5>1, <5>2
      <4>4. CASE SetCount(d) \/ SetUpdate(d)
        BY <4>4, <3>2 DEF SetCount, SetUpdate, Reply, GoTo, TypeOK, RowsPresent
      <4>5. CASE ProfileSelf(d) \/ ProfileCheck(d) \/ ProfileUpdate(d) \/ ProfileFetch(d)
        BY <4>5, <3>2 DEF ProfileSelf, ProfileCheck, ProfileUpdate, ProfileFetch, Reply, GoTo, TypeOK
      <4> QED BY <3>3, <4>1, <4>2, <4>3, <4>4, <4>5 DEF Step
    <3>4. CASE Fail(d)
      BY <3>4, <3>2 DEF Fail, Reply, TypeOK
    <3>5. CASE Refresh(d) \/ GetCurrentUser(d) \/ GetProfile(d) \/ Logout(d) \/ Expire(d)
      BY <3>5, <3>2 DEF Refresh, GetCurrentUser, GetProfile, LookUp, Logout, Expire, request, Reply, TypeOK
    <3>6. CASE \E u \in Ids : SignIn(d, u)
      BY <3>6, <3>2 DEF SignIn, Begin, TypeOK
    <3>7. CASE \E n \in Names :
                  \/ CheckName(d, n) \/ UpdateProfile(d, n)
                  \/ \E g \in Ids \cup {NoOne} : SetUsername(d, n, g)
      BY <3>7, <3>2 DEF CheckName, UpdateProfile, SetUsername, Begin, Reply, Authenticated, TypeOK
    <3> QED BY <3>1, <3>3, <3>4, <3>5, <3>6, <3>7
  <2>2. [RegisterNext]_register
    BY <1>2, NextSafe DEF StepSafe
  <2>3. name'[id[c]] # Absent
    BY <2>1, <2>2 DEF RegisterNext, register, Enter, Claim, Rename, SetName, TypeOK
  <2> QED BY <2>1, <2>3
<1> QED BY <1>1, <1>2

LEMMA AccountsPresent == Spec => [](AccountsInv /\ RowsPresent)
<1>1. Init => RowsPresent
  BY DEF Init, RowsPresent
<1> QED BY <1>1, PresentKept, AccountsCorrect, PTL DEF Spec

(* setUsername answers "taken" only while the name is held, or the asking       *)
(* identity has got one meanwhile, in any interleaving.                      *)
THEOREM TakenIsExplained == Spec => TakenExplained
<1>1. ASSUME AccountsInv, RowsPresent, [Next]_vars, NEW c \in Clients,
             Replied(c), reply' = "taken"
      PROVE  FoundByName(want[c]) # {} \/ name[id[c]] \in Names
  <2>1. Next
    BY <1>1 DEF vars, request, Replied
  <2>2. CASE SetByToken(c) \/ SetById(c)
    BY <1>1, <2>2, NamesAssumption DEF SetByToken, SetById, Reply, GoTo, Refusals, AccountsInv, TypeOK, SetSteps
  <2>3. CASE SetCount(c)
    BY <1>1, <2>3 DEF SetCount, GoTo
  <2>4. CASE SetUpdate(c)
    <3>1. id[c] \in Ids /\ name[id[c]] \in Names \cup {Unset}
      BY <1>1, <2>4 DEF SetUpdate, RowsPresent, AccountsInv, TypeOK, SetSteps
    <3>2. ~(name[id[c]] = Unset /\ IndexAllows(id[c], want[c]))
      BY <1>1, <2>4 DEF SetUpdate, GoTo
    <3> QED BY <3>1, <3>2 DEF IndexAllows, FoundByName
  <2> QED BY <1>1, <2>1, <2>2, <2>3, <2>4, RefusedBy DEF AccountsInv
<1>2. AccountsInv /\ RowsPresent /\ [Next]_vars =>
         [\A c \in Clients :
             Replied(c) /\ reply' = "taken" =>
                FoundByName(want[c]) # {} \/ name[id[c]] \in Names]_vars
  BY <1>1
<1> QED BY <1>2, AccountsPresent, PTL DEF Spec, TakenExplained

(* The token setUsername works on is kept until its row has been sought.       *)
TokensPresented ==
    \A c \in Clients : pc[c] = "set_token" => Authenticated(c)

LEMMA PresentedKept ==
    ASSUME TypeOK, TokensPresented, [Next]_vars
    PROVE  TokensPresented'
<1> SUFFICES ASSUME NEW c \in Clients, pc'[c] = "set_token"
             PROVE  Authenticated(c)'
  BY DEF TokensPresented
<1>1. CASE UNCHANGED vars
  BY <1>1 DEF vars, request, TokensPresented, Authenticated, Auth
<1>2. CASE Next
  <2>1. PICK d \in Clients :
           \/ Step(d) \/ Fail(d)
           \/ Refresh(d) \/ GetCurrentUser(d) \/ GetProfile(d) \/ Logout(d) \/ Expire(d)
           \/ \E u \in Ids : SignIn(d, u)
           \/ \E n \in Names :
                 \/ CheckName(d, n) \/ UpdateProfile(d, n)
                 \/ \E g \in Ids \cup {NoOne} : SetUsername(d, n, g)
    BY <1>2 DEF Next
  <2>2. CASE pc[c] = "set_token" /\ session'[c] = session[c]
    BY <2>2 DEF TokensPresented, Authenticated, Auth
  <2>3. CASE SignInUnverified(d) \/ SignInSelect(d) \/ SignInTouch(d) \/ SignInInsert(d)
    BY <2>2, <2>3 DEF SignInUnverified, SignInSelect, SignInTouch, SignInInsert, Keep, Reply, GoTo, TypeOK
  <2>4. CASE SetByToken(d) \/ SetUnverified(d) \/ SetCount(d) \/ SetUpdate(d) \/ SetFetch(d)
    BY <2>2, <2>4 DEF SetByToken, SetUnverified, SetCount, SetUpdate, SetFetch, Keep, Reply, GoTo, TypeOK
  <2>5. CASE SetById(d)
    <3>1. /\ \/ Reply(d, "not_found") \/ Reply(d, "already_set") \/ Reply(d, "invalid")
             \/ GoTo(d, "set_count")
          /\ UNCHANGED session
      BY <2>5 DEF SetById, TypeOK
    <3> QED BY <2>2, <3>1 DEF Reply, GoTo, TypeOK
  <2>6. CASE ProfileSelf(d) \/ ProfileCheck(d) \/ ProfileUpdate(d) \/ ProfileFetch(d)
    BY <2>2, <2>6 DEF ProfileSelf, ProfileCheck, ProfileUpdate, ProfileFetch, Reply, GoTo, TypeOK
  <2>7. CASE Fail(d)
    BY <2>2, <2>7 DEF Fail, Reply, TypeOK
  <2>8. CASE Refresh(d) \/ GetCurrentUser(d) \/ GetProfile(d) \/ Logout(d) \/ Expire(d)
    BY <2>2, <2>8 DEF Refresh, GetCurrentUser, GetProfile, LookUp, Logout, Expire, Keep, request, Reply, TypeOK
  <2>9. CASE \E u \in Ids : SignIn(d, u)
    BY <2>2, <2>9 DEF SignIn, Begin, TypeOK
  <2>10. ASSUME NEW n \in Names, CheckName(d, n) \/ UpdateProfile(d, n)
         PROVE  Authenticated(c)'
    BY <2>2, <2>10 DEF CheckName, UpdateProfile, Begin, Reply, TypeOK
  <2>11. ASSUME NEW n \in Names, NEW g \in Ids \cup {NoOne}, SetUsername(d, n, g)
         PROVE  Authenticated(c)'
    <3>1. CASE d = c
      <4>1. Authenticated(c)
        BY <2>11, <3>1 DEF SetUsername, Begin, TypeOK
      <4> QED BY <2>11, <4>1 DEF SetUsername, Begin, Authenticated, Auth
    <3>2. CASE d # c
      BY <2>2, <2>11, <3>2 DEF SetUsername, Begin, TypeOK
    <3> QED BY <3>1, <3>2
  <2> QED BY <2>1, <2>3, <2>4, <2>5, <2>6, <2>7, <2>8, <2>9, <2>10, <2>11 DEF Step
<1> QED BY <1>1, <1>2

LEMMA AccountsPresented == Spec => [](AccountsInv /\ TokensPresented)
<1>1. Init => TokensPresented
  BY DEF Init, TokensPresented
<1>2. AccountsInv /\ TokensPresented /\ [Next]_vars => TokensPresented'
  BY PresentedKept DEF AccountsInv
<1> QED BY <1>1, <1>2, AccountsCorrect, PTL DEF Spec

(* setUsername answers "already set" only for an identity with a username, or    *)
(* a session whose token still names a row.                                  *)
THEOREM AlreadySetIsExplained == Spec => AlreadySetExplained
<1>1. ASSUME AccountsInv, TokensPresented, [Next]_vars, NEW c \in Clients,
             Replied(c), reply' = "already_set"
      PROVE  \/ id[c] \in Ids /\ name[id[c]] \in Names
             \/ Authenticated(c) /\ FoundExactly(Auth(c).name) # {}
  <2>1. Next
    BY <1>1 DEF vars, request, Replied
  <2>2. CASE SetByToken(c)
    <3>1. Authenticated(c) /\ FoundExactly(Auth(c).name) # {}
      BY <1>1, <2>2 DEF SetByToken, GoTo, TokensPresented
    <3> QED BY <3>1
  <2>3. CASE SetById(c)
    <3>1. id[c] \in Ids /\ name[id[c]] \in Names \cup {Absent, Unset}
      BY <1>1, <2>3 DEF SetById, AccountsInv, TypeOK
    <3> QED BY <1>1, <2>3, <3>1, NamesAssumption DEF SetById, Reply, GoTo, Refusals
  <2>4. CASE SetCount(c) \/ SetUpdate(c)
    BY <1>1, <2>4 DEF SetCount, SetUpdate, Reply, GoTo
  <2> QED BY <1>1, <2>1, <2>2, <2>3, <2>4, RefusedBy DEF AccountsInv
<1>2. AccountsInv /\ TokensPresented /\ [Next]_vars =>
         [\A c \in Clients :
             Replied(c) /\ reply' = "already_set" =>
                \/ id[c] \in Ids /\ name[id[c]] \in Names
                \/ Authenticated(c) /\ FoundExactly(Auth(c).name) # {}]_vars
  BY <1>1
<1> QED BY <1>2, AccountsPresented, PTL DEF Spec, AlreadySetExplained
=============================================================================

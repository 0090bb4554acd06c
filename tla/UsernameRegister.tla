-------------------------- MODULE UsernameRegister --------------------------
(***************************************************************************)
(* What the users table promises the rest of the program, without requests, *)
(* tokens or statements: an identity enters once, claims a username once,   *)
(* and no two identities hold usernames that differ only in case.  A        *)
(* profile update may exchange a username for another free one.             *)
(***************************************************************************)
CONSTANTS
    Ids,      \* Google identities: users.id, the sub claim
    Names,    \* usernames, in every spelling
    Lower,    \* the lower-case spelling of each
    Absent,   \* no row in users
    Unset     \* a row whose username is NULL

ASSUME NamesAssumption ==
    /\ Lower \in [Names -> Names]
    /\ \A n \in Names : Lower[Lower[n]] = Lower[n]
    /\ Absent \notin Names /\ Unset \notin Names /\ Absent # Unset

VARIABLES
    name,  \* users.username by id
    held   \* the usernames an identity has had so far

register == <<name, held>>

RegisterInit ==
    /\ name = [u \in Ids |-> Absent]
    /\ held = [u \in Ids |-> {}]

Holds(u, n) == name[u] \in Names /\ Lower[name[u]] = Lower[n]

(* The mutant of IndexAllows: an index on username, not on LOWER(username).    *)
IndexAllowsExact(u, n) == \A v \in Ids \ {u} : name[v] # n

(* The UNIQUE index on LOWER(username) where username is not null.          *)
IndexAllows(u, n) == \A v \in Ids \ {u} : ~Holds(v, n)

SetName(u, n) ==
    /\ name' = [name EXCEPT ![u] = n]
    /\ held' = [held EXCEPT ![u] = @ \cup {n}]

Enter(u) ==
    /\ name[u] = Absent
    /\ name' = [name EXCEPT ![u] = Unset]
    /\ UNCHANGED held

Claim(u, n) ==
    /\ name[u] = Unset
    /\ n = Lower[n]
    /\ IndexAllows(u, n)
    /\ SetName(u, n)

Rename(u, n) ==
    /\ name[u] \in Names
    /\ IndexAllows(u, n)
    /\ SetName(u, n)

RegisterNext ==
    \E u \in Ids : Enter(u) \/ \E n \in Names : Claim(u, n) \/ Rename(u, n)

RegisterSpec == RegisterInit /\ [][RegisterNext]_register
=============================================================================

----------------------------- MODULE MCUserData -----------------------------
(* A small instance of UserData for TLC: two users, two usernames, two keys. *)
EXTENDS UserData, TLC

CONSTANTS u1, u2, al, bo, k1, k2, k3, one, c1, c2, Other

MCLower == (al :> al) @@ (bo :> bo)
MCKeysOf == [favorites |-> {k1, k2}, news |-> {k3}, follows |-> {k3},
             settings |-> {one}, preferences |-> {one}]
Symmetry == Permutations({k1, k2}) \cup Permutations(Clients)
               \cup Permutations(Ids) \cup Permutations(Names)
=============================================================================

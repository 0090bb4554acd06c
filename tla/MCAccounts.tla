----------------------------- MODULE MCAccounts -----------------------------
(* A small instance of Accounts for TLC: al and AL differ only in case, and  *)
(* the e-mails of the two identities differ.                                *)
EXTENDS Accounts, TLC

CONSTANTS u1, u2, al, AL, bo, c1, c2, e1, e2

MCLower    == (al :> al) @@ (AL :> al) @@ (bo :> bo)
MCEmailOf  == (u1 :> e1) @@ (u2 :> e2)
ClientSymmetry == Permutations(Clients)
=============================================================================

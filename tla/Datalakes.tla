------------------------------- MODULE Datalakes -------------------------------
(***************************************************************************)
(* Datalakes, the providers an administrator adds, and which of them is       *)
(* selected to answer one API endpoint.                                      *)
(*                                                                         *)
(* Every request is a sequence of D1 statements, not a transaction, and two  *)
(* administrators interleave between any two of them.  The statements before *)
(* the first write are one step where a row read by one of them is not       *)
(* written by anybody (the endpoint) or is read once (the datalake).         *)
(***************************************************************************)
EXTENDS FiniteSets, Integers

CONSTANTS
    Lakes,          \* identifiers, generated once
    DefaultLake,    \* fmp-default, which the migration inserts and selects
    Names,
    DefaultName,
    Lowered,        \* Lowered[n]: n in lower case
    Admins

VARIABLES
    lakes,      \* table datalakes
    mapping,    \* table datalake_api_mappings, for the endpoint
    req,        \* per administrator: the request
    expected    \* ghost: the sets of datalakes that may be selected

vars == <<lakes, mapping, req, expected>>

Rows == [name : Names, active : BOOLEAN]
NoRow == [gone |-> FALSE]
Deleted == [gone |-> TRUE]

Present(l) == lakes[l] \in Rows
Selected == {l \in Lakes : mapping[l] = "on"}

Idle == [st |-> "idle"]
Edits == [name : Names, active : BOOLEAN]
Requests ==
    [st : {"clear", "find", "on", "insert"}, lake : Lakes, alone : BOOLEAN]
      \cup [st : {"unmap", "remove"}, lake : Lakes]
      \cup [st : {"names", "write"}, lake : Lakes, row : Edits]
      \cup [st : {"create"}, row : Edits]

TypeOK ==
    /\ \A l \in Lakes :
          /\ lakes[l] \in Rows \cup {NoRow, Deleted}
          /\ mapping[l] \in {"none", "off", "on"}
          /\ mapping[l] # "none" => Present(l)
    /\ \A l, k \in Lakes :
          l # k /\ Present(l) /\ Present(k) => lakes[l].name # lakes[k].name
    /\ \A a \in Admins : req[a] \in {Idle} \cup Requests
    /\ expected \subseteq SUBSET Lakes

Init ==
    /\ lakes = [l \in Lakes |->
                  IF l = DefaultLake THEN [name |-> DefaultName, active |-> TRUE] ELSE NoRow]
    /\ mapping = [l \in Lakes |-> IF l = DefaultLake THEN "on" ELSE "none"]
    /\ req = [a \in Admins |-> Idle]
    /\ expected = {{DefaultLake}}
-----------------------------------------------------------------------------
Begin(a, r) == req' = [req EXCEPT ![a] = r]
End(a) == Begin(a, Idle)
GoTo(a, st) == req' = [req EXCEPT ![a].st = st]

(* The statement of a throws, or the answer to it is lost after the step. *)
StatementFails(a) ==
    /\ req[a] # Idle
    /\ End(a)
    /\ UNCHANGED <<lakes, mapping, expected>>

(* The check for a name compares in lower case, the UNIQUE index does not.   *)
NameTaken(n, besides) ==
    \E l \in Lakes \ besides : Present(l) /\ Lowered[lakes[l].name] = Lowered[n]
IndexRefuses(n, besides) ==
    \E l \in Lakes \ besides : Present(l) /\ lakes[l].name = n
-----------------------------------------------------------------------------
CreateChecks(a, row) ==
    /\ req[a] = Idle
    /\ ~NameTaken(row.name, {})
    /\ Begin(a, [st |-> "create", row |-> row])
    /\ UNCHANGED <<lakes, mapping, expected>>

CreateInserts(a, l) ==
    /\ req[a].st = "create"
    /\ lakes[l] = NoRow
    /\ lakes' = IF IndexRefuses(req[a].row.name, {}) THEN lakes
                ELSE [lakes EXCEPT ![l] = req[a].row]
    /\ End(a)
    /\ UNCHANGED <<mapping, expected>>

(* The names are listed only when the update changes the one read here.      *)
UpdateReads(a, l, row) ==
    /\ req[a] = Idle
    /\ Present(l)
    /\ Begin(a, [st |-> IF row.name = lakes[l].name THEN "write" ELSE "names",
                 lake |-> l, row |-> row])
    /\ UNCHANGED <<lakes, mapping, expected>>

UpdateChecks(a) ==
    /\ req[a].st = "names"
    /\ IF NameTaken(req[a].row.name, {req[a].lake}) THEN End(a) ELSE GoTo(a, "write")
    /\ UNCHANGED <<lakes, mapping, expected>>

(* Mutant: the name is only checked, before the statement. *)
UpdateUnindexed(a) ==
    /\ req[a].st = "write"
    /\ lakes' = IF Present(req[a].lake) THEN [lakes EXCEPT ![req[a].lake] = req[a].row] ELSE lakes
    /\ End(a)
    /\ UNCHANGED <<mapping, expected>>

(* Nothing is written when the row is gone, or the index refuses the name.   *)
UpdateWrites(a) ==
    LET l == req[a].lake
    IN  /\ req[a].st = "write"
        /\ lakes' = IF Present(l) /\ ~IndexRefuses(req[a].row.name, {l})
                    THEN [lakes EXCEPT ![l] = req[a].row] ELSE lakes
        /\ End(a)
        /\ UNCHANGED <<mapping, expected>>

DeleteChecks(a, l) ==
    /\ req[a] = Idle
    /\ Present(l) /\ l # DefaultLake
    /\ Begin(a, [st |-> "unmap", lake |-> l])
    /\ UNCHANGED <<lakes, mapping, expected>>

(* Selections between their first write and their last statement.            *)
Selecting == {b \in Admins : req[b].st \in {"find", "on", "insert"}}

DeleteMappings(a) ==
    LET l   == req[a].lake
        met == {b \in Selecting : req[b].lake = l}
    IN  /\ req[a].st = "unmap"
        /\ mapping' = [mapping EXCEPT ![l] = "none"]
        /\ expected' = {chosen \ {l} : chosen \in expected}
                         \cup (IF met = {} THEN {} ELSE expected)
        /\ req' = [b \in Admins |->
                     IF b = a THEN [req[a] EXCEPT !.st = "remove"]
                     ELSE IF b \in met THEN [req[b] EXCEPT !.alone = FALSE]
                     ELSE req[b]]
        /\ UNCHANGED lakes

(* The foreign key keeps a datalake that was mapped again meanwhile.         *)
DeleteLake(a) ==
    /\ req[a].st = "remove"
    /\ lakes' = IF mapping[req[a].lake] = "none"
                THEN [lakes EXCEPT ![req[a].lake] = Deleted] ELSE lakes
    /\ End(a)
    /\ UNCHANGED <<mapping, expected>>
-----------------------------------------------------------------------------
SelectChecks(a, l) ==
    /\ req[a] = Idle
    /\ Present(l) /\ lakes[l].active
    /\ Begin(a, [st |-> "clear", lake |-> l, alone |-> TRUE])
    /\ UNCHANGED <<lakes, mapping, expected>>

(* Mutant: only the mapping found later is written. *)
UnselectedNone == mapping

Unselected == [l \in Lakes |-> IF mapping[l] = "on" THEN "off" ELSE mapping[l]]

UnselectAll(a) ==
    /\ req[a].st = "clear"
    /\ mapping' = Unselected
    /\ expected' = IF Selecting = {} THEN {chosen \in SUBSET Lakes : Cardinality(chosen) <= 1}
                   ELSE SUBSET Lakes
    /\ req' = [b \in Admins |->
                 IF b = a THEN [req[a] EXCEPT !.st = "find", !.alone = (Selecting = {})]
                 ELSE IF b \in Selecting THEN [req[b] EXCEPT !.alone = FALSE]
                 ELSE req[b]]
    /\ UNCHANGED lakes

FindMapping(a) ==
    /\ req[a].st = "find"
    /\ GoTo(a, IF mapping[req[a].lake] = "none" THEN "insert" ELSE "on")
    /\ UNCHANGED <<lakes, mapping, expected>>

Confirm(a) == expected' = IF req[a].alone THEN {{req[a].lake}} ELSE expected

(* An update of a mapping deleted meanwhile changes no row and is confirmed. *)
SelectMapping(a) ==
    LET l == req[a].lake
    IN  /\ req[a].st = "on"
        /\ mapping' = [mapping EXCEPT ![l] = IF @ = "none" THEN @ ELSE "on"]
        /\ Confirm(a)
        /\ End(a)
        /\ UNCHANGED lakes

(* Refused by the foreign key when the datalake is deleted, and by the UNIQUE *)
(* index when another selection inserted the same mapping: nothing of what   *)
(* the request unselected is selected again.                                 *)
InsertMapping(a) ==
    LET l == req[a].lake
    IN  /\ req[a].st = "insert"
        /\ IF Present(l) /\ mapping[l] = "none"
           THEN mapping' = [mapping EXCEPT ![l] = "on"] /\ Confirm(a)
           ELSE UNCHANGED <<mapping, expected>>
        /\ End(a)
        /\ UNCHANGED lakes

Next ==
    \E a \in Admins :
        \/ StatementFails(a)
        \/ \E row \in Edits : CreateChecks(a, row)
        \/ \E l \in Lakes :
              \/ CreateInserts(a, l) \/ DeleteChecks(a, l) \/ SelectChecks(a, l)
              \/ \E row \in Edits : UpdateReads(a, l, row)
        \/ UpdateChecks(a) \/ UpdateWrites(a)
        \/ DeleteMappings(a) \/ DeleteLake(a)
        \/ UnselectAll(a) \/ FindMapping(a) \/ SelectMapping(a) \/ InsertMapping(a)

Spec == Init /\ [][Next]_vars
-----------------------------------------------------------------------------
(* One datalake is selected per endpoint (the comment of the column) as long *)
(* as no selection begins while another is under way, and a selection that   *)
(* was confirmed without meeting another one, or a delete of its datalake,   *)
(* is what the endpoint is answered by until the next one begins: whatever    *)
(* was created, renamed, deactivated, deleted or failed meanwhile.           *)
SelectionKept == Selected \in expected
=============================================================================

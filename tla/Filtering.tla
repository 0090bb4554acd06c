------------------------------- MODULE Filtering -------------------------------
(***************************************************************************)
(* Array.prototype.filter, by the set of the elements to keep.  Written as a *)
(* recursive function where SelectSeq would do, whose definition the proof   *)
(* system does not know.                                                     *)
(***************************************************************************)
EXTENDS Integers, Sequences

Kept(s, S) ==
    LET kept[n \in 0..Len(s)] ==
          IF n = 0 THEN <<>>
          ELSE IF s[n] \in S THEN Append(kept[n - 1], s[n]) ELSE kept[n - 1]
    IN  kept[Len(s)]
=============================================================================

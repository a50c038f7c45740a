------------------------------- MODULE Lists -------------------------------
(***************************************************************************)
(* The lists of dlib (dList, Klist_t), as sequences.                       *)
(***************************************************************************)
EXTENDS Integers, Sequences, SequencesExt

(* A loop over the list q that takes out whatever is not in P, in order.   *)
Keep(q, P) ==
  LET kept[n \in 0 .. Len(q)] ==
        IF n = 0 THEN <<>>
        ELSE IF q[n] \in P THEN Append(kept[n - 1], q[n]) ELSE kept[n - 1]
  IN kept[Len(q)]
=============================================================================

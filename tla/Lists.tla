------------------------------- MODULE Lists --------------------------------
(* What the code's loops over a list collect.                              *)
EXTENDS Naturals, FiniteSets, SequencesExt

(* What a loop over ids collects that are in a set.                        *)
Only(ids, set) ==
  LET only[n \in 0 .. Len(ids)] ==
        IF n = 0 THEN <<>>
        ELSE IF ids[n] \in set THEN Append(only[n - 1], ids[n]) ELSE only[n - 1]
  IN only[Len(ids)]
=============================================================================

--------------------------------- MODULE Lists ---------------------------------
(***************************************************************************)
(* What the program does to its lists with the filter of arrays.           *)
(***************************************************************************)
EXTENDS Naturals, Sequences

\* Array.prototype.filter: the elements of s at the positions, in their order.
Kept(s, positions) ==
    LET kept[n \in 0 .. Len(s)] ==
          IF n = 0 THEN <<>>
          ELSE IF n \in positions THEN Append(kept[n - 1], s[n])
          ELSE kept[n - 1]
    IN kept[Len(s)]
=============================================================================

-------------------------------- MODULE Lists --------------------------------
(***************************************************************************)
(* The loop "for each x of the list, if it is to stay, append it to the     *)
(* new one", which both programs use to filter a list: as a recursive       *)
(* function, so that ListProofs can state what it computes.                 *)
(***************************************************************************)
EXTENDS Naturals, Sequences

Elements(s) == {s[i] : i \in 1..Len(s)}

\* The elements of s that are in T, in their order.
Filter(s, T) ==
  LET kept[n \in 0..Len(s)] ==
        IF n = 0 THEN <<>>
        ELSE IF s[n] \in T THEN Append(kept[n - 1], s[n]) ELSE kept[n - 1]
  IN  kept[Len(s)]

=============================================================================

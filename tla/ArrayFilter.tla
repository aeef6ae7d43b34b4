----------------------------- MODULE ArrayFilter -----------------------------
(* Array.prototype.filter, as the pages use it: what is left of a list.       *)
EXTENDS Naturals, Sequences

\* The elements of s but those at the positions gone, in their order.
Without(s, gone) ==
    LET kept[n \in 0 .. Len(s)] ==
          IF n = 0 THEN <<>>
          ELSE IF n \in gone THEN kept[n - 1] ELSE Append(kept[n - 1], s[n])
    IN kept[Len(s)]
=============================================================================

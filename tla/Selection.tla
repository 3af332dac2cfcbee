------------------------------ MODULE Selection ------------------------------
(***************************************************************************)
(* What a loop over a list leaves that erases, or passes over, entries.    *)
(***************************************************************************)
EXTENDS Integers, Sequences

\* The entries of s that are in S, in their order.
Kept(s, S) ==
  LET kept[n \in 0 .. Len(s)] ==
        IF n = 0 THEN <<>>
        ELSE IF s[n] \in S THEN Append(kept[n - 1], s[n]) ELSE kept[n - 1]
  IN  kept[Len(s)]

\* A list of what f makes of each entry.
Mapped(s, f) == [i \in DOMAIN s |-> f[s[i]]]

=============================================================================

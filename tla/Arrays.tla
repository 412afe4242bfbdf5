------------------------------- MODULE Arrays --------------------------------
(***************************************************************************)
(* Lists: Array.prototype.filter, which the gateway narrows its lists      *)
(* with, and the sum of a list of numbers.                                 *)
(***************************************************************************)
EXTENDS Integers, Sequences

\* The entries at some positions of a list, in their order.
Filter(s, positions) ==
  LET upTo[n \in 0 .. Len(s)] ==
        IF n = 0 THEN <<>>
        ELSE IF n \in positions THEN Append(upTo[n - 1], s[n])
        ELSE upTo[n - 1]
  IN upTo[Len(s)]

SumOf(s) ==
  LET upTo[n \in 0 .. Len(s)] == IF n = 0 THEN 0 ELSE upTo[n - 1] + s[n]
  IN upTo[Len(s)]
=============================================================================
